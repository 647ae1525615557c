----------------------------- MODULE LookupsProofs -----------------------------
(***************************************************************************)
(* Proofs about what the providers say and what becomes of it.             *)
(*                                                                         *)
(* Lookups, for every number of providers and lookups in flight, every     *)
(* question and every expiry: how often a provider that refuses is asked,  *)
(* that a row says what its provider said, and that no answer is used for  *)
(* longer than it deserves.                                                *)
(*                                                                         *)
(* Normalize, for every library, every set of answers and every threshold: *)
(* who comes onto an author list and who leaves it, and on what evidence.  *)
(* Every list it writes is one of a few, each in other spellings, cut, or  *)
(* voted for; that an order of finitely many things has a first and a k-th *)
(* (Ranks) is what says that its votes and sorts are what they should be.  *)
(***************************************************************************)
EXTENDS Lookups, Normalize, FiniteSetTheorems, TLAPS

--------------------------------------------------------------------------------
(***************************************************************************)
(* The shapes of the state.                                                *)
(***************************************************************************)
\* A row that is there.
IsRow(row) ==
  /\ row = [q |-> row.q, hit |-> row.hit, results |-> row.results, at |-> row.at, ends |-> row.ends]
  /\ row.q \in Questions /\ row.at \in 0 .. day
  /\ row.results = {} => ~row.hit

\* A lookup under way asks for something the provider can be asked.
IsLook(l) ==
  /\ DOMAIN l = {"phase", "q", "p", "cached", "request", "retried", "refused", "ends"}
  /\ l.phase # "idle" /\ l.q \in Questions /\ l.p \in Order
  /\ l.request \in 1 .. Len(Asked[l.p][l.q])

\* Unless one of them ended in an outage, the requests before this one found
\* nothing because there was nothing known.
AskedInVain(l) ==
  "outage" \in l.ends \/ \A i \in 1 .. l.request - 1 : known[l.p][Asked[l.p][l.q][i]] = Never

ShapeInv ==
  /\ day \in Nat
  /\ known = [p \in Order |-> [x \in DOMAIN World[p] |-> known[p][x]]]
  /\ \A p \in Order : \A x \in DOMAIN World[p] :
       known[p][x] \in Never .. day /\ (known[p][x] # Never => World[p][x] # {})
  /\ refusals \in [Order -> Nat]
  /\ cache = [c \in Order \X Keys |-> cache[c]]
  /\ \A c \in Order \X Keys : cache[c] = None \/ IsRow(cache[c])
  /\ look = [w \in Workers |-> look[w]]
  /\ \A w \in Workers : look[w] = Idle \/ (IsLook(look[w]) /\ AskedInVain(look[w]))

\* Who is asking a provider may still be refused by it.
Askers(p) == {w \in Workers : look[w] # Idle /\ look[w].p = p}
RefusalInv ==
  \A p \in Order : refusals[p] + Cardinality(Askers(p)) <= GiveUpAfter - 1 + Cardinality(Workers)

\* RowsAreAnswers of one row.
RowTrue(p, row) ==
  IF row.hit
    THEN \E x \in DOMAIN World[p] :
           /\ x \in {Asked[p][row.q][i] : i \in DOMAIN Asked[p][row.q]}
           /\ known[p][x] \in 0 .. row.at /\ row.results = World[p][x]
    ELSE \/ "outage" \in row.ends
         \/ \A x \in {Asked[p][row.q][i] : i \in DOMAIN Asked[p][row.q]} : known[p][x] \notin 0 .. row.at

RowsInv ==
  \A c \in Order \X Keys : cache[c] # None => IsRow(cache[c]) /\ RowTrue(c[1], cache[c])

Inv == ShapeInv /\ RowsInv /\ RefusalInv

LEMMA OrderNat == Order \subseteq Nat \ {0} /\ Providers \in Nat
BY LookupsAssumption DEF Order

LEMMA AskedShape ==
  ASSUME NEW p \in Order, NEW q \in Questions
  PROVE  /\ Asked[p][q] \in Seq(DOMAIN World[p]) /\ Len(Asked[p][q]) \in Nat \ {0}
         /\ DOMAIN Asked[p][q] = 1 .. Len(Asked[p][q])
         /\ \A i \in 1 .. Len(Asked[p][q]) : Asked[p][q][i] \in DOMAIN World[p]
         /\ Key[q] \in Keys
BY LookupsAssumption DEF Keys

LEMMA InitInv == Init => Inv
<1> SUFFICES ASSUME Init PROVE Inv
  OBVIOUS
<1>1. ShapeInv
  BY DEF Init, ShapeInv, Never
<1>2. RowsInv
  BY DEF Init, RowsInv
<1>3. \A p \in Order : Askers(p) = {} /\ refusals[p] = 0
  BY DEF Init, Askers
<1>4. RefusalInv
  <2>1. Cardinality({}) = 0 /\ Cardinality(Workers) \in Nat
    BY FS_EmptySet, FS_CardinalityType, LookupsAssumption
  <2>2. ASSUME NEW p \in Order
        PROVE  refusals[p] + Cardinality(Askers(p)) <= GiveUpAfter - 1 + Cardinality(Workers)
    <3>1. Askers(p) = {} /\ refusals[p] = 0
      BY <1>3
    <3>2. refusals[p] + Cardinality(Askers(p)) = 0
      BY <3>1, <2>1
    <3>3. QED
      BY <3>2, <2>1, LookupsAssumption
  <2>3. QED
    BY <2>2 DEF RefusalInv
<1>5. QED
  BY <1>1, <1>2, <1>4 DEF Inv

--------------------------------------------------------------------------------
(***************************************************************************)
(* How the count of refusals and of those who ask moves.                   *)
(***************************************************************************)
\* Whoever asks is one of the workers.
LEMMA AskersBounded ==
  ASSUME NEW p
  PROVE  /\ IsFiniteSet(Askers(p)) /\ Cardinality(Askers(p)) \in Nat
         /\ Cardinality(Askers(p)) <= Cardinality(Workers)
         /\ IsFiniteSet(Askers(p)') /\ Cardinality(Askers(p)') \in Nat
         /\ Cardinality(Askers(p)') <= Cardinality(Workers)
         /\ Cardinality(Workers) \in Nat
<1>1. Askers(p) \subseteq Workers /\ Askers(p)' \subseteq Workers
  BY DEF Askers
<1>2. QED
  BY <1>1, LookupsAssumption, FS_Subset, FS_CardinalityType

\* A step keeps the bound at p if it leaves p not given up on, or brings p neither
\* a refusal nor somebody who asks, or a refusal for one who goes on to another.
LEMMA BoundKept ==
  ASSUME RefusalInv, refusals \in [Order -> Nat], refusals' \in [Order -> Nat], NEW p \in Order,
         \/ refusals'[p] < GiveUpAfter
         \/ refusals'[p] <= refusals[p] /\ Askers(p)' \subseteq Askers(p)
         \/ \E w \in Askers(p) : refusals'[p] = refusals[p] + 1 /\ Askers(p)' \subseteq Askers(p) \ {w}
  PROVE  refusals'[p] + Cardinality(Askers(p)') <= GiveUpAfter - 1 + Cardinality(Workers)
<1> USE AskersBounded, LookupsAssumption
<1>1. CASE refusals'[p] < GiveUpAfter
  BY <1>1
<1>2. CASE refusals'[p] <= refusals[p] /\ Askers(p)' \subseteq Askers(p)
  <2>1. Cardinality(Askers(p)') <= Cardinality(Askers(p))
    BY <1>2, FS_Subset
  <2>2. QED
    BY <1>2, <2>1 DEF RefusalInv
<1>3. ASSUME NEW w \in Askers(p), refusals'[p] = refusals[p] + 1, Askers(p)' \subseteq Askers(p) \ {w}
      PROVE  refusals'[p] + Cardinality(Askers(p)') <= GiveUpAfter - 1 + Cardinality(Workers)
  <2>1. /\ IsFiniteSet(Askers(p) \ {w})
        /\ Cardinality(Askers(p) \ {w}) = Cardinality(Askers(p)) - 1
    BY FS_RemoveElement
  <2>2. Cardinality(Askers(p)') <= Cardinality(Askers(p) \ {w})
    BY <1>3, <2>1, FS_Subset
  <2>3. QED
    BY <1>3, <2>1, <2>2 DEF RefusalInv
<1>4. QED
  BY <1>1, <1>2, <1>3


--------------------------------------------------------------------------------
(***************************************************************************)
(* What a lookup does on its way.                                          *)
(***************************************************************************)
\* A lookup that has just turned to a provider that is not given up on.
Fresher(l, q, p) ==
  /\ l = [phase |-> "asking", q |-> q, p |-> l.p, cached |-> l.cached, request |-> 1,
          retried |-> FALSE, refused |-> FALSE, ends |-> {}]
  /\ l.p \in Order /\ l.p >= p /\ refusals'[l.p] < GiveUpAfter

LEMMA OnwardEffect ==
  ASSUME NEW w \in Workers, NEW q \in Questions, NEW p \in Nat, NEW before,
         refusals' \in [Order -> Nat], p > 0, Onward(w, q, p, before)
  PROVE  \E l : look' = [look EXCEPT ![w] = l] /\ (l = Idle \/ Fresher(l, q, p))
<1> USE LookupsAssumption
<1>1. PICK next \in p .. Providers + 1 :
         \/ next > Providers /\ look' = [look EXCEPT ![w] = Idle]
         \/ /\ next <= Providers /\ Due(next, q)
            /\ look' = [look EXCEPT ![w] =
                 [phase |-> "asking", q |-> q, p |-> next, cached |-> cache'[<<next, Key[q]>>],
                  request |-> 1, retried |-> FALSE, refused |-> FALSE, ends |-> {}]]
  BY DEF Onward
<1>2. CASE look' = [look EXCEPT ![w] = Idle]
  BY <1>2
<1>3. CASE /\ next <= Providers /\ Due(next, q)
           /\ look' = [look EXCEPT ![w] =
                 [phase |-> "asking", q |-> q, p |-> next, cached |-> cache'[<<next, Key[q]>>],
                  request |-> 1, retried |-> FALSE, refused |-> FALSE, ends |-> {}]]
  <2> DEFINE l == [phase |-> "asking", q |-> q, p |-> next, cached |-> cache'[<<next, Key[q]>>],
                   request |-> 1, retried |-> FALSE, refused |-> FALSE, ends |-> {}]
  <2>1. next \in Order /\ next >= p
    BY <1>3, <1>1 DEF Order
  <2>2. ~(refusals'[next] >= GiveUpAfter)
    BY <1>3 DEF Due, HasGivenUp
  <2>3. refusals'[next] \in Nat /\ refusals'[next] < GiveUpAfter
    BY <2>1, <2>2
  <2>4. Fresher(l, q, p)
    BY <2>1, <2>3 DEF Fresher
  <2>5. QED
    BY <1>3, <2>4
<1>4. QED
  BY <1>1, <1>2, <1>3

\* A lookup that has just turned to a provider has asked nothing in vain.
LEMMA FresherLook ==
  ASSUME NEW l, NEW q \in Questions, NEW p, Fresher(l, q, p)
  PROVE  l # Idle /\ IsLook(l) /\ AskedInVain(l) /\ AskedInVain(l)'
<1>1. /\ l.phase = "asking" /\ l.q = q /\ l.request = 1 /\ l.p \in Order
  BY DEF Fresher
<1>2. 1 .. l.request - 1 = {}
  BY <1>1
<1>3. IsLook(l)
  BY <1>1, AskedShape DEF Fresher, IsLook
<1>4. QED
  BY <1>1, <1>2, <1>3 DEF AskedInVain, Idle

\* A step in which one lookup turns to a provider not given up on, or ends, keeps
\* the bound; only the provider it turns from may have refused.
LEMMA TurnKeepsBound ==
  ASSUME ShapeInv, RefusalInv, NEW w \in Workers, NEW l, look' = [look EXCEPT ![w] = l],
         refusals' \in [Order -> Nat],
         l = Idle \/ (l.p \in Order /\ refusals'[l.p] < GiveUpAfter),
         \A p \in Order : \/ refusals'[p] <= refusals[p]
                          \/ w \in Askers(p) /\ refusals'[p] = refusals[p] + 1
  PROVE  RefusalInv'
<1>1. refusals \in [Order -> Nat] /\ look'[w] = l /\ \A v \in Workers \ {w} : look'[v] = look[v]
  BY DEF ShapeInv
<1>2. ASSUME NEW p \in Order
      PROVE  refusals'[p] + Cardinality(Askers(p)') <= GiveUpAfter - 1 + Cardinality(Workers)
  <2>1. CASE l # Idle /\ l.p = p
    <3>1. refusals'[p] < GiveUpAfter
      BY <2>1
    <3>2. QED
      BY <3>1, <1>1, BoundKept
  <2>2. CASE ~(l # Idle /\ l.p = p)
    <3>1. Askers(p)' \subseteq Askers(p) \ {w}
      BY <1>1, <2>2 DEF Askers
    <3>2. CASE refusals'[p] <= refusals[p]
      BY <3>1, <3>2, <1>1, BoundKept
    <3>3. CASE w \in Askers(p) /\ refusals'[p] = refusals[p] + 1
      BY <3>1, <3>3, <1>1, BoundKept
    <3>4. QED
      BY <3>2, <3>3
  <2>3. QED
    BY <2>1, <2>2
<1>3. QED
  BY <1>2 DEF RefusalInv

\* So does a step in which nobody turns from its provider and nothing is refused.
LEMMA StayKeepsBound ==
  ASSUME ShapeInv, RefusalInv, UNCHANGED refusals, \A p \in Order : Askers(p)' \subseteq Askers(p)
  PROVE  RefusalInv'
<1>1. refusals \in [Order -> Nat] /\ refusals' \in [Order -> Nat]
  BY DEF ShapeInv
<1>2. ASSUME NEW p \in Order
      PROVE  refusals'[p] + Cardinality(Askers(p)') <= GiveUpAfter - 1 + Cardinality(Workers)
  <2>1. refusals'[p] <= refusals[p]
    BY <1>1
  <2>2. QED
    BY <2>1, <1>1, BoundKept
<1>3. QED
  BY <1>2 DEF RefusalInv

--------------------------------------------------------------------------------
(***************************************************************************)
(* What a row says.                                                        *)
(***************************************************************************)
\* The requests a provider can be made.
LEMMA RequestsKnown ==
  ASSUME NEW p \in Order, NEW q \in Questions
  PROVE  {Asked[p][q][i] : i \in DOMAIN Asked[p][q]} \subseteq DOMAIN World[p]
BY AskedShape

LEMMA RowsAgree == ShapeInv => (RowsInv <=> RowsAreAnswers)
<1> SUFFICES ASSUME ShapeInv PROVE RowsInv <=> RowsAreAnswers
  OBVIOUS
<1>1. ASSUME NEW p \in Order, NEW k \in Keys, cache[<<p, k>>] # None
      PROVE  /\ IsRow(cache[<<p, k>>])
             /\ {Asked[p][cache[<<p, k>>].q][i] : i \in DOMAIN Asked[p][cache[<<p, k>>].q]}
                  \subseteq DOMAIN World[p]
  <2>1. IsRow(cache[<<p, k>>])
    BY <1>1 DEF ShapeInv
  <2>2. QED
    BY <2>1, RequestsKnown DEF IsRow
<1>2. ASSUME RowsInv PROVE RowsAreAnswers
  BY <1>1, <1>2 DEF RowsInv, RowsAreAnswers, RowTrue
<1>3. ASSUME RowsAreAnswers PROVE RowsInv
  BY <1>1, <1>3 DEF RowsInv, RowsAreAnswers, RowTrue
<1>4. QED
  BY <1>2, <1>3

\* Rows that stay stay true, and a row that is written is to be true.
LEMMA CacheKept ==
  ASSUME Inv, UNCHANGED <<known, day>>, NEW p \in Order, NEW k \in Keys, NEW row,
         cache' = [cache EXCEPT ![<<p, k>>] = row], IsRow(row), RowTrue(p, row)
  PROVE  /\ cache' = [c \in Order \X Keys |-> cache'[c]]
         /\ \A c \in Order \X Keys : cache'[c] = None \/ IsRow(cache[c])'
         /\ RowsInv'
<1>1. /\ cache = [c \in Order \X Keys |-> cache[c]]
      /\ \A c \in Order \X Keys : cache[c] = None \/ IsRow(cache[c])
      /\ \A c \in Order \X Keys : cache[c] # None => IsRow(cache[c]) /\ RowTrue(c[1], cache[c])
  BY DEF Inv, ShapeInv, RowsInv
<1>2. /\ cache' = [c \in Order \X Keys |-> cache'[c]]
      /\ \A c \in Order \X Keys : cache'[c] = IF c = <<p, k>> THEN row ELSE cache[c]
  BY <1>1
<1>3. ASSUME NEW c \in Order \X Keys
      PROVE  cache'[c] = None \/ (IsRow(cache[c])' /\ RowTrue(c[1], cache[c])')
  <2>1. cache'[c] = None \/ (IsRow(cache'[c]) /\ RowTrue(c[1], cache'[c]))
    BY <1>1, <1>2
  <2>2. IsRow(cache'[c]) <=> IsRow(cache[c])'
    BY DEF IsRow
  <2>3. RowTrue(c[1], cache'[c]) <=> RowTrue(c[1], cache[c])'
    BY DEF RowTrue
  <2>4. QED
    BY <2>1, <2>2, <2>3
<1>4. QED
  BY <1>2, <1>3 DEF RowsInv

LEMMA CacheUnchanged ==
  ASSUME Inv, UNCHANGED <<known, day, cache>>
  PROVE  /\ cache' = [c \in Order \X Keys |-> cache'[c]]
         /\ \A c \in Order \X Keys : cache'[c] = None \/ IsRow(cache[c])'
         /\ RowsInv'
<1>1. RowsInv'
  BY DEF Inv, RowsInv, IsRow, RowTrue
<1>2. QED
  BY <1>1 DEF Inv, ShapeInv, IsRow

\* The shapes, of a step that changes one lookup.
LEMMA ShapeKept ==
  ASSUME Inv, UNCHANGED <<known, day>>, refusals' \in [Order -> Nat],
         cache' = [c \in Order \X Keys |-> cache'[c]],
         \A c \in Order \X Keys : cache'[c] = None \/ IsRow(cache[c])',
         NEW w \in Workers, NEW l, look' = [look EXCEPT ![w] = l],
         l = Idle \/ (IsLook(l) /\ AskedInVain(l))
  PROVE  ShapeInv'
<1>1. \A v \in Workers : look[v] = Idle \/ (IsLook(look[v]) /\ AskedInVain(look[v]))
  BY DEF Inv, ShapeInv
<1>2. look = [v \in Workers |-> look[v]]
  BY DEF Inv, ShapeInv
<1>3. /\ look' = [v \in Workers |-> look'[v]]
      /\ \A v \in Workers : look'[v] = IF v = w THEN l ELSE look[v]
  BY <1>2
<1>4. \A v \in Workers : look'[v] = Idle \/ (IsLook(look'[v]) /\ AskedInVain(look'[v]))
  BY <1>1, <1>3
<1>5. ASSUME NEW v \in Workers
      PROVE  look'[v] = Idle \/ (IsLook(look[v])' /\ AskedInVain(look[v])')
  BY <1>4 DEF IsLook, AskedInVain
<1>6. day' \in Nat /\ known' = [p \in Order |-> [x \in DOMAIN World[p] |-> known'[p][x]]]
  BY DEF Inv, ShapeInv
<1>7. \A p \in Order : \A x \in DOMAIN World[p] :
        known'[p][x] \in Never .. day' /\ (known'[p][x] # Never => World[p][x] # {})
  BY DEF Inv, ShapeInv
<1>8. QED
  BY <1>3, <1>5, <1>6, <1>7 DEF ShapeInv

\* A step in which a lookup turns to its next provider from p on.
LEMMA TurnKeeps ==
  ASSUME Inv, UNCHANGED <<known, day>>, refusals' \in [Order -> Nat],
         cache' = [c \in Order \X Keys |-> cache'[c]],
         \A c \in Order \X Keys : cache'[c] = None \/ IsRow(cache[c])',
         RowsInv',
         NEW w \in Workers, NEW q \in Questions, NEW p \in Nat, p > 0, NEW before,
         Onward(w, q, p, before),
         \A i \in Order : \/ refusals'[i] <= refusals[i]
                          \/ w \in Askers(i) /\ refusals'[i] = refusals[i] + 1
  PROVE  Inv'
<1>1. PICK l : look' = [look EXCEPT ![w] = l] /\ (l = Idle \/ Fresher(l, q, p))
  BY OnwardEffect
<1>2. l = Idle \/ (IsLook(l) /\ AskedInVain(l))
  BY <1>1, FresherLook
<1>3. l = Idle \/ (l.p \in Order /\ refusals'[l.p] < GiveUpAfter)
  BY <1>1 DEF Fresher
<1>4. ShapeInv'
  BY <1>1, <1>2, ShapeKept
<1>5. RefusalInv'
  BY <1>1, <1>3, TurnKeepsBound DEF Inv
<1>6. QED
  BY <1>4, <1>5 DEF Inv

\* A step in which a lookup goes on with its provider.
LEMMA StayKeeps ==
  ASSUME Inv, UNCHANGED <<known, day, cache, refusals>>,
         NEW w \in Workers, look[w] # Idle, NEW l, look' = [look EXCEPT ![w] = l],
         l = Idle \/ (IsLook(l) /\ AskedInVain(l) /\ l.p = look[w].p)
  PROVE  Inv'
<1>1. refusals' \in [Order -> Nat]
  BY DEF Inv, ShapeInv
<1>2. ShapeInv'
  BY <1>1, CacheUnchanged, ShapeKept
<1>3. ASSUME NEW p \in Order PROVE Askers(p)' \subseteq Askers(p)
  <2>1. look = [v \in Workers |-> look[v]]
    BY DEF Inv, ShapeInv
  <2>2. QED
    BY <2>1 DEF Askers
<1>4. RefusalInv'
  BY <1>3, StayKeepsBound DEF Inv
<1>5. QED
  BY <1>2, <1>4, CacheUnchanged DEF Inv

--------------------------------------------------------------------------------
(***************************************************************************)
(* The steps.                                                              *)
(***************************************************************************)
LEMMA Known == \A d \in Nat : \A v \in Never .. d : v # Never <=> v \in 0 .. d
BY DEF Never

\* What holds of a lookup under way.
LEMMA Underway ==
  ASSUME Inv, NEW w \in Workers, look[w] # Idle
  PROVE  /\ IsLook(look[w]) /\ AskedInVain(look[w]) /\ w \in Askers(look[w].p)
         /\ look[w].p \in Order /\ look[w].p + 1 \in Nat /\ look[w].p + 1 > 0
         /\ look[w].q \in Questions /\ Key[look[w].q] \in Keys
         /\ look[w].request \in 1 .. Len(Asked[look[w].p][look[w].q])
         /\ refusals \in [Order -> Nat] /\ day \in Nat
<1>1. IsLook(look[w]) /\ AskedInVain(look[w]) /\ refusals \in [Order -> Nat] /\ day \in Nat
  BY DEF Inv, ShapeInv
<1>2. /\ look[w].p \in Order /\ look[w].q \in Questions
      /\ look[w].request \in 1 .. Len(Asked[look[w].p][look[w].q])
  BY <1>1 DEF IsLook
<1>3. Key[look[w].q] \in Keys /\ w \in Askers(look[w].p)
  BY <1>2 DEF Keys, Askers
<1>4. look[w].p + 1 \in Nat /\ look[w].p + 1 > 0
  BY <1>2, LookupsAssumption DEF Order
<1>5. QED
  BY <1>1, <1>2, <1>3, <1>4

LEMMA ReturnedKeeps ==
  ASSUME Inv, UNCHANGED <<known, day>>, NEW w \in Workers, look[w] # Idle, NEW results, NEW ends,
         Returned(w, results, ends), RowTrue(look[w].p, Fetched(look[w].q, results, ends))
  PROVE  Inv'
<1> DEFINE l == look[w]
<1>1. /\ l.p \in Order /\ l.q \in Questions /\ Key[l.q] \in Keys /\ day \in Nat
      /\ refusals \in [Order -> Nat] /\ l.p + 1 \in Nat /\ l.p + 1 > 0
  BY Underway
<1>2. IsRow(Fetched(l.q, results, ends))
  <2> DEFINE row == Fetched(l.q, results, ends)
  <2>1. /\ row = [q |-> l.q, hit |-> row.hit, results |-> results, at |-> day, ends |-> ends]
        /\ row.q = l.q /\ row.results = results /\ row.at = day /\ row.ends = ends
    BY DEF Fetched
  <2>2. results = {} => ~row.hit
    BY DEF Fetched
  <2> HIDE DEF row
  <2>3. IsRow(row)
    BY <1>1, <2>1, <2>2 DEF IsRow
  <2>4. QED
    BY <2>3 DEF row
<1>3. /\ refusals' = [refusals EXCEPT ![l.p] = 0]
      /\ cache' = [cache EXCEPT ![<<l.p, Key[l.q]>>] = Fetched(l.q, results, ends)]
      /\ Onward(w, l.q, l.p + 1, {Use(l.p, l.q, Fetched(l.q, results, ends), FALSE, FALSE)})
  BY DEF Returned
<1>4. refusals' \in [Order -> Nat] /\ \A i \in Order : refusals'[i] <= refusals[i]
  BY <1>1, <1>3
<1>5. /\ cache' = [c \in Order \X Keys |-> cache'[c]]
      /\ \A c \in Order \X Keys : cache'[c] = None \/ IsRow(cache[c])'
      /\ RowsInv'
  BY <1>1, <1>2, <1>3, CacheKept
<1>6. QED
  BY <1>1, <1>3, <1>4, <1>5, TurnKeeps

LEMMA RefusedKeeps ==
  ASSUME Inv, UNCHANGED <<known, day>>, NEW w \in Workers, look[w] # Idle, Refused(w)
  PROVE  Inv'
<1> DEFINE l == look[w]
<1>1. /\ l.p \in Order /\ l.q \in Questions /\ w \in Askers(l.p)
      /\ refusals \in [Order -> Nat] /\ l.p + 1 \in Nat /\ l.p + 1 > 0
  BY Underway
<1>2. /\ refusals' = [refusals EXCEPT ![l.p] = refusals[l.p] + 1]
      /\ UNCHANGED cache
      /\ Onward(w, l.q, l.p + 1, {Use(l.p, l.q, l.cached, FALSE, TRUE)})
  BY DEF Refused
<1>3. /\ refusals' \in [Order -> Nat]
      /\ \A i \in Order : \/ refusals'[i] <= refusals[i]
                          \/ w \in Askers(i) /\ refusals'[i] = refusals[i] + 1
  BY <1>1, <1>2
<1>4. /\ cache' = [c \in Order \X Keys |-> cache'[c]]
      /\ \A c \in Order \X Keys : cache'[c] = None \/ IsRow(cache[c])'
      /\ RowsInv'
  BY <1>2, CacheUnchanged
<1>5. QED
  BY <1>1, <1>2, <1>3, <1>4, TurnKeeps

\* Nothing found: by an outage, or because there is nothing known.
LEMMA EmptyKeeps ==
  ASSUME Inv, UNCHANGED <<known, day>>, NEW w \in Workers, look[w] # Idle, NEW how, Empty(w, how),
         how = "outage"
           \/ known[look[w].p][Asked[look[w].p][look[w].q][look[w].request]] = Never
  PROVE  Inv'
<1> DEFINE l == look[w]
           n == Len(Asked[l.p][l.q])
           now == [l EXCEPT !.request = l.request + 1, !.phase = "asking",
                     !.retried = FALSE, !.refused = FALSE, !.ends = l.ends \cup {how}]
<1>1. /\ l.p \in Order /\ l.q \in Questions /\ l.request \in 1 .. n
      /\ IsLook(l) /\ AskedInVain(l) /\ day \in Nat
  BY Underway
<1>2. n \in Nat /\ DOMAIN Asked[l.p][l.q] = 1 .. n
  BY <1>1, AskedShape
<1>3. \/ "outage" \in l.ends \cup {how}
      \/ \A i \in 1 .. l.request : known[l.p][Asked[l.p][l.q][i]] = Never
  <2>1. \A i \in 1 .. l.request : i \in 1 .. l.request - 1 \/ i = l.request
    BY <1>1, <1>2
  <2>2. "outage" \in l.ends \/ \A i \in 1 .. l.request - 1 : known[l.p][Asked[l.p][l.q][i]] = Never
    BY <1>1 DEF AskedInVain
  <2>3. how = "outage" \/ known[l.p][Asked[l.p][l.q][l.request]] = Never
    OBVIOUS
  <2>4. QED
    BY <2>1, <2>2, <2>3
<1>4. CASE l.request < n
  <2>1. /\ look' = [look EXCEPT ![w] = now]
        /\ UNCHANGED <<cache, refusals>>
    BY <1>4 DEF Empty
  <2>2. /\ DOMAIN now = DOMAIN l /\ now.phase = "asking" /\ now.q = l.q /\ now.p = l.p
        /\ now.request = l.request + 1 /\ now.ends = l.ends \cup {how}
    BY <1>1 DEF IsLook
  <2>3. IsLook(now) /\ now.p = l.p
    BY <2>2, <1>1, <1>2, <1>4 DEF IsLook
  <2>4. AskedInVain(now)
    <3>1. 1 .. now.request - 1 = 1 .. l.request
      BY <2>2, <1>1, <1>2
    <3>2. now.p = l.p /\ now.q = l.q /\ now.ends = l.ends \cup {how}
      BY <2>2
    <3>3. QED
      BY <3>1, <3>2, <1>3 DEF AskedInVain
  <2>5. QED
    BY <2>1, <2>3, <2>4, StayKeeps
<1>5. CASE ~(l.request < n)
  <2> DEFINE row == Fetched(l.q, {}, l.ends \cup {how})
  <2>1. Returned(w, {}, l.ends \cup {how})
    BY <1>5 DEF Empty
  <2>2. l.request = n
    BY <1>1, <1>2, <1>5
  <2>3. row.hit = FALSE /\ row.q = l.q /\ row.at = day /\ row.ends = l.ends \cup {how}
    BY DEF Fetched
  <2>4. "outage" \in row.ends
          \/ \A x \in {Asked[l.p][l.q][i] : i \in DOMAIN Asked[l.p][l.q]} : known[l.p][x] \notin 0 .. day
    <3>1. Never \notin 0 .. day
      BY <1>1 DEF Never
    <3>2. CASE "outage" \in l.ends \cup {how}
      BY <3>2, <2>3
    <3>3. CASE \A i \in 1 .. l.request : known[l.p][Asked[l.p][l.q][i]] = Never
      BY <3>1, <3>3, <1>2, <2>2
    <3>4. QED
      BY <3>2, <3>3, <1>3
  <2>5. RowTrue(l.p, row)
    BY <2>3, <2>4 DEF RowTrue
  <2>6. QED
    BY <2>1, <2>5, ReturnedKeeps
<1>6. QED
  BY <1>4, <1>5

LEMMA AnswerStep ==
  ASSUME Inv, NEW w \in Workers, Answer(w) PROVE Inv'
<1> DEFINE l == look[w]  x == Asked[l.p][l.q][l.request]
<1>1. look[w] # Idle /\ UNCHANGED <<known, day>>
  BY DEF Answer, Asking
<1>2. /\ l.p \in Order /\ l.q \in Questions /\ l.request \in 1 .. Len(Asked[l.p][l.q]) /\ day \in Nat
  BY <1>1, Underway
<1>3. x \in DOMAIN World[l.p] /\ x \in {Asked[l.p][l.q][i] : i \in DOMAIN Asked[l.p][l.q]}
  BY <1>2, AskedShape
<1>4. CASE known[l.p][x] = Never
  <2>1. Empty(w, "answer")
    BY <1>4 DEF Answer
  <2>2. QED
    BY <1>1, <1>4, <2>1, EmptyKeeps
<1>5. CASE known[l.p][x] # Never
  <2> DEFINE row == Fetched(l.q, World[l.p][x], l.ends \cup {"answer"})
  <2>1. Returned(w, World[l.p][x], l.ends \cup {"answer"})
    BY <1>5 DEF Answer
  <2>2. known[l.p][x] \in Never .. day /\ World[l.p][x] # {}
    BY <1>2, <1>3, <1>5 DEF Inv, ShapeInv
  <2>3. known[l.p][x] \in 0 .. day
    BY <1>2, <1>5, <2>2, Known
  <2>4. row.hit = TRUE /\ row.q = l.q /\ row.at = day /\ row.results = World[l.p][x]
    BY <2>2 DEF Fetched
  <2>5. RowTrue(l.p, row)
    BY <1>3, <2>3, <2>4 DEF RowTrue
  <2>6. QED
    BY <1>1, <2>1, <2>5, ReturnedKeeps
<1>6. QED
  BY <1>4, <1>5

LEMMA FailsStep ==
  ASSUME Inv, NEW w \in Workers, NEW limited \in BOOLEAN, Fails(w, limited) PROVE Inv'
<1> DEFINE l == look[w]  refused == l.refused \/ limited
           now == [l EXCEPT !.phase = "pausing", !.refused = refused]
<1>1. look[w] # Idle /\ UNCHANGED <<known, day>>
  BY DEF Fails, Asking
<1>2. IsLook(l) /\ AskedInVain(l)
  BY <1>1, Underway
<1>3. CASE l.retried /\ refused
  BY <1>1, <1>3, RefusedKeeps DEF Fails, Exhausted
<1>4. CASE l.retried /\ ~refused
  <2>1. Empty(w, "outage")
    BY <1>4 DEF Fails, Exhausted
  <2>2. QED
    BY <1>1, <2>1, EmptyKeeps
<1>5. CASE ~l.retried
  <2>1. look' = [look EXCEPT ![w] = now] /\ UNCHANGED <<known, day, cache, refusals>>
    BY <1>5, <1>1 DEF Fails
  <2>2. /\ DOMAIN now = DOMAIN l /\ now.phase = "pausing" /\ now.q = l.q /\ now.p = l.p
        /\ now.request = l.request /\ now.ends = l.ends
    BY <1>2 DEF IsLook
  <2>3. IsLook(now) /\ AskedInVain(now) /\ now.p = l.p
    BY <1>2, <2>2 DEF IsLook, AskedInVain
  <2>4. QED
    BY <1>1, <2>1, <2>3, StayKeeps
<1>6. QED
  BY <1>3, <1>4, <1>5

LEMMA WakeStep ==
  ASSUME Inv, NEW w \in Workers, Wake(w) PROVE Inv'
<1> DEFINE l == look[w]  now == [l EXCEPT !.phase = "asking", !.retried = TRUE]
<1>1. look[w] # Idle /\ look' = [look EXCEPT ![w] = now] /\ UNCHANGED <<known, day, cache, refusals>>
  BY DEF Wake
<1>2. IsLook(l) /\ AskedInVain(l)
  BY <1>1, Underway
<1>3. /\ DOMAIN now = DOMAIN l /\ now.phase = "asking" /\ now.q = l.q /\ now.p = l.p
      /\ now.request = l.request /\ now.ends = l.ends
  BY <1>2 DEF IsLook
<1>4. IsLook(now) /\ AskedInVain(now) /\ now.p = l.p
  BY <1>2, <1>3 DEF IsLook, AskedInVain
<1>5. QED
  BY <1>1, <1>4, StayKeeps

LEMMA StartStep ==
  ASSUME Inv, NEW w \in Workers, NEW q \in Questions, Start(w, q) PROVE Inv'
<1>1. UNCHANGED <<known, day, cache, refusals>> /\ Onward(w, q, 1, {})
  BY DEF Start
<1>2. refusals' \in [Order -> Nat] /\ \A i \in Order : refusals'[i] <= refusals[i]
  BY <1>1 DEF Inv, ShapeInv
<1>3. QED
  BY <1>1, <1>2, CacheUnchanged, TurnKeeps

\* A run may begin with the count at zero when nobody is asking.
LEMMA NewRunStep ==
  ASSUME Inv, NEW prunes \in BOOLEAN, NewRun(prunes) PROVE Inv'
<1>1. /\ \A w \in Workers : look[w] = Idle
      /\ UNCHANGED <<known, day, look>>
      /\ refusals' = [p \in Order |-> 0]
  BY DEF NewRun, Quiet
<1>2. /\ cache' = [c \in Order \X Keys |-> cache'[c]]
      /\ \A c \in Order \X Keys : cache'[c] = None \/ cache'[c] = cache[c]
  <2>1. DOMAIN cache = Order \X Keys
    BY DEF Inv, ShapeInv
  <2>2. QED
    BY <2>1 DEF NewRun
<1>3. ShapeInv'
  BY <1>1, <1>2 DEF Inv, ShapeInv, IsRow
<1>4. RowsInv'
  <2>1. ASSUME NEW c \in Order \X Keys, cache'[c] # None
        PROVE  IsRow(cache[c])' /\ RowTrue(c[1], cache[c])'
    <3>1. cache'[c] = cache[c] /\ IsRow(cache[c]) /\ RowTrue(c[1], cache[c])
      BY <2>1, <1>2 DEF Inv, RowsInv
    <3>2. QED
      BY <3>1, <1>1 DEF IsRow, RowTrue
  <2>2. QED
    BY <2>1 DEF RowsInv
<1>5. RefusalInv'
  <2>1. ASSUME NEW p \in Order
        PROVE  refusals'[p] + Cardinality(Askers(p)') <= GiveUpAfter - 1 + Cardinality(Workers)
    <3>1. refusals \in [Order -> Nat] /\ refusals' \in [Order -> Nat] /\ refusals'[p] < GiveUpAfter
      BY <1>1, LookupsAssumption DEF Inv, ShapeInv
    <3>2. QED
      BY <3>1, BoundKept DEF Inv
  <2>2. QED
    BY <2>1 DEF RefusalInv
<1>6. QED
  BY <1>3, <1>4, <1>5 DEF Inv

\* What a provider learns today it did not know when any row was written.
LEMMA TickStep == ASSUME Inv, Tick PROVE Inv'
<1>1. /\ \A w \in Workers : look[w] = Idle
      /\ UNCHANGED <<cache, refusals, look>> /\ day \in Nat /\ day' = day + 1
  BY DEF Tick, Quiet, Inv, ShapeInv
<1>2. /\ known' = [p \in Order |-> [x \in DOMAIN World[p] |-> known'[p][x]]]
      /\ \A p \in Order : \A x \in DOMAIN World[p] :
           known'[p][x] = known[p][x]
             \/ (known[p][x] = Never /\ known'[p][x] = day' /\ World[p][x] # {})
  <2>1. known = [p \in Order |-> [x \in DOMAIN World[p] |-> known[p][x]]]
    BY DEF Inv, ShapeInv
  <2>2. CASE UNCHANGED known
    BY <2>1, <2>2
  <2>3. ASSUME NEW p \in Order, NEW x \in DOMAIN World[p], known[p][x] = Never, World[p][x] # {},
               known' = [known EXCEPT ![p][x] = day']
        PROVE  <1>2
    BY <2>1, <2>3
  <2>4. QED
    BY <2>2, <2>3 DEF Tick
<1>3. \A p \in Order : \A x \in DOMAIN World[p] :
        known[p][x] \in Never .. day /\ (known[p][x] # Never => World[p][x] # {})
  BY DEF Inv, ShapeInv
<1>4. \A p \in Order : \A x \in DOMAIN World[p] :
        known'[p][x] \in Never .. day' /\ (known'[p][x] # Never => World[p][x] # {})
  BY <1>1, <1>2, <1>3 DEF Never
<1>5. \A p \in Order : \A x \in DOMAIN World[p] : \A at \in 0 .. day :
        known'[p][x] \in 0 .. at <=> known[p][x] \in 0 .. at
  BY <1>1, <1>2, <1>3 DEF Never
<1>6. \A c \in Order \X Keys : cache[c] = None \/ (IsRow(cache[c]) /\ IsRow(cache[c])')
  BY <1>1 DEF Inv, ShapeInv, IsRow
<1>7. ShapeInv'
  BY <1>1, <1>2, <1>4, <1>6 DEF Inv, ShapeInv
<1>8. RowsInv'
  <2>1. ASSUME NEW c \in Order \X Keys, cache[c] # None
        PROVE  RowTrue(c[1], cache[c])'
    <3> DEFINE row == cache[c]  p == c[1]
               requests == {Asked[p][row.q][i] : i \in DOMAIN Asked[p][row.q]}
    <3>1. RowTrue(p, row) /\ p \in Order /\ row.q \in Questions /\ row.at \in 0 .. day
      BY <2>1 DEF Inv, RowsInv, IsRow
    <3>2. requests \subseteq DOMAIN World[p]
      BY <3>1, RequestsKnown
    <3>3. \A x \in DOMAIN World[p] : known'[p][x] \in 0 .. row.at <=> known[p][x] \in 0 .. row.at
      BY <3>1, <1>5
    <3>4. CASE row.hit
      BY <3>1, <3>3, <3>4, <1>1 DEF RowTrue
    <3>5. CASE ~row.hit
      BY <3>1, <3>2, <3>3, <3>5, <1>1 DEF RowTrue
    <3>6. QED
      BY <3>4, <3>5
  <2>2. QED
    BY <2>1, <1>1, <1>6 DEF RowsInv
<1>9. RefusalInv'
  BY <1>1, StayKeepsBound DEF Askers, Inv
<1>10. QED
  BY <1>7, <1>8, <1>9 DEF Inv

LEMMA AbandonStep == ASSUME Inv, NEW w \in Workers, Abandon(w) PROVE Inv'
<1>1. look[w] # Idle /\ look' = [look EXCEPT ![w] = Idle] /\ UNCHANGED <<known, day, cache, refusals>>
  BY DEF Abandon
<1>2. QED
  BY <1>1, StayKeeps

LEMMA QuietStep ==
  ASSUME Inv, UNCHANGED <<known, cache, refusals, day, look>> PROVE Inv'
<1>1. ShapeInv'
  BY DEF Inv, ShapeInv, IsRow, IsLook, AskedInVain
<1>2. RowsInv'
  BY DEF Inv, RowsInv, IsRow, RowTrue
<1>3. RefusalInv'
  BY DEF Inv, RefusalInv, Askers
<1>4. QED
  BY <1>1, <1>2, <1>3 DEF Inv

LEMMA NextInv == ASSUME Inv, [Next]_vars PROVE Inv'
<1>1. ASSUME NEW w \in Workers, Step(w) PROVE Inv'
  <2>1. CASE Denied(w)
    <3>1. look[w] # Idle /\ UNCHANGED <<known, day>> /\ Refused(w)
      BY <2>1 DEF Denied, Asking
    <3>2. QED
      BY <3>1, RefusedKeeps
  <2>2. CASE Rejected(w)
    <3>1. look[w] # Idle /\ UNCHANGED <<known, day>> /\ Empty(w, "outage")
      BY <2>2 DEF Rejected, Asking
    <3>2. QED
      BY <3>1, EmptyKeeps
  <2>3. QED
    BY <1>1, <2>1, <2>2, AnswerStep, WakeStep, AbandonStep, FailsStep DEF Step
<1>2. CASE Stop
  BY <1>2, QuietStep DEF Stop
<1>3. CASE UNCHANGED vars
  BY <1>3, QuietStep DEF vars
<1>4. QED
  BY <1>1, <1>2, <1>3, StartStep, NewRunStep, TickStep DEF Next

LEMMA SpecInv == Spec => []Inv
<1>1. Inv /\ [Next]_vars => Inv'
  BY NextInv
<1>2. QED
  BY InitInv, <1>1, PTL DEF Spec

--------------------------------------------------------------------------------
(***************************************************************************)
(* Theorems.                                                               *)
(***************************************************************************)
\* However many lookups are in flight and whatever the providers answer, one that
\* only refuses is asked until GIVE_UP_AFTER refusals and by those already under
\* way, and no more (givenUp and refused in providerResults).
THEOREM RefusalsBounded == Spec => []RefusalsAreBounded
<1>1. ASSUME Inv PROVE RefusalsAreBounded
  <2>1. ASSUME NEW p \in Order
        PROVE  refusals[p] <= GiveUpAfter - 1 + Cardinality(Workers)
    <3>1. refusals[p] \in Nat /\ refusals[p] + Cardinality(Askers(p)) <= GiveUpAfter - 1 + Cardinality(Workers)
      BY <1>1 DEF Inv, ShapeInv, RefusalInv
    <3>2. QED
      BY <3>1, AskersBounded, LookupsAssumption
  <2>2. QED
    BY <2>1 DEF RefusalsAreBounded
<1>2. Inv => RefusalsAreBounded
  BY <1>1
<1>3. QED
  BY SpecInv, <1>2, PTL

\* A row of the lookups table is what its provider said on the day it bears, or the
\* trace of an outage: never a refusal.
THEOREM RowsTold == Spec => []RowsAreAnswers
<1>1. Inv => RowsAreAnswers
  BY RowsAgree DEF Inv
<1>2. QED
  BY SpecInv, <1>1, PTL

--------------------------------------------------------------------------------
(***************************************************************************)
(* What a lookup takes for the answers.  Every step says afresh what it    *)
(* used, and a row it used was fresh, or its provider refused.             *)
(***************************************************************************)
\* AnswersAreTimely of one use of a row.
Timely(u) ==
  /\ \A i \in DOMAIN Asked[u.p][u.q] :
       LET since == known[u.p][Asked[u.p][u.q][i]] IN
       (u.row.results = {} /\ since # Never /\ day > since /\ 4 * (day - since) >= CacheDays)
         => u.gaveUp \/ u.failed \/ "outage" \in u.row.ends \/ u.row.q # u.q
  /\ (u.row # None /\ day - u.row.at >= CacheDays) => u.gaveUp \/ u.failed

LEMMA TimelyUses == AnswersAreTimely <=> \A u \in used : Timely(u)
BY DEF AnswersAreTimely, NewsArrives, OldAnswersAreALastResort, Timely

LEMMA TimelyBetween == ASSUME UNCHANGED <<known, day>>, NEW u PROVE Timely(u)' <=> Timely(u)
BY DEF Timely

\* A miss is kept for a quarter of the retention, or for a day, and nothing is
\* kept for longer than the retention.
LEMMA TtlBounds ==
  /\ TtlFor(TRUE) = CacheDays /\ TtlFor(FALSE) \in Nat \ {0}
  /\ TtlFor(FALSE) <= CacheDays
  /\ TtlFor(FALSE) = 1 \/ 4 * TtlFor(FALSE) <= CacheDays
BY LookupsAssumption DEF TtlFor

\* A true row may be used while it is fresh.
LEMMA FreshIsTimely ==
  ASSUME ShapeInv, NEW p \in Order, NEW q \in Questions, NEW row, IsRow(row), RowTrue(p, row),
         Fresh(row), NEW gaveUp, NEW failed
  PROVE  Timely(Use(p, q, row, gaveUp, failed))
<1> DEFINE u == Use(p, q, row, gaveUp, failed)
<1>1. u.p = p /\ u.q = q /\ u.row = row /\ u.gaveUp = gaveUp /\ u.failed = failed
  BY DEF Use
<1>2. row.at \in 0 .. day /\ day \in Nat /\ CacheDays \in Nat
  BY LookupsAssumption DEF IsRow, ShapeInv
<1>3. day - row.at < TtlFor(row.hit)
  BY DEF Fresh
<1>4. ~(day - row.at >= CacheDays)
  <2>1. CASE row.hit
    BY <1>2, <1>3, <2>1, TtlBounds DEF TtlFor
  <2>2. CASE ~row.hit
    BY <1>2, <1>3, <2>2, TtlBounds DEF TtlFor
  <2>3. QED
    BY <2>1, <2>2
<1>5. ASSUME NEW i \in DOMAIN Asked[p][q], row.results = {}, "outage" \notin row.ends, row.q = q,
             known[p][Asked[p][q][i]] # Never, day > known[p][Asked[p][q][i]]
      PROVE  ~(4 * (day - known[p][Asked[p][q][i]]) >= CacheDays)
  <2> DEFINE x == Asked[p][q][i]
             since == known[p][x]
             ttl == TtlFor(FALSE)
  <2>1. x \in {Asked[p][row.q][j] : j \in DOMAIN Asked[p][row.q]} /\ x \in DOMAIN World[p]
    BY <1>5, RequestsKnown
  <2>2. ~row.hit
    BY <1>5 DEF IsRow
  <2>3. since \notin 0 .. row.at
    BY <1>5, <2>1, <2>2 DEF RowTrue
  <2>4. since \in 0 .. day
    <3>1. since \in Never .. day
      BY <2>1 DEF ShapeInv
    <3>2. QED
      BY <3>1, <1>2, <1>5 DEF Never
  <2>5. day - row.at < ttl
    BY <1>3, <2>2 DEF TtlFor
  <2> HIDE DEF since, ttl
  <2>6. ttl \in Nat /\ (ttl = 1 \/ 4 * ttl <= CacheDays)
    BY TtlBounds DEF ttl
  <2>7. since > row.at
    BY <2>3, <2>4, <1>2
  <2>8. day > since
    BY <1>5 DEF since
  <2>9. ttl # 1
    BY <2>4, <2>5, <2>6, <2>7, <2>8, <1>2
  <2>10. ~(4 * (day - since) >= CacheDays)
    BY <2>4, <2>5, <2>6, <2>7, <2>9, <1>2
  <2>11. QED
    BY <2>10 DEF since
<1> HIDE DEF u
<1>6. Timely(u)
  BY <1>1, <1>4, <1>5 DEF Timely
<1>7. QED
  BY <1>6 DEF u

\* A provider that refused, or was given up on, may be represented by any row.
LEMMA RefusedIsTimely ==
  ASSUME NEW p, NEW q, NEW row, NEW gaveUp, NEW failed, gaveUp \/ failed
  PROVE  Timely(Use(p, q, row, gaveUp, failed))
BY DEF Timely, Use

\* The providers a lookup passes over are fresh or given up on.
LEMMA OnwardTimely ==
  ASSUME Inv, Inv', UNCHANGED <<known, day>>, NEW w \in Workers, NEW q \in Questions,
         NEW p \in Nat, p > 0, NEW before, \A u \in before : Timely(u), Onward(w, q, p, before)
  PROVE  \A u \in used' : Timely(u)
<1>1. PICK next \in p .. Providers + 1 :
        /\ \A i \in p .. next - 1 : ~Due(i, q)
        /\ used' = before \cup {Use(i, q, cache'[<<i, Key[q]>>], HasGivenUp(i)', FALSE) : i \in p .. next - 1}
  BY DEF Onward
<1>2. ASSUME NEW i \in p .. next - 1
      PROVE  Timely(Use(i, q, cache'[<<i, Key[q]>>], HasGivenUp(i)', FALSE))
  <2> DEFINE row == cache'[<<i, Key[q]>>]
  <2>1. i \in Order /\ Key[q] \in Keys
    BY LookupsAssumption DEF Order, Keys
  <2>2. CASE HasGivenUp(i)'
    BY <2>2, RefusedIsTimely
  <2>3. CASE Fresh(row)
    <3>1. row # None
      BY <2>3 DEF Fresh
    <3>2. <<i, Key[q]>> \in Order \X Keys /\ <<i, Key[q]>>[1] = i
      BY <2>1
    <3>3. IsRow(cache[<<i, Key[q]>>])' /\ RowTrue(i, cache[<<i, Key[q]>>])'
      BY <3>1, <3>2 DEF Inv, RowsInv
    <3>4. IsRow(row) /\ RowTrue(i, row)
      BY <3>3 DEF IsRow, RowTrue
    <3>5. ShapeInv
      BY DEF Inv
    <3>6. QED
      BY <2>1, <2>3, <3>4, <3>5, FreshIsTimely
  <2>4. QED
    BY <1>1, <2>2, <2>3 DEF Due
<1>3. QED
  BY <1>1, <1>2

\* The answer of a search that returned is as fresh as can be.
LEMMA ReturnedTimely ==
  ASSUME Inv, Inv', UNCHANGED <<known, day>>, NEW w \in Workers, look[w] # Idle,
         NEW results, NEW ends, Returned(w, results, ends)
  PROVE  \A u \in used' : Timely(u)
<1> DEFINE l == look[w]  row == Fetched(l.q, results, ends)
<1>1. /\ l.p \in Order /\ l.q \in Questions /\ Key[l.q] \in Keys /\ day \in Nat
      /\ l.p + 1 \in Nat /\ l.p + 1 > 0
  BY Underway
<1>2. /\ cache' = [cache EXCEPT ![<<l.p, Key[l.q]>>] = row]
      /\ Onward(w, l.q, l.p + 1, {Use(l.p, l.q, row, FALSE, FALSE)})
  BY DEF Returned
<1>3. row.at = day /\ row # None
  BY <1>1 DEF Fetched, None, Never
<1>4. cache'[<<l.p, Key[l.q]>>] = row
  BY <1>1, <1>2 DEF Inv, ShapeInv
<1> HIDE DEF row
<1>5. IsRow(row) /\ RowTrue(l.p, row)
  <2>1. PICK c \in Order \X Keys : c = <<l.p, Key[l.q]>>
    BY <1>1
  <2>2. cache'[c] = row /\ c[1] = l.p
    BY <1>4, <2>1
  <2>3. IsRow(cache[c])' /\ RowTrue(c[1], cache[c])'
    BY <1>3, <2>2 DEF Inv, RowsInv
  <2>4. QED
    BY <2>2, <2>3 DEF IsRow, RowTrue
<1>6. Fresh(row)
  <2>1. TtlFor(row.hit) \in Nat \ {0}
    BY TtlBounds, LookupsAssumption DEF TtlFor
  <2>2. QED
    BY <1>1, <1>3, <2>1 DEF Fresh
<1>7. Timely(Use(l.p, l.q, row, FALSE, FALSE))
  BY <1>1, <1>5, <1>6, FreshIsTimely DEF Inv
<1>8. QED
  BY <1>1, <1>2, <1>7, OnwardTimely

LEMMA RefusedTimely ==
  ASSUME Inv, Inv', UNCHANGED <<known, day>>, NEW w \in Workers, look[w] # Idle, Refused(w)
  PROVE  \A u \in used' : Timely(u)
<1> DEFINE l == look[w]
<1>1. l.q \in Questions /\ l.p + 1 \in Nat /\ l.p + 1 > 0
  BY Underway
<1>2. Onward(w, l.q, l.p + 1, {Use(l.p, l.q, l.cached, FALSE, TRUE)})
  BY DEF Refused
<1>3. QED
  BY <1>1, <1>2, RefusedIsTimely, OnwardTimely

LEMMA EmptyTimely ==
  ASSUME Inv, Inv', UNCHANGED <<known, day>>, NEW w \in Workers, look[w] # Idle,
         NEW how, Empty(w, how)
  PROVE  \A u \in used' : Timely(u)
BY ReturnedTimely DEF Empty

LEMMA NextTimely == ASSUME Inv, Inv', [Next]_vars, AnswersAreTimely PROVE AnswersAreTimely'
<1>1. ASSUME UNCHANGED <<known, day>>, \A u \in used' : Timely(u) PROVE AnswersAreTimely'
  BY <1>1, TimelyBetween DEF AnswersAreTimely, NewsArrives, OldAnswersAreALastResort, Timely
<1>2. ASSUME used' = {} PROVE AnswersAreTimely'
  BY <1>2 DEF AnswersAreTimely, NewsArrives, OldAnswersAreALastResort
<1>3. ASSUME NEW w \in Workers, Step(w) PROVE AnswersAreTimely'
  <2>1. CASE Answer(w)
    <3>1. look[w] # Idle /\ UNCHANGED <<known, day>>
      BY <2>1 DEF Answer, Asking
    <3>2. \/ Empty(w, "answer")
          \/ \E results, ends : Returned(w, results, ends)
      BY <2>1 DEF Answer
    <3>3. QED
      BY <1>1, <3>1, <3>2, EmptyTimely, ReturnedTimely
  <2>2. CASE Denied(w)
    <3>1. look[w] # Idle /\ UNCHANGED <<known, day>> /\ Refused(w)
      BY <2>2 DEF Denied, Asking
    <3>2. QED
      BY <1>1, <3>1, RefusedTimely
  <2>3. ASSUME NEW limited \in BOOLEAN, Fails(w, limited) PROVE AnswersAreTimely'
    <3>1. look[w] # Idle /\ UNCHANGED <<known, day>>
      BY <2>3 DEF Fails, Asking
    <3>2. Refused(w) \/ Empty(w, "outage") \/ used' = {}
      BY <2>3 DEF Fails, Exhausted
    <3>3. QED
      BY <1>1, <1>2, <3>1, <3>2, EmptyTimely, RefusedTimely
  <2>4. CASE Wake(w) \/ Abandon(w)
    BY <1>2, <2>4 DEF Wake, Abandon
  <2>5. CASE Rejected(w)
    <3>1. look[w] # Idle /\ UNCHANGED <<known, day>> /\ Empty(w, "outage")
      BY <2>5 DEF Rejected, Asking
    <3>2. QED
      BY <1>1, <3>1, EmptyTimely
  <2>6. QED
    BY <1>3, <2>1, <2>2, <2>3, <2>4, <2>5 DEF Step
<1>4. ASSUME NEW w \in Workers, NEW q \in Questions, Start(w, q) PROVE AnswersAreTimely'
  <2>1. UNCHANGED <<known, day>> /\ Onward(w, q, 1, {})
    BY <1>4 DEF Start
  <2>2. \A u \in used' : Timely(u)
    BY <2>1, OnwardTimely
  <2>3. QED
    BY <1>1, <2>1, <2>2
<1>5. CASE Stop \/ Tick \/ \E prunes \in BOOLEAN : NewRun(prunes)
  BY <1>2, <1>5 DEF Stop, Tick, NewRun
<1>6. CASE UNCHANGED vars
  BY <1>6 DEF vars, AnswersAreTimely, NewsArrives, OldAnswersAreALastResort
<1>7. QED
  BY <1>3, <1>4, <1>5, <1>6 DEF Next

\* An answer is used for as long as it deserves and no longer, whatever providers
\* learn and refuse, runs are stopped and rows are pruned: a hit for the retention,
\* a miss for a quarter of it, and more only in place of a provider that refuses
\* (ttlFor and providerResults, core/lookup.ts).
THEOREM AnswersTimely == Spec => []AnswersAreTimely
<1>1. Init => AnswersAreTimely
  BY DEF Init, AnswersAreTimely, NewsArrives, OldAnswersAreALastResort
<1>2. Inv /\ Inv' /\ AnswersAreTimely /\ [Next]_vars => AnswersAreTimely'
  BY NextTimely
<1>3. QED
  BY SpecInv, <1>1, <1>2, PTL DEF Spec

--------------------------------------------------------------------------------
(***************************************************************************)
(* Normalize: orders, lists and votes.                                     *)
(***************************************************************************)
\* Of two members of S exactly one comes before the other.
Orders(R, S) ==
  /\ \A x \in S : <<x, x>> \notin R
  /\ \A x, y \in S : x # y => <<x, y>> \in R \/ <<y, x>> \in R
  /\ \A x, y, z \in S : <<x, y>> \in R /\ <<y, z>> \in R => <<x, z>> \in R

\* What comes before x.
Below(R, S, x) == {y \in S : <<y, x>> \in R}

\* In a finite set every place is taken.
LEMMA Ranks ==
  ASSUME NEW S, IsFiniteSet(S), NEW R, Orders(R, S)
  PROVE  /\ Cardinality(S) \in Nat
         /\ \A k \in 1 .. Cardinality(S) : \E x \in S : Cardinality(Below(R, S, x)) = k - 1
         /\ \A x \in S : Cardinality(Below(R, S, x)) \in 0 .. Cardinality(S) - 1
         /\ \A x, y \in S : Cardinality(Below(R, S, x)) = Cardinality(Below(R, S, y)) => x = y
<1> DEFINE n == Cardinality(S)
           T == 0 .. n - 1
           rank == [x \in S |-> Cardinality(Below(R, S, x))]
<1>1. n \in Nat
  BY FS_CardinalityType
<1>2. ASSUME NEW x \in S
      PROVE  IsFiniteSet(Below(R, S, x)) /\ Cardinality(Below(R, S, x)) \in T
  <2>1. Below(R, S, x) \subseteq S \ {x}
    BY DEF Below, Orders
  <2>2. IsFiniteSet(S \ {x}) /\ Cardinality(S \ {x}) = n - 1
    BY FS_RemoveElement
  <2>3. IsFiniteSet(Below(R, S, x)) /\ Cardinality(Below(R, S, x)) <= n - 1
    BY <2>1, <2>2, FS_Subset
  <2>4. QED
    BY <1>1, <2>3, FS_CardinalityType
<1>3. ASSUME NEW x \in S, NEW y \in S, <<x, y>> \in R
      PROVE  Cardinality(Below(R, S, x)) < Cardinality(Below(R, S, y))
  <2>1. Below(R, S, x) \subseteq Below(R, S, y) /\ x \in Below(R, S, y) /\ x \notin Below(R, S, x)
    BY <1>3 DEF Below, Orders
  <2>2. IsFiniteSet(Below(R, S, x)) /\ IsFiniteSet(Below(R, S, y))
    BY <1>2
  <2>3. /\ Cardinality(Below(R, S, x)) \in Nat /\ Cardinality(Below(R, S, y)) \in Nat
        /\ Cardinality(Below(R, S, x)) <= Cardinality(Below(R, S, y))
        /\ Cardinality(Below(R, S, x)) # Cardinality(Below(R, S, y))
    BY <2>1, <2>2, FS_Subset, FS_CardinalityType
  <2>4. QED
    BY <2>3
<1>4. rank \in [S -> T]
  BY <1>2
<1>5. \A x, y \in S : rank[x] = rank[y] => x = y
  <2>1. SUFFICES ASSUME NEW x \in S, NEW y \in S, x # y PROVE rank[x] # rank[y]
    OBVIOUS
  <2>2. CASE <<x, y>> \in R
    <3>1. Cardinality(Below(R, S, x)) < Cardinality(Below(R, S, y))
      BY <1>3, <2>2
    <3>2. Cardinality(Below(R, S, x)) \in T /\ Cardinality(Below(R, S, y)) \in T
      BY <1>2
    <3>3. QED
      BY <1>1, <3>1, <3>2
  <2>3. CASE <<y, x>> \in R
    <3>1. Cardinality(Below(R, S, y)) < Cardinality(Below(R, S, x))
      BY <1>3, <2>3
    <3>2. Cardinality(Below(R, S, x)) \in T /\ Cardinality(Below(R, S, y)) \in T
      BY <1>2
    <3>3. QED
      BY <1>1, <3>1, <3>2
  <2>4. QED
    BY <2>1, <2>2, <2>3 DEF Orders
<1>6. IsFiniteSet(T) /\ Cardinality(T) = n
  BY <1>1, FS_Interval
<1>7. rank \in Surjection(S, T)
  <2> HIDE DEF rank, T
  <2>1. rank \in Injection(S, T)
    BY <1>4, <1>5 DEF Injection, IsInjective
  <2>2. QED
    BY <1>6, <2>1, FS_Injection
<1>8. ASSUME NEW k \in 1 .. n PROVE \E x \in S : Cardinality(Below(R, S, x)) = k - 1
  <2>1. k - 1 \in T
    BY <1>1
  <2>2. \E x \in S : rank[x] = k - 1
    BY <1>7, <2>1 DEF Surjection
  <2>3. QED
    BY <2>2
<1>9. QED
  BY <1>1, <1>2, <1>5, <1>8

\* A finite set that is not empty has a first member.
LEMMA First ==
  ASSUME NEW S, IsFiniteSet(S), S # {}, NEW R, Orders(R, S)
  PROVE  \E x \in S : \A y \in S \ {x} : <<x, y>> \in R
<1>1. Cardinality(S) \in Nat /\ Cardinality(S) # 0
  BY FS_CardinalityType, FS_EmptySet
<1>2. PICK x \in S : Cardinality(Below(R, S, x)) = 0
  <2>1. 1 \in 1 .. Cardinality(S)
    BY <1>1
  <2>2. \E x \in S : Cardinality(Below(R, S, x)) = 1 - 1
    BY <2>1, Ranks
  <2>3. QED
    BY <2>2
<1>3. Below(R, S, x) = {}
  <2>1. IsFiniteSet(Below(R, S, x))
    BY FS_Subset DEF Below
  <2>2. QED
    BY <1>2, <2>1, FS_EmptySet
<1>4. QED
  BY <1>3 DEF Below, Orders
\* A list kept in part has what is kept of it.
LEMMA KeptIs ==
  ASSUME NEW T, NEW list \in Seq(T), NEW I \in SUBSET DOMAIN list
  PROVE  /\ Kept(list, I) \in Seq(T)
         /\ Named(Kept(list, I)) = {Person[list[i]] : i \in I}
         /\ Kept(list, I) = <<>> => I = {}
<1> DEFINE R == {p \in I \X I : p[1] < p[2]}
           at(k) == CHOOSE i \in I : Cardinality({j \in I : j < i}) = k - 1
           n == Cardinality(I)
<1>1. I \subseteq Nat /\ IsFiniteSet(I) /\ \A i \in I : list[i] \in T
  <2>1. IsFiniteSet(1 .. Len(list)) /\ DOMAIN list = 1 .. Len(list)
    BY FS_Interval
  <2>2. QED
    BY <2>1, FS_Subset
<1>2. Orders(R, I)
  BY <1>1 DEF Orders
<1>3. \A i \in I : Below(R, I, i) = {j \in I : j < i}
  BY DEF Below
<1> HIDE DEF R
<1>4. /\ n \in Nat
      /\ \A k \in 1 .. n : \E i \in I : Cardinality({j \in I : j < i}) = k - 1
      /\ \A i \in I : Cardinality({j \in I : j < i}) \in 0 .. n - 1
      /\ \A i, l \in I : Cardinality({j \in I : j < i}) = Cardinality({j \in I : j < l}) => i = l
  <2>1. /\ n \in Nat
        /\ \A k \in 1 .. n : \E i \in I : Cardinality(Below(R, I, i)) = k - 1
        /\ \A i \in I : Cardinality(Below(R, I, i)) \in 0 .. n - 1
        /\ \A i, l \in I : Cardinality(Below(R, I, i)) = Cardinality(Below(R, I, l)) => i = l
    BY <1>1, <1>2, Ranks
  <2>2. QED
    BY <1>3, <2>1, Zenon
<1>5. \A k \in 1 .. n : at(k) \in I
  BY <1>4
<1>6. \A i \in I : \E k \in 1 .. n : at(k) = i
  <2>1. SUFFICES ASSUME NEW i \in I PROVE \E k \in 1 .. n : at(k) = i
    OBVIOUS
  <2> DEFINE k == Cardinality({j \in I : j < i}) + 1
  <2>2. k \in 1 .. n /\ Cardinality({j \in I : j < i}) = k - 1
    BY <1>4
  <2> HIDE DEF k
  <2>3. at(k) \in I /\ Cardinality({j \in I : j < at(k)}) = k - 1
    BY <2>2
  <2>4. at(k) = i
    BY <1>4, <2>2, <2>3
  <2>5. QED
    BY <2>2, <2>4
<1>7. Kept(list, I) = [k \in 1 .. n |-> list[at(k)]]
  BY DEF Kept, Picked
<1> HIDE DEF at
<1>8. Kept(list, I) \in Seq(T)
  BY <1>1, <1>4, <1>5, <1>7
<1>9. Named(Kept(list, I)) = {Person[list[i]] : i \in I}
  BY <1>5, <1>6, <1>7 DEF Named
<1>10. Kept(list, I) = <<>> => I = {}
  BY <1>6, <1>7, <1>4
<1>11. QED
  BY <1>8, <1>9, <1>10

\* The candidates a rewrite may use are candidates that reach the bar.
LEMMA RewritableIs ==
  ASSUME NEW T, NEW book, NEW cs \in Seq(T), \A i \in DOMAIN cs : Score(book, cs[i]) \in Int
  PROVE  /\ Rewritable(book, cs) \in Seq(T)
         /\ \A k \in DOMAIN Rewritable(book, cs) :
              \E i \in DOMAIN cs : Score(book, cs[i]) >= MatchMinRewrite
<1> DEFINE I == {i \in DOMAIN cs : Score(book, cs[i]) >= MatchMinRewrite}
           score(i) == Score(book, cs[i])
           R == {p \in I \X I : score(p[1]) > score(p[2]) \/ (score(p[1]) = score(p[2]) /\ p[1] < p[2])}
           at(k) == CHOOSE i \in I : Cardinality({j \in I : score(j) > score(i)
                                                             \/ (score(j) = score(i) /\ j < i)}) = k - 1
           n == Cardinality(I)
<1>1. I \subseteq Nat /\ IsFiniteSet(I) /\ \A i \in I : cs[i] \in T /\ score(i) \in Int
  <2>1. IsFiniteSet(1 .. Len(cs)) /\ DOMAIN cs = 1 .. Len(cs)
    BY FS_Interval
  <2>2. QED
    BY <2>1, FS_Subset
<1>2. Rewritable(book, cs) = [k \in 1 .. n |-> cs[at(k)]]
  BY DEF Rewritable, Picked
<1>3. \A i \in I : i \in DOMAIN cs /\ Score(book, cs[i]) >= MatchMinRewrite
  OBVIOUS
<1> HIDE DEF I
<1>4. Orders(R, I)
  <2> HIDE DEF score
  <2>1. QED
    BY <1>1 DEF Orders
<1>5. \A i \in I : Below(R, I, i) = {j \in I : score(j) > score(i) \/ (score(j) = score(i) /\ j < i)}
  <2> HIDE DEF score
  <2>1. QED
    BY DEF Below
<1>6. \A k \in 1 .. n : at(k) \in I
  <2> HIDE DEF R, score
  <2>1. \A k \in 1 .. n : \E i \in I : Cardinality(Below(R, I, i)) = k - 1
    <3>1. IsFiniteSet(I)
      BY <1>1
    <3>2. QED
      BY <3>1, <1>4, Ranks
  <2>2. \A k \in 1 .. n : \E i \in I :
          Cardinality({j \in I : score(j) > score(i) \/ (score(j) = score(i) /\ j < i)}) = k - 1
    BY <1>5, <2>1, Zenon
  <2>3. QED
    BY <2>2, Zenon
<1>7. n \in Nat
  BY <1>1, FS_CardinalityType
<1> HIDE DEF at, R
<1>8. Rewritable(book, cs) \in Seq(T)
  <2>1. \A k \in 1 .. n : cs[at(k)] \in T
    BY <1>1, <1>6
  <2> HIDE DEF n
  <2>2. QED
    BY <1>2, <1>7, <2>1
<1>9. \A k \in 1 .. n : \E i \in DOMAIN cs : Score(book, cs[i]) >= MatchMinRewrite
  BY <1>3, <1>6
<1>10. QED
  BY <1>2, <1>8, <1>9

\* A title alone never reaches the bar.
LEMMA ScoreIs ==
  ASSUME NEW book, NEW c \in Candidates
  PROVE  Score(book, c) \in Int /\ (c.by = "title" => Score(book, c) < MatchMinRewrite)
<1> DEFINE a == Agreement(book.authors, c.authors)
           s == (55 * c.similar + 45 * a) \div 100
<1>1. a \in {0, 40, 100} /\ c.similar \in 0 .. 100 /\ c.by \in {"asin", "isbn", "title"}
  BY DEF Agreement, Candidates
<1>2. s \in Int
  <2> HIDE DEF a
  <2>1. QED
    BY <1>1
<1>3. Min({FuzzyCeiling, s}) \in Int /\ Min({FuzzyCeiling, s}) <= 85
  <2> HIDE DEF s
  <2>1. CASE s <= 85
    BY <1>2, <2>1 DEF Min, FuzzyCeiling
  <2>2. CASE s > 85
    BY <1>2, <2>2 DEF Min, FuzzyCeiling
  <2>3. QED
    BY <1>2, <2>1, <2>2
<1>4. Score(book, c) = CASE c.by = "asin" -> 100 [] c.by = "isbn" -> 97
                         [] c.by = "title" /\ (c.similar < TitleFloor \/ a = 0) -> 0
                         [] OTHER -> Min({FuzzyCeiling, s})
  BY DEF Score
<1> HIDE DEF a, s
<1>5. CASE c.by = "asin"
  BY <1>4, <1>5
<1>6. CASE c.by = "isbn"
  BY <1>4, <1>6
<1>7. CASE c.by = "title" /\ (c.similar < TitleFloor \/ a = 0)
  BY <1>4, <1>7 DEF MatchMinRewrite
<1>8. CASE c.by = "title" /\ ~(c.similar < TitleFloor \/ a = 0)
  BY <1>3, <1>4, <1>8 DEF MatchMinRewrite
<1>9. QED
  BY <1>1, <1>5, <1>6, <1>7, <1>8

\* Only what identifies a book may rewrite it.
LEMMA CandidatesKept ==
  ASSUME NEW T \in SUBSET Candidates, NEW book, NEW cs \in Seq(T)
  PROVE  /\ Rewritable(book, cs) \in Seq(T)
         /\ (\A i \in DOMAIN cs : cs[i].by = "title") => Rewritable(book, cs) = <<>>
<1>1. \A i \in DOMAIN cs : cs[i] \in Candidates
  OBVIOUS
<1>2. \A i \in DOMAIN cs : Score(book, cs[i]) \in Int
  BY <1>1, ScoreIs
<1>3. /\ Rewritable(book, cs) \in Seq(T)
      /\ \A k \in DOMAIN Rewritable(book, cs) :
           \E i \in DOMAIN cs : Score(book, cs[i]) >= MatchMinRewrite
  BY <1>2, RewritableIs
<1>4. ASSUME \A i \in DOMAIN cs : cs[i].by = "title" PROVE DOMAIN Rewritable(book, cs) = {}
  <2>1. \A i \in DOMAIN cs : ~ (Score(book, cs[i]) >= MatchMinRewrite)
    <3>1. SUFFICES ASSUME NEW i \in DOMAIN cs PROVE ~ (Score(book, cs[i]) >= MatchMinRewrite)
      OBVIOUS
    <3>2. Score(book, cs[i]) \in Int /\ Score(book, cs[i]) < MatchMinRewrite
      BY <1>1, <1>4, ScoreIs
    <3>3. QED
      BY <3>2 DEF MatchMinRewrite
  <2>2. QED
    BY <1>3, <2>1
<1>5. QED
  BY <1>3, <1>4

\* The mentions of a field are finitely many spellings.
IsMentions(names) == IsFiniteSet(DOMAIN names) /\ \A i \in DOMAIN names : names[i] \in Names

LEMMA MentionsIs ==
  ASSUME NEW lib, NEW f, \A b \in Books : lib[b][f] \in Seq(Names)
  PROVE  /\ IsMentions(Mentions(lib, f, Books))
         /\ IsMentions(Respelled(Mentions(lib, f, Books), Tidy))
<1> DEFINE P(b) == {b} \X DOMAIN lib[b][f]
           D == UNION {P(b) : b \in Books}
<1>1. ASSUME NEW b \in Books PROVE IsFiniteSet(P(b))
  <2>1. DOMAIN lib[b][f] = 1 .. Len(lib[b][f]) /\ Len(lib[b][f]) \in Int
    OBVIOUS
  <2>2. IsFiniteSet(1 .. Len(lib[b][f]))
    BY <2>1, FS_Interval
  <2>3. QED
    BY <2>1, <2>2, FS_Singleton, FS_Product
<1>2. IsFiniteSet(D)
  <2> DEFINE F == [b \in Books |-> P(b)]
             I == {P(b) : b \in Books}
  <2>1. F \in Surjection(Books, I)
    BY DEF Surjection
  <2>2. IsFiniteSet(I)
    BY <2>1, FS_Surjection, NormalizeAssumption
  <2>3. QED
    BY <1>1, <2>2, FS_UNION
<1>3. \A p \in D : lib[p[1]][f][p[2]] \in Names
  OBVIOUS
<1>4. Mentions(lib, f, Books) = [p \in D |-> lib[p[1]][f][p[2]]]
  BY DEF Mentions
<1> HIDE DEF D
<1>5. QED
  BY <1>2, <1>3, <1>4, NormalizeAssumption DEF IsMentions, Respelled

\* Another spelling names the same.
Respells(to) == \A n \in Names : to[n] \in Names /\ Person[to[n]] = Person[n]

LEMMA SpellingIs ==
  ASSUME NEW names, IsMentions(names) PROVE Respells(Spelling(names))
<1>1. Range(names) \subseteq Names /\ IsFiniteSet(Range(names))
  <2> DEFINE F == [i \in DOMAIN names |-> names[i]]
  <2>1. F \in Surjection(DOMAIN names, Range(names))
    BY DEF Surjection, Range
  <2>2. QED
    BY <2>1, FS_Surjection DEF IsMentions, Range
<1>2. SUFFICES ASSUME NEW n \in Names, Cardinality({m \in Range(names) : Person[m] = Person[n]}) >= 2
               PROVE  Winner(names, Person[n]) \in {m \in Range(names) : Person[m] = Person[n]}
  <2>1. ASSUME NEW n \in Names
        PROVE  \/ Cardinality({m \in Range(names) : Person[m] = Person[n]}) < 2
               \/ Cardinality({m \in Range(names) : Person[m] = Person[n]}) >= 2
    <3>1. IsFiniteSet({m \in Range(names) : Person[m] = Person[n]})
      BY <1>1, FS_Subset
    <3>2. QED
      BY <3>1, FS_CardinalityType
  <2>2. QED
    BY <1>1, <1>2, <2>1 DEF Respells, Spelling
<1> DEFINE S == {m \in Range(names) : Person[m] = Person[n]}
           R == {p \in S \X S : \/ Times(names, p[1]) > Times(names, p[2])
                                \/ Times(names, p[1]) = Times(names, p[2]) /\ Longer[p[1]] < Longer[p[2]]}
<1>3. IsFiniteSet(S) /\ S # {} /\ S \subseteq Names
  BY <1>1, <1>2, FS_Subset, FS_EmptySet
<1>4. ASSUME NEW m \in S PROVE Times(names, m) \in Nat /\ Longer[m] \in Nat
  <2>1. IsFiniteSet({i \in DOMAIN names : names[i] = m})
    BY FS_Subset DEF IsMentions
  <2>2. Times(names, m) \in Nat
    BY <2>1, FS_CardinalityType DEF Times
  <2>3. QED
    BY <1>3, <2>2, NormalizeAssumption
<1>5. \A l, m \in S : Longer[l] = Longer[m] => l = m
  BY <1>3, NormalizeAssumption DEF IsInjective
<1>6. Winner(names, Person[n]) =
        CHOOSE l \in S : \A m \in S \ {l} : \/ Times(names, l) > Times(names, m)
                                            \/ Times(names, l) = Times(names, m) /\ Longer[l] < Longer[m]
  BY DEF Winner, Most
<1> HIDE DEF S
<1>7. Orders(R, S)
  BY <1>4, <1>5 DEF Orders
<1>8. \E l \in S : \A m \in S \ {l} : <<l, m>> \in R
  <2> HIDE DEF R
  <2>1. QED
    BY <1>3, <1>7, First
<1>9. Winner(names, Person[n]) \in S
  <2>1. PICK l \in S : \A m \in S \ {l} : <<l, m>> \in R
    BY <1>8
  <2>2. \A m \in S \ {l} : \/ Times(names, l) > Times(names, m)
                           \/ Times(names, l) = Times(names, m) /\ Longer[l] < Longer[m]
    BY <2>1
  <2>3. QED
    BY <1>6, <2>2
<1>10. QED
  BY <1>9 DEF S

LEMMA Least ==
  ASSUME NEW S \in SUBSET Nat, IsFiniteSet(S), S # {} PROVE Min(S) \in S
<1> DEFINE R == {p \in S \X S : p[1] < p[2]}
<1>1. Orders(R, S)
  BY DEF Orders
<1>2. IsFiniteSet(S) /\ S # {}
  OBVIOUS
<1> HIDE DEF R
<1>3. \E x \in S : \A y \in S \ {x} : <<x, y>> \in R
  <2>1. \A Q : Orders(Q, S) => \E x \in S : \A y \in S \ {x} : <<x, y>> \in Q
    BY <1>2, First
  <2>2. QED
    BY <2>1, <1>1
<1>4. PICK x \in S : \A y \in S \ {x} : <<x, y>> \in R
  BY <1>3
<1>5. \A y \in S : x <= y
  <2>1. \A y \in S \ {x} : x < y
    BY <1>4 DEF R
  <2>2. QED
    BY <2>1
<1>6. QED
  BY <1>5 DEF Min

\* The voters are sources that list somebody, all the same, and the vote is one of theirs.
LEMMA VotersAre ==
  ASSUME NEW cs \in Seq(Candidates), NEW f \in {"authors", "narrators", "series"}, Voters(cs, f) # {}
  PROVE  /\ Voters(cs, f) \subseteq DOMAIN cs
         /\ Voted(cs, f) \in Seq(Names) /\ Voted(cs, f) # <<>>
         /\ \E i \in DOMAIN cs : Voted(cs, f) = cs[i][f]
         /\ \A i \in Voters(cs, f) : cs[i][f] # <<>> /\ Named(cs[i][f]) = Named(Voted(cs, f))
<1> DEFINE says == {i \in DOMAIN cs : cs[i][f] # <<>>}
           group(i) == {j \in says : Respelled(cs[j][f], Person) = Respelled(cs[i][f], Person)}
           R == {p \in says \X says : \/ Cardinality(group(p[1])) > Cardinality(group(p[2]))
                                      \/ Cardinality(group(p[1])) = Cardinality(group(p[2])) /\ p[1] < p[2]}
           v == CHOOSE i \in says : \A j \in says \ {i} :
                  \/ Cardinality(group(i)) > Cardinality(group(j))
                  \/ Cardinality(group(i)) = Cardinality(group(j)) /\ i < j
<1>1. Voters(cs, f) = IF says = {} THEN {} ELSE group(v)
  BY DEF Voters, Most
<1>2. says # {}
  BY <1>1
<1>3. IsFiniteSet(says) /\ says \subseteq Nat /\ says \subseteq DOMAIN cs
  <2>1. IsFiniteSet(1 .. Len(cs)) /\ DOMAIN cs = 1 .. Len(cs)
    BY FS_Interval
  <2>2. QED
    BY <2>1, FS_Subset
<1>4. \A i \in says : cs[i][f] \in Seq(Names) /\ cs[i][f] # <<>>
  <2>1. \A i \in DOMAIN cs : cs[i] \in Candidates
    OBVIOUS
  <2>2. \A c \in Candidates : c[f] \in Seq(Names)
    BY DEF Candidates
  <2>3. QED
    BY <2>1, <2>2
<1>5. \A i \in says : group(i) \subseteq says /\ Cardinality(group(i)) \in Nat
  <2>1. \A i \in says : group(i) \subseteq says
    OBVIOUS
  <2>2. \A i \in says : IsFiniteSet(group(i))
    BY <1>3, <2>1, FS_Subset
  <2>3. QED
    BY <2>1, <2>2, FS_CardinalityType
<1>6. \A i \in says : \A j \in group(i) : Respelled(cs[j][f], Person) = Respelled(cs[i][f], Person)
  OBVIOUS
<1> HIDE DEF says, group
<1>7. Orders(R, says)
  BY <1>3, <1>5 DEF Orders
<1>8. v \in says
  <2>1. \E i \in says : \A j \in says \ {i} : <<i, j>> \in R
    <3> HIDE DEF R
    <3>1. IsFiniteSet(says)
      BY <1>3
    <3>2. QED
      BY <1>2, <1>7, <3>1, First
  <2>2. PICK i \in says : \A j \in says \ {i} : <<i, j>> \in R
    BY <2>1
  <2>3. \A j \in says \ {i} : \/ Cardinality(group(i)) > Cardinality(group(j))
                              \/ Cardinality(group(i)) = Cardinality(group(j)) /\ i < j
    BY <2>2
  <2>4. QED
    BY <2>3
<1> HIDE DEF v, R
<1>9. \A i \in Voters(cs, f) : i \in says /\ Respelled(cs[i][f], Person) = Respelled(cs[v][f], Person)
  BY <1>1, <1>2, <1>5, <1>6, <1>8
<1> DEFINE m == Min(Voters(cs, f))
<1>10. m \in Voters(cs, f)
  <2>1. IsFiniteSet(Voters(cs, f)) /\ Voters(cs, f) \subseteq Nat
    BY <1>3, <1>9, FS_Subset
  <2>2. QED
    BY <2>1, Least
<1>11. Voted(cs, f) = cs[m][f]
  BY DEF Voted
<1>12. \A i \in says : Named(cs[i][f]) = {Respelled(cs[i][f], Person)[k] : k \in DOMAIN Respelled(cs[i][f], Person)}
  BY DEF Named, Respelled
<1>13. \A i \in Voters(cs, f) : cs[i][f] # <<>> /\ Named(cs[i][f]) = Named(cs[m][f])
  BY <1>4, <1>9, <1>10, <1>12
<1>14. QED
  BY <1>3, <1>4, <1>9, <1>10, <1>11, <1>13

--------------------------------------------------------------------------------
(***************************************************************************)
(* Normalize: who is credited after a night.                               *)
(***************************************************************************)
\* The sources behind an answer, or against somebody's credit.
ForIn(cs, key) == Voices(cs, {i \in DOMAIN cs : key \in Named(cs[i].authors)})
AgainstIn(cs, key) == Voices(cs, {i \in DOMAIN cs : cs[i].authors # <<>> /\ key \notin Named(cs[i].authors)})

\* More sources are no fewer voices.
LEMMA MoreVoices ==
  ASSUME NEW cs \in Seq(Candidates), NEW J \in SUBSET DOMAIN cs, NEW V, V \subseteq Voices(cs, J)
  PROVE  /\ Cardinality(Voices(cs, J)) \in Nat /\ Cardinality(V) \in Nat
         /\ Cardinality(V) <= Cardinality(Voices(cs, J))
<1>1. IsFiniteSet(J)
  <2>1. IsFiniteSet(1 .. Len(cs)) /\ DOMAIN cs = 1 .. Len(cs)
    BY FS_Interval
  <2>2. QED
    BY <2>1, FS_Subset
<1>2. IsFiniteSet(Voices(cs, J))
  <2> DEFINE F == [i \in J |-> Voice(cs[i].provider)]
  <2>1. F \in Surjection(J, Voices(cs, J))
    BY DEF Surjection, Voices
  <2>2. QED
    BY <1>1, <2>1, FS_Surjection
<1>3. QED
  BY <1>2, FS_Subset, FS_CardinalityType

\* A list in other spellings names the same.
LEMMA RespelledIs ==
  ASSUME NEW names \in Seq(Names), NEW to, Respells(to)
  PROVE  /\ Respelled(names, to) \in Seq(Names) /\ Named(Respelled(names, to)) = Named(names)
         /\ Respelled(names, to) = <<>> => names = <<>>
<1>1. DOMAIN Respelled(names, to) = 1 .. Len(names) /\ DOMAIN names = 1 .. Len(names) /\ Len(names) \in Nat
  BY DEF Respelled
<1>2. \A i \in 1 .. Len(names) :
        /\ Respelled(names, to)[i] \in Names
        /\ Person[Respelled(names, to)[i]] = Person[names[i]]
  BY DEF Respelled, Respells
<1>3. Respelled(names, to) \in Seq(Names)
  BY <1>1, <1>2 DEF Respelled
<1>4. Named(Respelled(names, to)) = Named(names)
  BY <1>1, <1>2 DEF Named
<1>5. Respelled(names, to) = <<>> => names = <<>>
  <2>1. SUFFICES ASSUME names # <<>>, DOMAIN Respelled(names, to) = {} PROVE FALSE
    OBVIOUS
  <2>2. Len(names) # 0
    BY <2>1
  <2>3. 1 \in 1 .. Len(names)
    BY <1>1, <2>2
  <2>4. QED
    BY <1>1, <2>1, <2>3
<1>6. QED
  BY <1>3, <1>4, <1>5

\* Of an author list only its narrators by trade are dropped, and not all of it.
LEMMA WithoutNarratorsIs ==
  ASSUME NEW book, book.authors \in Seq(Names), NEW byTrade
  PROVE  LET w == WithoutNarrators(book, byTrade) IN
         /\ w \in Seq(Names) /\ Named(w) \subseteq Named(book.authors)
         /\ book.authors # <<>> => w # <<>>
         /\ \A key \in Named(book.authors) \ Named(w) : key \in Named(book.narrators) \cap byTrade
<1> DEFINE drop == Named(book.narrators) \cap byTrade
           I == {i \in DOMAIN book.authors : Person[book.authors[i]] \notin drop}
           written == Kept(book.authors, I)
           w == WithoutNarrators(book, byTrade)
<1>1. w = book.authors \/ (w = written /\ written # <<>>)
  BY DEF WithoutNarrators
<1>2. written \in Seq(Names) /\ Named(written) = {Person[book.authors[i]] : i \in I}
  BY KeptIs
<1> HIDE DEF w, written
<1>3. Named(book.authors) = {Person[book.authors[i]] : i \in DOMAIN book.authors}
  BY DEF Named
<1>4. Named(written) \subseteq Named(book.authors) /\ \A key \in Named(book.authors) \ Named(written) : key \in drop
  BY <1>2, <1>3
<1> HIDE DEF drop, I
<1>5. CASE w = book.authors
  BY <1>5 DEF w, drop
<1>6. CASE w = written /\ written # <<>>
  BY <1>2, <1>4, <1>6 DEF w, drop
<1>7. QED
  BY <1>1, <1>5, <1>6

\* Whether a list credits nobody twice.
Single(names) == \A i, j \in DOMAIN names : Person[names[i]] = Person[names[j]] => i = j

\* A list that is no shorter, credits nobody twice and nobody new leaves nobody out.
LEMMA NobodyLeftOut ==
  ASSUME NEW old \in Seq(Names), NEW new \in Seq(Names), Single(new),
         Len(new) >= Len(old), Named(new) \subseteq Named(old)
  PROVE  Named(old) \subseteq Named(new)
<1>1. SUFFICES ASSUME NEW key \in Named(old), key \notin Named(new) PROVE FALSE
  OBVIOUS
<1>2. DOMAIN old = 1 .. Len(old) /\ DOMAIN new = 1 .. Len(new) /\ Len(old) \in Nat /\ Len(new) \in Nat
  OBVIOUS
<1>3. PICK l \in DOMAIN old : Person[old[l]] = key
  BY <1>1 DEF Named
<1> DEFINE T == (1 .. Len(old)) \ {l}
           S == 1 .. Len(new)
           f == [j \in S |-> CHOOSE i \in DOMAIN old : Person[old[i]] = Person[new[j]]]
<1>4. ASSUME NEW j \in S PROVE f[j] \in T /\ Person[old[f[j]]] = Person[new[j]]
  <2>1. Person[new[j]] \in Named(new)
    BY <1>2 DEF Named
  <2>2. \E i \in DOMAIN old : Person[old[i]] = Person[new[j]]
    BY <2>1 DEF Named
  <2>3. f[j] \in DOMAIN old /\ Person[old[f[j]]] = Person[new[j]]
    BY <2>2
  <2>4. f[j] # l
    BY <1>1, <1>3, <2>1, <2>3
  <2>5. QED
    BY <1>2, <2>3, <2>4
<1>5. IsFiniteSet(S) /\ Cardinality(S) = Len(new) /\ IsFiniteSet(T) /\ Cardinality(T) = Len(old) - 1
  <2>1. ASSUME NEW n \in Nat PROVE IsFiniteSet(1 .. n) /\ Cardinality(1 .. n) = n
    <3>1. IsFiniteSet(1 .. n) /\ Cardinality(1 .. n) = IF 1 > n THEN 0 ELSE n - 1 + 1
      <4>1. 1 \in Int /\ n \in Int
        OBVIOUS
      <4>2. QED
        BY <4>1, FS_Interval
    <3>2. QED
      BY <3>1
  <2>2. /\ IsFiniteSet(1 .. Len(new)) /\ Cardinality(1 .. Len(new)) = Len(new)
        /\ IsFiniteSet(1 .. Len(old)) /\ Cardinality(1 .. Len(old)) = Len(old)
    BY <1>2, <2>1
  <2>3. l \in 1 .. Len(old)
    BY <1>2, <1>3
  <2>4. IsFiniteSet(T) /\ Cardinality(T) = Len(old) - 1
    BY <2>2, <2>3, FS_RemoveElement
  <2>5. QED
    BY <2>2, <2>4
<1>6. f \in [S -> T]
  BY <1>4
<1> HIDE DEF f, S, T
<1>7. PICK i, j \in S : i # j /\ f[i] = f[j]
  <2>1. Cardinality(T) < Cardinality(S)
    BY <1>2, <1>5
  <2>2. QED
    BY <1>5, <1>6, <2>1, FS_PigeonHole
<1>8. QED
  BY <1>2, <1>4, <1>7 DEF Single, S

\* The list the tiers settle on, before anybody is taken away.
Settled(book, con, cs) ==
  LET voted == Voted(cs, "authors")
      added == IF /\ Len(voted) >= Len(book.authors)
                  /\ MayAddPeople(book.authors, voted, cs, Voters(cs, "authors")) THEN voted ELSE <<>>
  IN Tiers(TRUE, book.authors, Respelled(WithoutNarrators(book, con.byTrade), Tidy),
           Respelled(book.authors, con.authors), added)

\* Whoever is not in it though he was, or is though he was not: the sources say so
\* with two voices, or he narrates.
LEMMA SettledIs ==
  ASSUME Respells(Tidy),
         NEW book, book.authors \in Seq(Names), NEW con, Respells(con.authors),
         NEW cs \in Seq(Candidates)
  PROVE  LET base == Settled(book, con, cs) IN
         /\ base \in Seq(Names) /\ (book.authors # <<>> => base # <<>>)
         /\ cs = <<>> => Named(base) \subseteq Named(book.authors)
         /\ book.authors # <<>> => \A key \in Named(base) \ Named(book.authors) :
              Cardinality(ForIn(cs, key)) >= 2
         /\ (\A i \in DOMAIN cs : Single(cs[i].authors)) =>
              \A key \in Named(book.authors) \ Named(base) :
                \/ key \in Named(book.narrators) \cap con.byTrade
                \/ Cardinality(AgainstIn(cs, key)) >= 2
<1> DEFINE base == Settled(book, con, cs)
           written == WithoutNarrators(book, con.byTrade)
           tidied == Respelled(written, Tidy)
           agreed == Respelled(book.authors, con.authors)
           voted == Voted(cs, "authors")
           voters == Voters(cs, "authors")
           may == Len(voted) >= Len(book.authors) /\ MayAddPeople(book.authors, voted, cs, voters)
           added == IF may THEN voted ELSE <<>>
<1>1. \/ base = book.authors
      \/ base \in {tidied, agreed, added} /\ base # <<>>
  <2>1. base = Tiers(TRUE, book.authors, tidied, agreed, added)
    BY DEF Settled
  <2> HIDE DEF base, tidied, agreed, added
  <2>2. \/ Tiers(TRUE, book.authors, tidied, agreed, added) = book.authors
        \/ /\ Tiers(TRUE, book.authors, tidied, agreed, added) \in {tidied, agreed, added}
           /\ Tiers(TRUE, book.authors, tidied, agreed, added) # <<>>
    BY DEF Tiers, Proposed
  <2>3. QED
    BY <2>1, <2>2
<1>2. /\ written \in Seq(Names) /\ Named(written) \subseteq Named(book.authors)
      /\ \A key \in Named(book.authors) \ Named(written) : key \in Named(book.narrators) \cap con.byTrade
  BY WithoutNarratorsIs
<1> HIDE DEF written
<1>3. tidied \in Seq(Names) /\ Named(tidied) = Named(written)
  BY <1>2, RespelledIs
<1>4. agreed \in Seq(Names) /\ Named(agreed) = Named(book.authors)
  BY RespelledIs
<1> HIDE DEF base, tidied, agreed
<1>5. CASE base = book.authors
  BY <1>5 DEF base
<1>6. CASE base = tidied /\ base # <<>>
  BY <1>2, <1>3, <1>6 DEF base
<1>7. CASE base = agreed /\ base # <<>>
  BY <1>4, <1>7 DEF base
<1>8. CASE base = added /\ base # <<>>
  <2>1. base = voted /\ may
    BY <1>8
  <2>2. voters # {}
    BY <1>8, <2>1 DEF Voted
  <2>3. /\ voters \subseteq DOMAIN cs /\ voted \in Seq(Names)
        /\ \E i \in DOMAIN cs : voted = cs[i].authors
        /\ \A i \in voters : cs[i].authors # <<>> /\ Named(cs[i].authors) = Named(voted)
    BY <2>2, VotersAre
  <2> HIDE DEF voted, voters
  <2>4. cs # <<>>
    BY <2>2, <2>3
  <2>5. MayAddPeople(book.authors, voted, cs, voters) /\ Len(voted) >= Len(book.authors)
    BY <2>1
  <2>6. ASSUME book.authors # <<>>, NEW key \in Named(voted), key \notin Named(book.authors)
        PROVE  Cardinality(ForIn(cs, key)) >= 2
    <3> DEFINE J == {i \in DOMAIN cs : key \in Named(cs[i].authors)}
    <3>1. Cardinality(Voices(cs, voters)) >= 2
      BY <2>5, <2>6 DEF MayAddPeople
    <3>2. Voices(cs, voters) \subseteq Voices(cs, J) /\ J \in SUBSET DOMAIN cs
      BY <2>3 DEF Voices
    <3>3. ForIn(cs, key) = Voices(cs, J)
      BY DEF ForIn
    <3> HIDE DEF J
    <3>4. QED
      BY <3>1, <3>2, <3>3, MoreVoices
  <2>7. ASSUME \A i \in DOMAIN cs : Single(cs[i].authors),
               NEW key \in Named(book.authors), key \notin Named(voted)
        PROVE  Cardinality(AgainstIn(cs, key)) >= 2
    <3> DEFINE J == {i \in DOMAIN cs : cs[i].authors # <<>> /\ key \notin Named(cs[i].authors)}
    <3>1. Single(voted)
      BY <2>3, <2>7
    <3>2. ~ (Named(voted) \subseteq Named(book.authors))
      BY <2>3, <2>5, <2>7, <3>1, NobodyLeftOut
    <3>3. book.authors # <<>>
      BY <2>7 DEF Named
    <3>4. Cardinality(Voices(cs, voters)) >= 2
      BY <2>5, <3>2, <3>3 DEF MayAddPeople
    <3>5. Voices(cs, voters) \subseteq Voices(cs, J) /\ J \in SUBSET DOMAIN cs
      BY <2>3, <2>7 DEF Voices
    <3>6. AgainstIn(cs, key) = Voices(cs, J)
      BY DEF AgainstIn
    <3> HIDE DEF J
    <3>7. QED
      BY <3>4, <3>5, <3>6, MoreVoices
  <2>8. QED
    BY <1>8, <2>1, <2>3, <2>4, <2>6, <2>7 DEF base
<1>9. QED
  BY <1>1, <1>5, <1>6, <1>7, <1>8

\* Whom the sources outvote has two voices against him.
LEMMA OutvotedIs ==
  ASSUME NEW names, NEW cs \in Seq(Candidates), NEW key \in Outvoted(names, cs)
  PROVE  Cardinality(AgainstIn(cs, key)) >= 2
<1> DEFINE lists == {i \in DOMAIN cs : cs[i].authors # <<>>}
           J == {i \in DOMAIN cs : cs[i].authors # <<>> /\ key \notin Named(cs[i].authors)}
           support == Voices(cs, {i \in lists : key \in Named(cs[i].authors)})
           opposed == Voices(cs, {i \in lists : key \notin Named(cs[i].authors)}) \ support
<1>1. Cardinality(opposed) >= 2
  BY DEF Outvoted, Outvotes
<1>2. opposed \subseteq Voices(cs, J) /\ J \in SUBSET DOMAIN cs
  BY DEF Voices
<1>3. AgainstIn(cs, key) = Voices(cs, J)
  BY DEF AgainstIn
<1> HIDE DEF opposed, J
<1>4. QED
  BY <1>1, <1>2, <1>3, MoreVoices

\* Whom the series does without, no source credits.
LEMMA ExtrasAre ==
  ASSUME NEW profiles, NEW names, NEW cs, NEW key \in SeriesExtras(profiles, names, cs)
  PROVE  ForIn(cs, key) = {} /\ \E p \in profiles : \E a \in p.agreed : key \notin a
<1>1. PICK expected \in UNION {p.agreed : p \in profiles} :
        key \notin expected \cup UNION {Named(cs[i].authors) : i \in DOMAIN cs}
  BY DEF SeriesExtras
<1>2. {i \in DOMAIN cs : key \in Named(cs[i].authors)} = {}
  BY <1>1
<1>3. ForIn(cs, key) = {}
  BY <1>2 DEF ForIn, Voices
<1>4. QED
  BY <1>1, <1>3

\* The evidence somebody leaves an author list on.
Excused(book, con, profiles, cs, key) ==
  \/ Cardinality(AgainstIn(cs, key)) >= 2
  \/ key \in Named(book.narrators) \cap con.byTrade
  \/ ForIn(cs, key) = {} /\ \E p \in profiles : \E a \in p.agreed : key \notin a

LEMMA AuthorsAre ==
  ASSUME Respells(Tidy),
         NEW book, book.authors \in Seq(Names), NEW con, Respells(con.authors), NEW profiles,
         NEW cs \in Seq(Candidates), NEW a, a = AuthorsOf(book, con, profiles, cs)
  PROVE  /\ a \in Seq(Names) /\ (book.authors # <<>> => a # <<>>)
         /\ cs = <<>> => Named(a) \subseteq Named(book.authors)
         /\ book.authors # <<>> => \A key \in Named(a) \ Named(book.authors) :
              Cardinality(ForIn(cs, key)) >= 2
         /\ (\A i \in DOMAIN cs : Single(cs[i].authors)) =>
              \A key \in Named(book.authors) \ Named(a) : Excused(book, con, profiles, cs, key)
<1> DEFINE base == Settled(book, con, cs)
           removed == IF base = <<>> THEN {} ELSE Outvoted(base, cs) \cup SeriesExtras(profiles, base, cs)
           I == {i \in DOMAIN base : Person[base[i]] \notin removed}
           kept == Kept(base, I)
<1>1. a = IF removed # {} /\ kept # <<>> /\ kept # book.authors THEN kept ELSE base
  BY DEF AuthorsOf, Settled
<1>2. /\ base \in Seq(Names) /\ (book.authors # <<>> => base # <<>>)
      /\ cs = <<>> => Named(base) \subseteq Named(book.authors)
      /\ book.authors # <<>> => \A key \in Named(base) \ Named(book.authors) :
           Cardinality(ForIn(cs, key)) >= 2
      /\ (\A i \in DOMAIN cs : Single(cs[i].authors)) =>
           \A key \in Named(book.authors) \ Named(base) :
             \/ key \in Named(book.narrators) \cap con.byTrade
             \/ Cardinality(AgainstIn(cs, key)) >= 2
  BY SettledIs
<1> HIDE DEF base
<1>3. \A key \in removed : Excused(book, con, profiles, cs, key)
  BY OutvotedIs, ExtrasAre DEF Excused
<1> HIDE DEF removed
<1>4. kept \in Seq(Names) /\ Named(kept) = {Person[base[i]] : i \in I}
  BY <1>2, KeptIs
<1>5. Named(base) = {Person[base[i]] : i \in DOMAIN base}
  BY DEF Named
<1>6. Named(kept) \subseteq Named(base) /\ Named(base) \ Named(kept) \subseteq removed
  BY <1>4, <1>5
<1> HIDE DEF I, kept
<1>7. CASE a = kept /\ kept # <<>>
  BY <1>2, <1>3, <1>4, <1>6, <1>7 DEF Excused
<1>8. CASE a = base
  BY <1>2, <1>8 DEF Excused
<1>9. QED
  BY <1>1, <1>7, <1>8

\* The vote is a list of names, and nothing where nobody votes.
LEMMA VotedIs ==
  ASSUME NEW cs \in Seq(Candidates), NEW f \in {"authors", "narrators", "series"}
  PROVE  Voted(cs, f) \in Seq(Names) /\ (cs = <<>> => Voted(cs, f) = <<>>)
<1>1. CASE Voters(cs, f) = {}
  BY <1>1 DEF Voted
<1>2. CASE Voters(cs, f) # {}
  <2>1. Voters(cs, f) \subseteq DOMAIN cs /\ Voted(cs, f) \in Seq(Names)
    BY <1>2, VotersAre
  <2>2. cs # <<>>
    BY <1>2, <2>1
  <2>3. QED
    BY <2>1, <2>2
<1>3. QED
  BY <1>1, <1>2

LEMMA NarratorsAre ==
  ASSUME Respells(Tidy),
         NEW book, book.narrators \in Seq(Names), NEW con, Respells(con.narrators),
         NEW cs \in Seq(Candidates), NEW n, n = NarratorsOf(book, con, cs)
  PROVE  n \in Seq(Names) /\ (cs = <<>> => Named(n) \subseteq Named(book.narrators))
<1> DEFINE tidied == Respelled(book.narrators, Tidy)
           agreed == Respelled(book.narrators, con.narrators)
           voted == Voted(cs, "narrators")
           added == IF Len(voted) >= Len(book.narrators) THEN voted ELSE <<>>
<1>1. n = Tiers(FALSE, book.narrators, tidied, agreed, added)
  BY DEF NarratorsOf
<1>2. tidied \in Seq(Names) /\ Named(tidied) = Named(book.narrators)
  BY RespelledIs
<1>3. agreed \in Seq(Names) /\ Named(agreed) = Named(book.narrators)
  BY RespelledIs
<1>4. added \in Seq(Names) /\ (cs = <<>> => added = <<>>)
  <2>1. voted \in Seq(Names) /\ (cs = <<>> => voted = <<>>)
    BY VotedIs
  <2> HIDE DEF voted
  <2>2. QED
    BY <2>1
<1> HIDE DEF tidied, agreed, added
<1>5. n = book.narrators \/ (n \in {tidied, agreed, added} /\ n # <<>>)
  BY <1>1 DEF Tiers, Proposed
<1>6. QED
  BY <1>2, <1>3, <1>4, <1>5

LEMMA SeriesAre ==
  ASSUME NEW book, book.series \in Seq(Names), NEW con, Respells(con.series),
         NEW cs \in Seq(Candidates), NEW s, s = SeriesOf(book, con, cs)
  PROVE  s \in Seq(Names) /\ (cs = <<>> => Named(s) \subseteq Named(book.series))
<1> DEFINE agreed == Respelled(book.series, con.series)
           voted == Voted(cs, "series")
           first == IF voted = <<>> \/ book.series = <<>> THEN voted ELSE voted \o Tail(book.series)
<1>1. s = Tiers(TRUE, book.series, <<>>, agreed, first)
  BY DEF SeriesOf
<1>2. agreed \in Seq(Names) /\ Named(agreed) = Named(book.series)
  BY RespelledIs
<1>3. first \in Seq(Names) /\ (cs = <<>> => first = <<>>)
  <2>1. voted \in Seq(Names) /\ (cs = <<>> => voted = <<>>)
    BY VotedIs
  <2> HIDE DEF voted
  <2>2. QED
    BY <2>1
<1> HIDE DEF agreed, first
<1>4. s = book.series \/ (s \in {<<>>, agreed, first} /\ s # <<>>)
  BY <1>1 DEF Tiers, Proposed
<1>5. QED
  BY <1>2, <1>3, <1>4

\* What AudiobookShelf makes of a list names the same.
LEMMA ResolvedIs ==
  ASSUME NEW lib, NEW f, \A b \in Books : lib[b][f] \in Seq(Names), NEW names \in Seq(Names)
  PROVE  /\ Resolved(lib, f, names) \in Seq(Names)
         /\ Named(Resolved(lib, f, names)) = Named(names)
         /\ Resolved(lib, f, names) = <<>> => names = <<>>
<1> DEFINE to == [n \in Names |->
             IF n \in {r \in Range(Mentions(lib, f, Books)) : Lower[r] = Lower[n]}
                \/ {r \in Range(Mentions(lib, f, Books)) : Lower[r] = Lower[n]} = {} THEN n
             ELSE CHOOSE r \in {r \in Range(Mentions(lib, f, Books)) : Lower[r] = Lower[n]} : TRUE]
<1>1. Range(Mentions(lib, f, Books)) \subseteq Names
  BY MentionsIs DEF IsMentions, Range
<1>2. ASSUME NEW n \in Names PROVE to[n] \in Names /\ Person[to[n]] = Person[n]
  <2> DEFINE as == {r \in Range(Mentions(lib, f, Books)) : Lower[r] = Lower[n]}
  <2>1. CASE n \in as \/ as = {}
    BY <2>1
  <2>2. CASE ~ (n \in as \/ as = {})
    <3>1. to[n] \in as
      BY <2>2
    <3>2. QED
      BY <1>1, <3>1, NormalizeAssumption
  <2>3. QED
    BY <2>1, <2>2
<1>3. Respells(to)
  BY <1>2 DEF Respells
<1>4. Resolved(lib, f, names) = Respelled(names, to)
  <2>1. \A i \in DOMAIN names : names[i] \in Names
    OBVIOUS
  <2>2. QED
    BY <2>1 DEF Resolved, Respelled
<1> HIDE DEF to
<1>5. QED
  BY <1>3, <1>4, RespelledIs

--------------------------------------------------------------------------------
(***************************************************************************)
(* Normalize: the night.                                                   *)
(***************************************************************************)
Shelved(lib) == \A b \in Books : \A f \in {"authors", "narrators", "series"} : lib[b][f] \in Seq(Names)

NightInv == answers \in Answers /\ Shelved(library)

LEMMA ConsensusIs ==
  ASSUME NEW lib, Shelved(lib)
  PROVE  /\ Respells(Consensus(lib).authors) /\ Respells(Consensus(lib).narrators)
         /\ Respells(Consensus(lib).series)
         /\ Consensus(lib).byTrade = ByTrade(lib)
<1>1. ASSUME NEW f \in {"authors", "narrators", "series"}
      PROVE  /\ IsMentions(Mentions(lib, f, Books))
             /\ IsMentions(Respelled(Mentions(lib, f, Books), Tidy))
  BY MentionsIs DEF Shelved
<1>2. /\ Respells(Spelling(Respelled(Mentions(lib, "authors", Books), Tidy)))
      /\ Respells(Spelling(Respelled(Mentions(lib, "narrators", Books), Tidy)))
      /\ Respells(Spelling(Mentions(lib, "series", Books)))
  BY <1>1, SpellingIs
<1>3. QED
  BY <1>2 DEF Consensus

\* The candidates of a book's lookup, and those of them that may rewrite it.
Sure(b) == Rewritable(library[b], answers[b])

LEMMA SureIs ==
  ASSUME NightInv, NEW b \in Books
  PROVE  /\ Sure(b) \in Seq(Candidates)
         /\ (\A i \in DOMAIN answers[b] : answers[b][i].by = "title") => Sure(b) = <<>>
         /\ CreditedOnce => \A i \in DOMAIN Sure(b) : Single(Sure(b)[i].authors)
<1> DEFINE T == {c \in Candidates : Single(c.authors)}
<1>1. answers[b] \in Seq(Candidates) /\ answers \in Answers
  BY NormalizeAssumption DEF NightInv
<1>2. ASSUME CreditedOnce PROVE Sure(b) \in Seq(T)
  <2>1. \A i \in DOMAIN answers[b] : answers[b][i] \in T
    BY <1>1, <1>2 DEF CreditedOnce, Single
  <2>2. answers[b] \in Seq(T) /\ T \in SUBSET Candidates
    BY <1>1, <2>1
  <2> HIDE DEF T
  <2>3. QED
    BY <2>2, CandidatesKept DEF Sure
<1>3. ASSUME CreditedOnce PROVE \A i \in DOMAIN Sure(b) : Single(Sure(b)[i].authors)
  BY <1>2, <1>3
<1>4. Sure(b) \in Seq(Candidates)
      /\ ((\A i \in DOMAIN answers[b] : answers[b][i].by = "title") => Sure(b) = <<>>)
  BY <1>1, CandidatesKept DEF Sure
<1>5. QED
  BY <1>3, <1>4

\* What a night makes of each field of a book: it names what was planned for it.
LEMMA NightWrites ==
  ASSUME Night, NEW b \in Books
  PROVE  LET con == Consensus(library)
             a == AuthorsOf(library[b], con, ProfilesFor(library, con, b), Sure(b))
             n == NarratorsOf(library[b], con, Sure(b))
             s == SeriesOf(library[b], con, Sure(b))
         IN /\ library'[b].authors = Resolved(library, "authors", a)
            /\ library'[b].narrators = n
            /\ library'[b].series = Resolved(library, "series", s)
<1> DEFINE con == Consensus(library)
           plan == [c \in Books |-> Written(library, con, c, Rewritable(library[c], answers[c]))]
<1>1. library' = [c \in Books |-> Stored(library, plan[c])]
  BY DEF Night
<1>2. library'[b] = Stored(library, Written(library, con, b, Sure(b)))
  BY <1>1 DEF Sure
<1> HIDE DEF con
<1>3. QED
  BY <1>2 DEF Stored, Written, con

\* Who is credited after a night, and who is not any more.
LEMMA NightIs ==
  ASSUME TidyKeepsPerson, NightInv, Night, NEW b \in Books
  PROVE  /\ \A f \in {"authors", "narrators", "series"} :
              /\ library'[b][f] \in Seq(Names)
              /\ Sure(b) = <<>> => Named(library'[b][f]) \subseteq Named(library[b][f])
         /\ library[b].authors # <<>> => library'[b].authors # <<>>
         /\ library[b].authors # <<>> =>
              \A key \in Named(library'[b].authors) \ Named(library[b].authors) :
                Cardinality(ForIn(Sure(b), key)) >= 2
         /\ (\A i \in DOMAIN Sure(b) : Single(Sure(b)[i].authors)) =>
              \A key \in Named(library[b].authors) \ Named(library'[b].authors) :
                Excused(library[b], Consensus(library),
                        ProfilesFor(library, Consensus(library), b), Sure(b), key)
<1> DEFINE con == Consensus(library)
           profiles == ProfilesFor(library, con, b)
           a == AuthorsOf(library[b], con, profiles, Sure(b))
           n == NarratorsOf(library[b], con, Sure(b))
           s == SeriesOf(library[b], con, Sure(b))
<1>1. /\ library'[b].authors = Resolved(library, "authors", a)
      /\ library'[b].narrators = n
      /\ library'[b].series = Resolved(library, "series", s)
  BY NightWrites
<1>2. Respells(con.authors) /\ Respells(con.narrators) /\ Respells(con.series)
  BY ConsensusIs DEF NightInv
<1>3. Respells(Tidy)
  BY NormalizeAssumption DEF TidyKeepsPerson, Respells
<1>4. /\ library[b].authors \in Seq(Names) /\ library[b].narrators \in Seq(Names)
      /\ library[b].series \in Seq(Names)
  BY DEF NightInv, Shelved
<1>5. Sure(b) \in Seq(Candidates)
  BY SureIs
<1> HIDE DEF con, profiles
<1>6. /\ a \in Seq(Names) /\ (library[b].authors # <<>> => a # <<>>)
      /\ Sure(b) = <<>> => Named(a) \subseteq Named(library[b].authors)
      /\ library[b].authors # <<>> => \A key \in Named(a) \ Named(library[b].authors) :
           Cardinality(ForIn(Sure(b), key)) >= 2
      /\ (\A i \in DOMAIN Sure(b) : Single(Sure(b)[i].authors)) =>
           \A key \in Named(library[b].authors) \ Named(a) :
             Excused(library[b], con, profiles, Sure(b), key)
  BY <1>2, <1>3, <1>4, <1>5, AuthorsAre
<1>7. n \in Seq(Names) /\ (Sure(b) = <<>> => Named(n) \subseteq Named(library[b].narrators))
  BY <1>2, <1>3, <1>4, <1>5, NarratorsAre
<1>8. s \in Seq(Names) /\ (Sure(b) = <<>> => Named(s) \subseteq Named(library[b].series))
  BY <1>2, <1>4, <1>5, SeriesAre
<1> HIDE DEF a, n, s
<1>9. /\ library'[b].authors \in Seq(Names) /\ Named(library'[b].authors) = Named(a)
      /\ library'[b].authors = <<>> => a = <<>>
  <2>1. \A c \in Books : library[c]["authors"] \in Seq(Names)
    BY DEF NightInv, Shelved
  <2>2. QED
    BY <1>1, <1>6, <2>1, ResolvedIs
<1>10. library'[b].series \in Seq(Names) /\ Named(library'[b].series) = Named(s)
  <2>1. \A c \in Books : library[c]["series"] \in Seq(Names)
    BY DEF NightInv, Shelved
  <2>2. QED
    BY <1>1, <1>8, <2>1, ResolvedIs
<1>11. \A f \in {"authors", "narrators", "series"} :
         /\ library'[b][f] \in Seq(Names)
         /\ Sure(b) = <<>> => Named(library'[b][f]) \subseteq Named(library[b][f])
  BY <1>1, <1>6, <1>7, <1>8, <1>9, <1>10
<1>12. QED
  BY <1>6, <1>9, <1>11 DEF con, profiles

LEMMA InitNight == NightInit => NightInv
<1> SUFFICES ASSUME NightInit PROVE NightInv
  OBVIOUS
<1>1. library \in [Books -> [Fields -> Seq(Names)]] /\ answers \in Answers
  BY NormalizeAssumption DEF NightInit
<1>2. QED
  BY <1>1 DEF NightInv, Shelved, Fields

LEMMA NextNight ==
  ASSUME TidyKeepsPerson, NightInv, [Night]_nightVars PROVE NightInv'
<1>1. CASE Night
  <2>1. answers' = answers
    BY <1>1 DEF Night
  <2>2. \A b \in Books : \A f \in {"authors", "narrators", "series"} : library'[b][f] \in Seq(Names)
    BY <1>1, NightIs
  <2>3. QED
    BY <2>1, <2>2 DEF NightInv, Shelved
<1>2. CASE UNCHANGED nightVars
  BY <1>2 DEF nightVars, NightInv, Shelved
<1>3. QED
  BY <1>1, <1>2

LEMMA NightsInv == ASSUME TidyKeepsPerson PROVE Nights => []NightInv
BY InitNight, NextNight, PTL DEF Nights

LEMMA SourcesIn ==
  ASSUME NEW b, NEW key
  PROVE  For(b, key) = ForIn(Sure(b), key) /\ Against(b, key) = AgainstIn(Sure(b), key)
BY DEF For, Against, ForIn, AgainstIn, Sure

\* Nobody leaves the author list of a book without evidence: two independent
\* catalogues leave them out, or they narrate it by trade, or no source credits them
\* and the series agrees without them (normalize.ts planNormalize); where the
\* reading order of a name is the same person's and no source credits one twice.
THEOREM NobodyLeavesHolds ==
  ASSUME TidyKeepsPerson, CreditedOnce PROVE Nights => NobodyLeavesUnopposed
<1>1. ASSUME NightInv, [Night]_nightVars, NEW b \in Books,
             NEW key \in Named(library[b].authors) \ Named(library'[b].authors)
      PROVE  \/ Cardinality(Against(b, key)) >= 2
             \/ key \in Named(library[b].narrators) \cap ByTrade(library)
             \/ For(b, key) = {} /\ \E con \in {Consensus(library)} :
                  \E p \in ProfilesFor(library, con, b) : \E a \in p.agreed : key \notin a
  <2>1. Night
    BY <1>1 DEF nightVars
  <2>2. \A i \in DOMAIN Sure(b) : Single(Sure(b)[i].authors)
    BY <1>1, SureIs
  <2>3. Excused(library[b], Consensus(library), ProfilesFor(library, Consensus(library), b), Sure(b), key)
    BY <1>1, <2>1, <2>2, NightIs
  <2>4. Consensus(library).byTrade = ByTrade(library)
    BY <1>1, ConsensusIs DEF NightInv
  <2>5. QED
    BY <2>3, <2>4, SourcesIn DEF Excused
<1>2. ASSUME NightInv, [Night]_nightVars
      PROVE  [\A b \in Books : \A key \in Named(library[b].authors) \ Named(library'[b].authors) :
                \/ Cardinality(Against(b, key)) >= 2
                \/ key \in Named(library[b].narrators) \cap ByTrade(library)
                \/ For(b, key) = {} /\ \E con \in {Consensus(library)} :
                     \E p \in ProfilesFor(library, con, b) : \E a \in p.agreed : key \notin a]_nightVars
  BY <1>1, <1>2
<1>3. QED
  BY <1>2, NightsInv, PTL DEF Nights, NobodyLeavesUnopposed

\* Nobody joins the author list of a book on one catalogue's word, and a book with
\* authors is never left with none (normalize.ts mayAddPeople,
\* dropNarratorsFromAuthors); where the reading order of a name is the same person's.
THEOREM NobodyJoinsHolds ==
  ASSUME TidyKeepsPerson PROVE Nights => NobodyJoinsOnOneWord
<1>1. ASSUME NightInv, [Night]_nightVars
      PROVE  [\A b \in Books : library[b].authors # <<>> =>
                /\ library'[b].authors # <<>>
                /\ \A key \in Named(library'[b].authors) \ Named(library[b].authors) :
                     Cardinality(For(b, key)) >= 2]_nightVars
  <2>1. CASE Night
    BY <1>1, <2>1, NightIs, SourcesIn
  <2>2. QED
    BY <1>1, <2>1
<1>2. QED
  BY <1>1, NightsInv, PTL DEF Nights, NobodyJoinsOnOneWord

\* A title alone never renames: without an identified source every name is one the
\* library had (matching.ts FUZZY_CEILING); where the reading order of a name is the
\* same person's.
THEOREM GuessesDoNotRenameHolds ==
  ASSUME TidyKeepsPerson PROVE Nights => GuessesDoNotRename
<1>1. ASSUME NightInv, [Night]_nightVars
      PROVE  [\A b \in Books : (\A i \in DOMAIN answers[b] : answers[b][i].by = "title") =>
                \A f \in {"authors", "narrators", "series"} :
                  Named(library'[b][f]) \subseteq Named(library[b][f])]_nightVars
  <2>1. CASE Night
    BY <1>1, <2>1, NightIs, SureIs
  <2>2. QED
    BY <1>1, <2>1
<1>2. QED
  BY <1>1, NightsInv, PTL DEF Nights, GuessesDoNotRename

================================================================================

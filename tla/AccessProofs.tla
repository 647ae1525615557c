------------------------------ MODULE AccessProofs ------------------------------
(***************************************************************************)
(* Proofs about SignIn and Keys: who gets in, and whether the stored token *)
(* still opens.                                                            *)
(*                                                                         *)
(* SignIn, for every number of browsers, every lifetime and every clock:   *)
(* who is signed in, who may set the password, who is made to wait and how *)
(* much the waits bound the guessing.  The delays and their sums are       *)
(* recursive functions; induction over them is an argument about sets of   *)
(* numbers (SetInduction), and that they exist is Recursion.               *)
(*                                                                         *)
(* Keys, for every number of processes, keys and faults.  RowOpens speaks  *)
(* of quiet moments only, so it is not inductive: what the half-way states *)
(* promise is added to it, and with it what each step of an operation      *)
(* knows of the key in force.                                              *)
(***************************************************************************)
EXTENDS SignIn, Keys, FiniteSetTheorems, WellFoundedInduction, TLAPS

\* The shapes the handlers rely on; the clock and the throttle play no part.
ShapeInv ==
  /\ claim \in [token : Nat, at : Int]
  /\ cookie \in [Browsers -> [setup : Nat, session : Nat]]
  /\ tokens \in Nat

\* There is a password, or a claim and nobody signed in, never both.
PasswordInv ==
  /\ hash # NoPassword => claim = NoClaim
  /\ hash = NoPassword => \A b \in Browsers : cookie[b].session = NoToken

Clocked == now \in Int

Inv == Clocked /\ ShapeInv /\ PasswordInv /\ SessionsAreOfThisPassword

LEMMA InitInv == Init => Inv
BY DEF Init, Inv, Clocked, ShapeInv, PasswordInv, SessionsAreOfThisPassword, NoClaim, NoToken

\* Keeping some sessions, or adding one, parts none from its proof.
LEMMA KeepProven ==
  ASSUME SessionsAreOfThisPassword, NEW ids \in SUBSET DOMAIN sessions, Keep(ids)
  PROVE  SessionsAreOfThisPassword'
BY DEF Keep, SessionsAreOfThisPassword

LEMMA CreateProven ==
  ASSUME SessionsAreOfThisPassword, NEW b \in Browsers, CreateSession(b)
  PROVE  SessionsAreOfThisPassword'
BY DEF CreateSession, SessionsAreOfThisPassword

LEMMA InvStep ==
  ASSUME Inv, [Next]_vars
  PROVE  Inv'
<1> USE SignInAssumption DEF Inv, Clocked, ShapeInv, PasswordInv, NoClaim, NoToken
<1>1. ASSUME NEW b \in Browsers, ClaimSetup(b) PROVE Inv'
  BY <1>1 DEF ClaimSetup, SessionsAreOfThisPassword
<1>2. ASSUME NEW b \in Browsers, CodeGuessed(b) PROVE Inv'
  BY <1>2 DEF CodeGuessed, SessionsAreOfThisPassword
<1>3. ASSUME NEW b \in Browsers, Visit(b) PROVE Inv'
  BY <1>3, KeepProven DEF Visit
<1>4. ASSUME NEW b \in Browsers, Logout(b) PROVE Inv'
  BY <1>4, KeepProven DEF Logout
<1>5. ASSUME NEW b \in Browsers, NEW password \in Passwords, CompleteSetup(b, password) PROVE Inv'
  <2>1. SessionsAreOfThisPassword'
    BY <1>5, CreateProven DEF CompleteSetup
  <2>2. QED
    BY <1>5, <2>1 DEF CompleteSetup, CreateSession
<1>6. ASSUME NEW b \in Browsers, NEW password \in Passwords, Login(b, password) PROVE Inv'
  <2>1. CASE password = hash
    <3>1. SessionsAreOfThisPassword'
      BY <1>6, <2>1, CreateProven DEF Login
    <3>2. QED
      BY <1>6, <2>1, <3>1 DEF Login, CreateSession
  <2>2. CASE password # hash
    BY <1>6, <2>2 DEF Login, SessionsAreOfThisPassword
  <2>3. QED
    BY <2>1, <2>2
<1>7. ASSUME NEW b \in Browsers, NEW password \in Passwords, ChangePassword(b, password) PROVE Inv'
  BY <1>7 DEF ChangePassword, Spared, Authenticated, SessionsAreOfThisPassword
<1>8. CASE PruneSessions
  BY <1>8, KeepProven DEF PruneSessions
<1>9. CASE Restart
  BY <1>9 DEF Restart, SessionsAreOfThisPassword
<1>10. CASE Tick
  BY <1>10 DEF Tick, SessionsAreOfThisPassword
<1>11. CASE UNCHANGED vars
  BY <1>11 DEF vars, SessionsAreOfThisPassword
<1>12. QED
  BY <1>1, <1>2, <1>3, <1>4, <1>5, <1>6, <1>7, <1>8, <1>9, <1>10, <1>11 DEF Next

LEMMA Invariance == Spec => []Inv
<1>1. Inv /\ [Next]_vars => Inv'
  BY InvStep
<1>2. QED
  BY InitInv, <1>1, PTL DEF Spec

--------------------------------------------------------------------------------
(***************************************************************************)
(* What follows.                                                           *)
(***************************************************************************)
\* Whoever is signed in gave the password there is now, or changed it to that.
THEOREM SessionsAreProven == Spec => []SessionsAreOfThisPassword
<1>1. Inv => SessionsAreOfThisPassword
  BY DEF Inv
<1>2. QED
  BY Invariance, <1>1, PTL

\* What one step may do while b holds the claim and c does not.
LEMMA ExclusiveStep ==
  ASSUME Inv, Next, NEW b \in Browsers, NEW c \in Browsers, Mine(b), ~Mine(c)
  PROVE  /\ cookie'[c].setup # claim'.token \/ claim' = NoClaim
         /\ cookie'[c].session = cookie[c].session
<1> USE SignInAssumption DEF Inv, Clocked, ShapeInv, PasswordInv, NoToken
<1>0. /\ claim # NoClaim /\ hash = NoPassword /\ Live
      /\ cookie[b].setup = claim.token /\ cookie[c].setup # claim.token
  BY DEF Mine, Live
<1>1. ASSUME NEW x \in Browsers, ClaimSetup(x) PROVE claim'.token = claim.token /\ cookie' = cookie
  <2>1. cookie[x].setup = claim.token
    BY <1>0, <1>1 DEF ClaimSetup, HeldBySomeoneElse
  <2>2. claim' = [claim EXCEPT !.at = now] /\ cookie' = cookie
    BY <1>0, <1>1, <2>1 DEF ClaimSetup
  <2>3. QED
    BY <2>2
<1>2. ASSUME NEW x \in Browsers, NEW password \in Passwords, CompleteSetup(x, password)
      PROVE  claim' = NoClaim /\ cookie'[c] = cookie[c]
  <2>1. x # c
    BY <1>2 DEF CompleteSetup
  <2>2. QED
    BY <1>2, <2>1 DEF CompleteSetup, CreateSession
<1>3. ASSUME NEW x \in Browsers, NEW password \in Passwords,
             Login(x, password) \/ ChangePassword(x, password)
      PROVE  FALSE
  BY <1>0, <1>3 DEF Login, ChangePassword, Authenticated
<1>4. ASSUME NEW x \in Browsers, Logout(x) PROVE FALSE
  BY <1>0, <1>4 DEF Logout
<1>5. ASSUME NEW x \in Browsers, CodeGuessed(x) \/ Visit(x)
      PROVE  claim' = claim /\ cookie' = cookie
  BY <1>5 DEF CodeGuessed, Visit
<1>6. CASE PruneSessions \/ Tick
  BY <1>0, <1>6 DEF PruneSessions, Tick
<1>7. CASE Restart
  BY <1>0, <1>7 DEF Restart
<1>8. QED
  BY <1>0, <1>1, <1>2, <1>3, <1>4, <1>5, <1>6, <1>7 DEF Next

\* While one browser holds the claim to set the password, no other can get it, nor
\* be signed in.
THEOREM OneClaimant == Spec => ClaimIsExclusive
<1>1. Inv /\ [Next]_vars =>
        [\A b, c \in Browsers : Mine(b) /\ ~Mine(c) =>
           /\ cookie'[c].setup # claim'.token \/ claim' = NoClaim
           /\ cookie'[c].session = cookie[c].session]_vars
  BY ExclusiveStep
<1>2. QED
  BY Invariance, <1>1, PTL DEF Spec, ClaimIsExclusive

--------------------------------------------------------------------------------
(***************************************************************************)
(* Counting.                                                               *)
(***************************************************************************)
\* Induction over a set of numbers: of the intervals 0 .. n that end in a number
\* left out, one includes no other.
LEMMA SetInduction ==
  ASSUME NEW S \in SUBSET Nat, 0 \in S, \A n \in S : n + 1 \in S
  PROVE  S = Nat
<1> DEFINE Upto == {0 .. n : n \in Nat \ S}
<1>1. SUFFICES ASSUME Nat \ S # {} PROVE FALSE
  OBVIOUS
<1>2. Upto \subseteq FiniteSubsetsOf(Nat)
  <2>1. ASSUME NEW n \in Nat PROVE 0 .. n \subseteq Nat /\ IsFiniteSet(0 .. n)
    BY FS_Interval
  <2>2. QED
    BY <2>1 DEF FiniteSubsetsOf
<1>3. PICK x \in Upto : \A y \in Upto : ~ (<<y, x>> \in StrictSubsetOrdering(Nat))
  <2>1. IsWellFoundedOn(StrictSubsetOrdering(Nat), FiniteSubsetsOf(Nat))
    BY FS_StrictSubsetOrderingWellFounded
  <2>2. Upto # {}
    BY <1>1
  <2> HIDE DEF Upto
  <2>3. QED
    BY <1>2, <2>1, <2>2, WFMin
<1>4. PICK m \in Nat \ S : x = 0 .. m
  OBVIOUS
<1>5. m - 1 \in Nat \ S
  BY <1>4
<1> DEFINE A == 0 .. m - 1
           B == 0 .. m
<1>6. A \in SUBSET Nat /\ B \in SUBSET Nat /\ A \subseteq B /\ m \in B /\ m \notin A
  BY <1>4, <1>5
<1>7. A \in Upto /\ B = x
  BY <1>4, <1>5
<1> HIDE DEF A, B, Upto
<1>8. <<A, B>> \in StrictSubsetOrdering(Nat)
  BY <1>6 DEF StrictSubsetOrdering
<1>9. QED
  BY <1>3, <1>7, <1>8

\* A function given by its first value and by each value from the one before.
Follows(f, V, base, F) ==
  f \in [Nat -> V] /\ f[0] = base /\ \A n \in Nat : f[n + 1] = F[n][f[n]]

LEMMA Recursion ==
  ASSUME NEW V, NEW base \in V, NEW F \in [Nat -> [V -> V]]
  PROVE  \E f : Follows(f, V, base, F)
<1> DEFINE Upto(g, n) == /\ g \in [0 .. n -> V]
                         /\ \A k \in 0 .. n : g[k] = IF k = 0 THEN base ELSE F[k - 1][g[k - 1]]
           Reached == {n \in Nat : \E g : Upto(g, n)}
<1>1. ASSUME NEW n \in Nat, NEW g, Upto(g, n) PROVE \E h : Upto(h, n + 1)
  <2> DEFINE h == [k \in 0 .. n + 1 |-> IF k = n + 1 THEN F[n][g[n]] ELSE g[k]]
  <2>1. g[n] \in V /\ F[n][g[n]] \in V
    BY <1>1
  <2>2. h \in [0 .. n + 1 -> V]
    BY <1>1, <2>1
  <2>3. ASSUME NEW k \in 0 .. n + 1
        PROVE  h[k] = IF k = 0 THEN base ELSE F[k - 1][h[k - 1]]
    <3>1. CASE k = n + 1
      <4>1. h[k] = F[n][g[n]] /\ h[k - 1] = g[n] /\ k # 0
        BY <3>1
      <4>2. QED
        BY <3>1, <4>1
    <3>2. CASE k # n + 1
      <4>1. k \in 0 .. n /\ h[k] = g[k] /\ (k # 0 => h[k - 1] = g[k - 1])
        BY <3>2
      <4>2. QED
        BY <1>1, <4>1
    <3>3. QED
      BY <3>1, <3>2
  <2> HIDE DEF h
  <2>4. QED
    BY <2>2, <2>3
<1>2. \E g : Upto(g, 0)
  <2>1. Upto([k \in 0 .. 0 |-> base], 0)
    OBVIOUS
  <2> HIDE DEF Upto
  <2>2. QED
    BY <2>1
<1>3. \A n \in Nat : \E g : Upto(g, n)
  <2> HIDE DEF Upto
  <2>1. Reached \in SUBSET Nat /\ 0 \in Reached /\ \A n \in Reached : n + 1 \in Reached
    BY <1>1, <1>2
  <2> HIDE DEF Reached
  <2>2. Reached = Nat
    BY <2>1, SetInduction
  <2>3. QED
    BY <2>2 DEF Reached
<1>4. ASSUME NEW n \in Nat, NEW m \in Nat, NEW g, NEW h, Upto(g, n), Upto(h, m)
      PROVE  \A k \in Nat : k <= n /\ k <= m => g[k] = h[k]
  <2> DEFINE Same == {k \in Nat : k <= n /\ k <= m => g[k] = h[k]}
  <2>1. 0 \in Same
    <3>1. 0 \in 0 .. n /\ 0 \in 0 .. m
      OBVIOUS
    <3>2. g[0] = base /\ h[0] = base
      BY <1>4, <3>1
    <3>3. QED
      BY <3>2
  <2>2. ASSUME NEW k \in Same PROVE k + 1 \in Same
    <3>1. SUFFICES ASSUME k + 1 <= n, k + 1 <= m PROVE g[k + 1] = h[k + 1]
      OBVIOUS
    <3>2. g[k] = h[k]
      BY <3>1
    <3>3. /\ k + 1 \in 0 .. n /\ k + 1 \in 0 .. m /\ k + 1 # 0 /\ (k + 1) - 1 = k
      BY <3>1
    <3>4. g[k + 1] = F[k][g[k]] /\ h[k + 1] = F[k][h[k]]
      BY <1>4, <3>3
    <3>5. QED
      BY <3>2, <3>4
  <2> HIDE DEF Same
  <2>3. Same = Nat
    BY <2>1, <2>2, SetInduction DEF Same
  <2>4. QED
    BY <2>3 DEF Same
<1> DEFINE best(n) == CHOOSE g : Upto(g, n)
           f == [n \in Nat |-> best(n)[n]]
<1>5. \A n \in Nat : Upto(best(n), n)
  <2> HIDE DEF Upto
  <2>1. QED
    BY <1>3
<1> HIDE DEF best
<1>6. f \in [Nat -> V]
  BY <1>5
<1>7. f[0] = base
  <2>1. Upto(best(0), 0)
    <3> HIDE DEF Upto
    <3>1. QED
      BY <1>5
  <2>2. 0 \in 0 .. 0
    OBVIOUS
  <2>3. QED
    BY <2>1, <2>2
<1>8. ASSUME NEW n \in Nat PROVE f[n + 1] = F[n][f[n]]
  <2>1. Upto(best(n), n) /\ Upto(best(n + 1), n + 1)
    BY <1>5
  <2>2. best(n + 1)[n] = best(n)[n]
    <3> HIDE DEF Upto
    <3>1. n <= n + 1 /\ n <= n
      OBVIOUS
    <3>2. QED
      BY <1>4, <2>1, <3>1
  <2>3. n + 1 \in 0 .. n + 1 /\ n + 1 # 0 /\ (n + 1) - 1 = n
    OBVIOUS
  <2>4. best(n + 1)[n + 1] = F[n][best(n + 1)[n]]
    BY <2>1, <2>3
  <2>5. QED
    BY <2>2, <2>4
<1> HIDE DEF f
<1>9. Follows(f, V, base, F)
  BY <1>6, <1>7, <1>8 DEF Follows
<1>10. QED
  BY <1>9

--------------------------------------------------------------------------------
(***************************************************************************)
(* The delays, and what they add up to.                                    *)
(***************************************************************************)
\* The first delay, and each from the one before.
LEMMA DelaysGrow ==
  /\ Delays[0] = BaseDelay
  /\ \A n \in Nat : Delays[n] \in 1 .. MaxDelay /\ Delays[n] <= Delays[n + 1]
<1> DEFINE V == 1 .. MaxDelay
           F == [n \in Nat |-> [d \in V |-> MinOf(2 * d, MaxDelay)]]
<1>1. BaseDelay \in V /\ MaxDelay \in Nat
  BY SignInAssumption
<1>2. F \in [Nat -> [V -> V]]
  BY <1>1 DEF MinOf
<1>3. \A n \in Nat, d \in V : F[n][d] = MinOf(2 * d, MaxDelay)
  OBVIOUS
<1> HIDE DEF F, V
<1>4. PICK f : Follows(f, V, BaseDelay, F)
  BY <1>1, <1>2, Recursion
<1>5. ASSUME NEW n \in Nat
      PROVE  f[n] = IF n = 0 THEN BaseDelay ELSE MinOf(2 * f[n - 1], MaxDelay)
  <2>1. CASE n = 0
    BY <1>4, <2>1 DEF Follows
  <2>2. CASE n # 0
    <3>1. n - 1 \in Nat /\ (n - 1) + 1 = n /\ f[n - 1] \in V
      BY <1>4, <2>2 DEF Follows
    <3>2. f[n] = F[n - 1][f[n - 1]]
      BY <1>4, <3>1 DEF Follows
    <3>3. QED
      BY <1>3, <2>2, <3>1, <3>2
  <2>3. QED
    BY <2>1, <2>2
<1>6. f = [n \in Nat |-> IF n = 0 THEN BaseDelay ELSE MinOf(2 * f[n - 1], MaxDelay)]
  BY <1>4, <1>5 DEF Follows
<1>7. Delays = [n \in Nat |-> IF n = 0 THEN BaseDelay ELSE MinOf(2 * Delays[n - 1], MaxDelay)]
  BY <1>6 DEF Delays
<1> HIDE DEF Delays
<1>8. /\ Delays[0] = BaseDelay
      /\ \A n \in Nat : Delays[n + 1] = MinOf(2 * Delays[n], MaxDelay)
  BY <1>7
<1> DEFINE Good == {n \in Nat : Delays[n] \in V}
<1>9. 0 \in Good /\ \A n \in Good : n + 1 \in Good
  BY <1>1, <1>8 DEF V, MinOf
<1> HIDE DEF Good
<1>10. Good = Nat
  BY <1>9, SetInduction DEF Good
<1>11. \A n \in Nat : Delays[n] \in 1 .. MaxDelay
  BY <1>10 DEF Good, V
<1>12. \A n \in Nat : Delays[n] <= Delays[n + 1]
  BY <1>1, <1>8, <1>11 DEF MinOf
<1>13. QED
  BY <1>8, <1>11, <1>12

\* Each delay is at least any that came before it.
LEMMA DelaysAscend ==
  ASSUME NEW m \in Nat, NEW n \in Nat, m <= n
  PROVE  Delays[m] <= Delays[n]
<1> DEFINE Above == {k \in Nat : Delays[m] <= Delays[m + k]}
<1>1. \A k \in Nat : Delays[k] \in Nat /\ Delays[k] <= Delays[k + 1]
  BY DelaysGrow, SignInAssumption
<1>2. 0 \in Above
  BY <1>1
<1>3. ASSUME NEW k \in Above PROVE k + 1 \in Above
  <2>1. m + k \in Nat /\ m + (k + 1) = (m + k) + 1
    OBVIOUS
  <2>2. QED
    BY <1>1, <2>1
<1> HIDE DEF Above
<1>4. Above = Nat
  BY <1>2, <1>3, SetInduction DEF Above
<1>5. n - m \in Above /\ m + (n - m) = n
  BY <1>4
<1>6. QED
  BY <1>5 DEF Above

\* What the waits add up to: at least one for each.
LEMMA WaitedAddsUp ==
  /\ Waited[0] = 0
  /\ \A n \in Nat : /\ Waited[n] \in Nat /\ Waited[n] >= n
                   /\ Waited[n + 1] = Waited[n] + Delays[n]
                   /\ Waited[n] <= Waited[n + 1]
<1> DEFINE F == [n \in Nat |-> [w \in Nat |-> w + Delays[n]]]
<1>1. \A n \in Nat : Delays[n] \in Nat \ {0}
  BY DelaysGrow, SignInAssumption
<1>2. F \in [Nat -> [Nat -> Nat]]
  BY <1>1
<1>3. \A n \in Nat, w \in Nat : F[n][w] = w + Delays[n]
  OBVIOUS
<1> HIDE DEF F
<1>4. PICK f : Follows(f, Nat, 0, F)
  BY <1>2, Recursion
<1>5. ASSUME NEW n \in Nat
      PROVE  f[n] = IF n = 0 THEN 0 ELSE f[n - 1] + Delay(FreeAttempts + n)
  <2>1. CASE n = 0
    BY <1>4, <2>1 DEF Follows
  <2>2. CASE n # 0
    <3>1. n - 1 \in Nat /\ (n - 1) + 1 = n /\ f[n - 1] \in Nat
      BY <1>4, <2>2 DEF Follows
    <3>2. f[n] = F[n - 1][f[n - 1]]
      BY <1>4, <3>1 DEF Follows
    <3>3. (FreeAttempts + n) - FreeAttempts - 1 = n - 1
      BY SignInAssumption
    <3>4. Delay(FreeAttempts + n) = Delays[n - 1]
      BY <3>3 DEF Delay
    <3>5. QED
      BY <1>3, <2>2, <3>1, <3>2, <3>4
  <2>3. QED
    BY <2>1, <2>2
<1>6. f = [n \in Nat |-> IF n = 0 THEN 0 ELSE f[n - 1] + Delay(FreeAttempts + n)]
  BY <1>4, <1>5 DEF Follows
<1>7. Waited = [n \in Nat |-> IF n = 0 THEN 0 ELSE Waited[n - 1] + Delay(FreeAttempts + n)]
  BY <1>6 DEF Waited
<1> HIDE DEF Waited
<1>8. Waited[0] = 0 /\ \A n \in Nat : Waited[n + 1] = Waited[n] + Delays[n]
  <2>1. \A n \in Nat : (FreeAttempts + (n + 1)) - FreeAttempts - 1 = n
    BY SignInAssumption
  <2>2. \A n \in Nat : Delay(FreeAttempts + (n + 1)) = Delays[n]
    BY <2>1 DEF Delay
  <2>3. QED
    BY <1>7, <2>2
<1> DEFINE Good == {n \in Nat : Waited[n] \in Nat /\ Waited[n] >= n}
<1>9. 0 \in Good /\ \A n \in Good : n + 1 \in Good
  <2>1. ASSUME NEW n \in Nat, Waited[n] \in Nat, Waited[n] >= n
        PROVE  Waited[n + 1] \in Nat /\ Waited[n + 1] >= n + 1
    <3>1. Delays[n] \in Nat \ {0} /\ Waited[n + 1] = Waited[n] + Delays[n]
      BY <1>1, <1>8
    <3>2. QED
      BY <2>1, <3>1
  <2>2. QED
    BY <1>8, <2>1
<1> HIDE DEF Good
<1>10. Good = Nat
  BY <1>9, SetInduction DEF Good
<1>11. \A n \in Nat : Waited[n] \in Nat /\ Waited[n] >= n
  BY <1>10 DEF Good
<1>12. QED
  BY <1>1, <1>8, <1>11

--------------------------------------------------------------------------------
(***************************************************************************)
(* The throttle.                                                           *)
(***************************************************************************)
\* What the delay after so many failures is, past the allowance.
LEMMA DelayIsCapped ==
  ASSUME NEW n \in Nat, n > FreeAttempts
  PROVE  /\ n - FreeAttempts - 1 \in Nat
         /\ Delay(n) = Delays[n - FreeAttempts - 1] /\ Delay(n) \in 1 .. MaxDelay
<1>1. n - FreeAttempts - 1 \in Nat
  BY SignInAssumption
<1>2. QED
  BY <1>1, DelaysGrow DEF Delay

\* The failures an entry counts are the last ones of its address: none of them
\* idle so long that it was forgotten before the next, the first of them after
\* such a time.  A wait was set by the last, and only past the allowance.
Counted(entry, times) ==
  LET n == Len(times) IN
  /\ entry.failures \in 1 .. n
  /\ entry.seenAt = times[n]
  /\ \A i \in n - entry.failures + 1 .. n - 1 : times[i + 1] - times[i] <= ForgetAfter
  /\ entry.failures < n =>
       times[n - entry.failures + 1] - times[n - entry.failures] > ForgetAfter
  /\ entry.blockedUntil =
       IF entry.failures > FreeAttempts THEN entry.seenAt + Delay(entry.failures) ELSE 0

\* No address was idle between its i-th and its j-th failure.
Unbroken(times, i, j) == \A k \in i .. j - 1 : times[k + 1] - times[k] <= ForgetAfter

\* Failures come in order, and those of an address that is not forgotten in
\* between are apart by all the waits past the allowance.
Spaced(times) ==
  /\ \A i, j \in DOMAIN times : i <= j => times[i] <= times[j]
  /\ \A i, j \in DOMAIN times :
       i <= j /\ j - i >= FreeAttempts /\ Unbroken(times, i, j) =>
         times[j] - times[i] >= Waited[j - i - FreeAttempts]

ThrottleInv ==
  /\ now \in Nat
  /\ failed \in [Addresses -> Seq(Nat)]
  /\ DOMAIN entries \subseteq Addresses
  /\ \A a \in DOMAIN entries : Counted(entries[a], failed[a])
  /\ \A a \in Addresses : Spaced(failed[a]) /\ \A i \in DOMAIN failed[a] : failed[a][i] <= now
  /\ \A a \in Addresses \ DOMAIN entries :
       failed[a] # <<>> => now - failed[a][Len(failed[a])] > ForgetAfter

\* One more failure, of an address that is remembered or of one that is not.
LEMMA OneMore ==
  ASSUME NEW t \in Nat, NEW times \in Seq(Nat)
  PROVE  LET more == Append(times, t) IN
         /\ more \in Seq(Nat) /\ more # <<>>
         /\ Len(times) \in Nat /\ DOMAIN times = 1 .. Len(times)
         /\ Len(more) = Len(times) + 1 /\ DOMAIN more = 1 .. Len(times) + 1
         /\ more[Len(times) + 1] = t /\ \A i \in 1 .. Len(times) : more[i] = times[i] /\ times[i] \in Nat
OBVIOUS

\* The new entry counts the failure with those before it, or alone.
LEMMA NewCounted ==
  ASSUME NEW t \in Nat, NEW times \in Seq(Nat), NEW old, NEW new,
         \/ Counted(old, times) /\ t - old.seenAt <= ForgetAfter
         \/ /\ old = Fresh
            /\ times # <<>> => t - times[Len(times)] > ForgetAfter,
         new.failures = old.failures + 1, new.seenAt = t,
         new.blockedUntil = IF OverAllowance(old.failures + 1)
                            THEN t + Delay(old.failures + 1) ELSE old.blockedUntil
  PROVE  Counted(new, Append(times, t))
<1> DEFINE more == Append(times, t)
           n == old.failures + 1
           l == Len(times)
<1>1. /\ l \in Nat /\ Len(more) = l + 1 /\ more[l + 1] = t
      /\ \A i \in 1 .. l : more[i] = times[i] /\ times[i] \in Nat
  BY OneMore
<1>2. FreeAttempts \in Nat /\ ForgetAfter \in Nat
  BY SignInAssumption
<1>3. new.failures = n /\ new.seenAt = t
      /\ new.blockedUntil = IF n > FreeAttempts THEN t + Delay(n) ELSE old.blockedUntil
  BY DEF OverAllowance
<1>4. CASE Counted(old, times) /\ t - old.seenAt <= ForgetAfter
  <2>1. /\ old.failures \in 1 .. l /\ old.seenAt = times[l]
        /\ \A i \in l - old.failures + 1 .. l - 1 : times[i + 1] - times[i] <= ForgetAfter
        /\ old.failures < l =>
             times[l - old.failures + 1] - times[l - old.failures] > ForgetAfter
        /\ old.blockedUntil =
             IF old.failures > FreeAttempts THEN old.seenAt + Delay(old.failures) ELSE 0
    BY <1>4 DEF Counted
  <2> HIDE DEF l, more
  <2>2. n \in 1 .. l + 1 /\ n \in Nat
    BY <1>1, <2>1
  <2>3. ASSUME NEW i \in (l + 1) - n + 1 .. (l + 1) - 1
        PROVE  more[i + 1] - more[i] <= ForgetAfter
    <3>1. i \in 1 .. l /\ i >= l - old.failures + 1
      BY <1>1, <2>1, <2>3
    <3>2. CASE i = l
      BY <1>1, <1>2, <1>4, <2>1, <3>1, <3>2
    <3>3. CASE i # l
      <4>1. i \in l - old.failures + 1 .. l - 1 /\ i + 1 \in 1 .. l
        BY <1>1, <2>1, <3>1, <3>3
      <4>2. QED
        BY <1>1, <2>1, <3>1, <4>1
    <3>4. QED
      BY <3>2, <3>3
  <2>4. n < l + 1 => more[(l + 1) - n + 1] - more[(l + 1) - n] > ForgetAfter
    <3> DEFINE g == old.failures
    <3>1. g \in 1 .. l /\ n = g + 1
      BY <2>1
    <3>2. g < l => times[l - g + 1] - times[l - g] > ForgetAfter
      BY <2>1
    <3> HIDE DEF g, n
    <3>3. (l + 1) - n = l - g /\ (n < l + 1 => g < l)
      BY <1>1, <3>1
    <3>4. g < l => l - g \in 1 .. l /\ l - g + 1 \in 1 .. l
      BY <1>1, <3>1
    <3>5. QED
      BY <1>1, <3>2, <3>3, <3>4
  <2>5. new.blockedUntil = IF n > FreeAttempts THEN t + Delay(n) ELSE 0
    BY <1>2, <1>3, <2>1
  <2> HIDE DEF n
  <2>6. QED
    BY <1>1, <1>3, <2>2, <2>3, <2>4, <2>5 DEF Counted, more
<1>5. CASE old = Fresh /\ (times # <<>> => t - times[l] > ForgetAfter)
  <2>1. n = 1 /\ old.blockedUntil = 0
    BY <1>5 DEF Fresh
  <2>2. l >= 1 => t - times[l] > ForgetAfter
    BY <1>5
  <2> HIDE DEF n, l, more
  <2>3. n \in 1 .. l + 1 /\ (l + 1) - n + 1 .. (l + 1) - 1 = {}
    BY <1>1, <2>1
  <2>4. n < l + 1 => more[(l + 1) - n + 1] - more[(l + 1) - n] > ForgetAfter
    <3>1. (l + 1) - n = l
      BY <1>1, <2>1
    <3>2. l >= 1 => l \in 1 .. l
      BY <1>1
    <3>3. QED
      BY <1>1, <2>1, <2>2, <3>1, <3>2
  <2>5. QED
    BY <1>1, <1>3, <2>1, <2>3, <2>4 DEF Counted, more
<1>6. QED
  BY <1>4, <1>5

\* It comes after the waits of the failures before it, which were waited out.
LEMMA NewSpaced ==
  ASSUME NEW t \in Nat, NEW times \in Seq(Nat), Spaced(times),
         \A i \in DOMAIN times : times[i] <= t,
         \/ times = <<>>
         \/ t - times[Len(times)] > ForgetAfter
         \/ \E entry : Counted(entry, times) /\ entry.blockedUntil <= t
  PROVE  Spaced(Append(times, t))
<1> DEFINE more == Append(times, t)
           l == Len(times)
<1>1. /\ more \in Seq(Nat) /\ l \in Nat /\ DOMAIN times = 1 .. l
      /\ Len(more) = l + 1 /\ DOMAIN more = 1 .. l + 1 /\ more[l + 1] = t
      /\ \A i \in 1 .. l : more[i] = times[i] /\ times[i] \in Nat
  BY OneMore
<1>2. FreeAttempts \in Nat /\ ForgetAfter \in Nat
  BY SignInAssumption
<1>3. times # <<>> <=> l >= 1
  OBVIOUS
<1> HIDE DEF more, l
<1>4. \A i \in 1 .. l + 1 : more[i] \in Nat /\ (i # l + 1 => i \in 1 .. l)
  BY <1>1
<1>5. ASSUME NEW i \in DOMAIN more, NEW j \in DOMAIN more, i <= j PROVE more[i] <= more[j]
  <2>1. CASE j = l + 1
    BY <1>1, <1>4, <1>5, <2>1
  <2>2. CASE j # l + 1
    BY <1>1, <1>4, <1>5, <2>2 DEF Spaced
  <2>3. QED
    BY <2>1, <2>2
<1>6. ASSUME NEW i \in DOMAIN more, NEW j \in DOMAIN more,
             i <= j, j - i >= FreeAttempts, Unbroken(more, i, j)
      PROVE  more[j] - more[i] >= Waited[j - i - FreeAttempts]
  <2>1. i \in 1 .. l + 1 /\ j \in 1 .. l + 1
    BY <1>1
  <2>2. CASE j # l + 1
    <3>1. i \in 1 .. l /\ j \in 1 .. l /\ more[i] = times[i] /\ more[j] = times[j]
      BY <1>1, <1>6, <2>1, <2>2
    <3>2. Unbroken(times, i, j)
      <4>1. ASSUME NEW k \in i .. j - 1 PROVE times[k + 1] - times[k] <= ForgetAfter
        <5>1. k \in 1 .. l /\ k + 1 \in 1 .. l
          BY <1>1, <3>1
        <5>2. QED
          BY <1>1, <1>6, <5>1 DEF Unbroken
      <4>2. QED
        BY <4>1 DEF Unbroken
    <3>3. QED
      BY <1>1, <1>6, <3>1, <3>2 DEF Spaced
  <2>3. CASE j = l + 1 /\ j - i = FreeAttempts
    <3>1. j - i - FreeAttempts = 0 /\ more[i] <= more[j] /\ more[i] \in Nat /\ more[j] \in Nat
      BY <1>2, <1>4, <1>5, <1>6, <2>1, <2>3
    <3>2. Waited[0] = 0
      BY WaitedAddsUp
    <3>3. QED
      BY <3>1, <3>2
  <2>4. CASE j = l + 1 /\ j - i > FreeAttempts
    <3>1. i \in 1 .. l /\ l \in 1 .. l /\ i <= l /\ l - i >= FreeAttempts
          /\ more[i] = times[i] /\ more[l] = times[l] /\ more[j] = t
      BY <1>1, <1>2, <2>1, <2>4
    <3>2. Unbroken(times, i, l) /\ t - times[l] <= ForgetAfter
      <4>1. ASSUME NEW k \in i .. l - 1 PROVE times[k + 1] - times[k] <= ForgetAfter
        <5>1. k \in 1 .. l /\ k + 1 \in 1 .. l /\ k \in i .. j - 1
          BY <1>1, <2>4, <3>1
        <5>2. QED
          BY <1>1, <1>6, <5>1 DEF Unbroken
      <4>2. l \in i .. j - 1
        BY <1>1, <2>4, <3>1
      <4>3. more[l + 1] - more[l] <= ForgetAfter
        BY <1>6, <4>2 DEF Unbroken
      <4>4. QED
        BY <1>1, <3>1, <4>1, <4>3 DEF Unbroken
    <3>3. times[l] - times[i] >= Waited[l - i - FreeAttempts]
      BY <1>1, <3>1, <3>2 DEF Spaced
    <3>4. PICK entry : Counted(entry, times) /\ entry.blockedUntil <= t
      BY <1>1, <1>2, <1>3, <3>1, <3>2 DEF l
    <3>5. /\ entry.failures \in 1 .. l /\ entry.seenAt = times[l]
          /\ entry.failures < l =>
               times[l - entry.failures + 1] - times[l - entry.failures] > ForgetAfter
          /\ entry.blockedUntil =
               IF entry.failures > FreeAttempts THEN times[l] + Delay(entry.failures) ELSE 0
      BY <3>4 DEF Counted, l
    <3>6. entry.failures >= l - i + 1
      <4>1. SUFFICES ASSUME entry.failures < l - i + 1 PROVE FALSE
        BY <1>1, <3>1, <3>5
      <4> DEFINE g == entry.failures
                 k == l - g
      <4>0. g \in 1 .. l /\ g < l - i + 1
        BY <3>5, <4>1
      <4> HIDE DEF g
      <4>2. k \in i .. l - 1 /\ g < l /\ k \in 1 .. l /\ k + 1 \in 1 .. l
        BY <1>1, <3>1, <4>0
      <4>3. times[k + 1] - times[k] > ForgetAfter
        BY <3>5, <4>2 DEF g
      <4> HIDE DEF k
      <4>4. times[k + 1] - times[k] <= ForgetAfter
        BY <3>2, <4>2 DEF Unbroken
      <4>5. QED
        BY <1>1, <1>2, <4>2, <4>3, <4>4
    <3> DEFINE m == l - i - FreeAttempts
               f == entry.failures
               a == FreeAttempts
    <3>7. /\ m \in Nat /\ f \in Nat /\ f > FreeAttempts /\ j - i - FreeAttempts = m + 1
          /\ m <= f - FreeAttempts - 1
      <4>1. /\ f \in Nat /\ f >= l - i + 1
            /\ i \in Nat /\ l \in Nat /\ a \in Nat /\ l - i >= a /\ j = l + 1
        BY <1>1, <1>2, <2>4, <3>1, <3>5, <3>6
      <4> HIDE DEF f, a
      <4>2. m = l - i - a
        BY DEF a
      <4> HIDE DEF m
      <4>3. m \in Nat /\ f > a /\ j - i - a = m + 1 /\ m <= f - a - 1
        BY <4>1, <4>2
      <4>4. QED
        BY <4>1, <4>3 DEF a
    <3> HIDE DEF f, m, a
    <3>8. /\ f - FreeAttempts - 1 \in Nat /\ Delay(f) = Delays[f - FreeAttempts - 1]
          /\ Delay(f) \in Nat
      <4>1. Delay(f) \in 1 .. MaxDelay /\ MaxDelay \in Nat
        BY <3>7, DelayIsCapped, SignInAssumption
      <4>2. QED
        BY <3>7, <4>1, DelayIsCapped
    <3>9. m <= f - FreeAttempts - 1
      BY <3>7
    <3>10. Delays[m] <= Delay(f) /\ Delays[m] \in Nat
      <4> DEFINE g == f - FreeAttempts - 1
      <4>1. m \in Nat /\ g \in Nat /\ m <= g
        BY <3>7, <3>8, <3>9
      <4> HIDE DEF g
      <4>2. Delays[m] <= Delays[g]
        BY <4>1, DelaysAscend
      <4>3. Delays[m] \in Nat
        <5>1. Delays[m] \in 1 .. MaxDelay /\ MaxDelay \in Nat
          BY <4>1, DelaysGrow, SignInAssumption
        <5>2. QED
          BY <5>1
      <4>4. QED
        BY <3>8, <4>2, <4>3 DEF g
    <3>11. times[l] + Delay(f) <= t
      BY <3>4, <3>5, <3>7 DEF f
    <3>12. Waited[m + 1] = Waited[m] + Delays[m] /\ Waited[m] \in Nat
      BY <3>7, WaitedAddsUp
    <3>13. times[l] - times[i] >= Waited[m]
      BY <3>3 DEF m
    <3>14. times[l] \in Nat /\ times[i] \in Nat
      BY <1>1, <3>1
    <3>15. t - times[i] >= Waited[m + 1]
      <4> HIDE DEF m
      <4> DEFINE d == Delays[m]
                 c == Delay(f)
                 w == Waited[m]
                 x == times[l]
                 y == times[i]
      <4>1. /\ d \in Nat /\ c \in Nat /\ w \in Nat /\ x \in Nat /\ y \in Nat
            /\ d <= c /\ x + c <= t /\ x - y >= w /\ Waited[m + 1] = w + d
        BY <3>8, <3>10, <3>11, <3>12, <3>13, <3>14
      <4> HIDE DEF d, c, w, x, y
      <4>2. t - y >= w + d
        BY <4>1
      <4>3. QED
        BY <4>1, <4>2 DEF y
    <3>16. QED
      BY <3>1, <3>7, <3>15
  <2>5. \/ j # l + 1
        \/ j = l + 1 /\ j - i = FreeAttempts
        \/ j = l + 1 /\ j - i > FreeAttempts
    BY <1>1, <1>2, <1>6, <2>1
  <2>6. QED
    BY <2>2, <2>3, <2>4, <2>5
<1>7. QED
  BY <1>5, <1>6 DEF Spaced, more

\* recordFailure, from a handler that turned nobody away who need not wait.
LEMMA FailureCounted ==
  ASSUME ThrottleInv, NEW a \in Addresses, Wait(a) = 0, RecordFailure(a), now' = now
  PROVE  ThrottleInv'
<1> DEFINE kept == {x \in DOMAIN entries : Remembers(entries[x])}
           old == IF a \in kept THEN entries[a] ELSE Fresh
           n == old.failures + 1
           new == [failures |-> n, seenAt |-> now,
                   blockedUntil |-> IF OverAllowance(n) THEN now + Delay(n) ELSE old.blockedUntil]
           times == failed[a]
           more == Append(times, now)
<1>1. entries' = [x \in kept \cup {a} |-> IF x = a THEN new ELSE entries[x]]
  BY DEF RecordFailure
<1>2. failed' = [failed EXCEPT ![a] = more]
  BY DEF RecordFailure
<1>3. /\ now \in Nat /\ ForgetAfter \in Nat /\ times \in Seq(Nat) /\ kept \subseteq Addresses
      /\ FreeAttempts \in Nat
  BY SignInAssumption DEF ThrottleInv
<1>4. \A x \in DOMAIN entries : entries[x].seenAt = failed[x][Len(failed[x])]
                             /\ failed[x][Len(failed[x])] \in Nat /\ failed[x] # <<>>
  <2>1. ASSUME NEW x \in DOMAIN entries
        PROVE  /\ entries[x].seenAt = failed[x][Len(failed[x])]
               /\ failed[x][Len(failed[x])] \in Nat /\ failed[x] # <<>>
    <3>1. failed[x] \in Seq(Nat) /\ Counted(entries[x], failed[x])
      BY DEF ThrottleInv
    <3>2. QED
      BY <3>1 DEF Counted
  <2>2. QED
    BY <2>1
<1>5. \A x \in DOMAIN entries \ kept : now - failed[x][Len(failed[x])] > ForgetAfter
  BY <1>3, <1>4 DEF Remembers
<1>6. \/ Counted(old, times) /\ now - old.seenAt <= ForgetAfter
      \/ old = Fresh /\ (times # <<>> => now - times[Len(times)] > ForgetAfter)
  <2>1. CASE a \in kept
    <3>1. old = entries[a] /\ Counted(entries[a], times) /\ Remembers(entries[a])
      BY <2>1 DEF ThrottleInv
    <3>2. now - entries[a].seenAt <= ForgetAfter
      BY <1>3, <1>4, <2>1, <3>1 DEF Remembers
    <3>3. QED
      BY <3>1, <3>2
  <2>2. CASE a \notin kept
    BY <1>5, <2>2 DEF ThrottleInv
  <2>3. QED
    BY <2>1, <2>2
<1>7. Counted(new, more)
  <2>1. new.failures = old.failures + 1 /\ new.seenAt = now
        /\ new.blockedUntil = IF OverAllowance(old.failures + 1)
                              THEN now + Delay(old.failures + 1) ELSE old.blockedUntil
    OBVIOUS
  <2> HIDE DEF new, old, times
  <2>2. QED
    BY <1>3, <1>6, <2>1, NewCounted
<1>8. Spaced(more)
  <2>1. CASE a \in DOMAIN entries
    <3>1. Counted(entries[a], times)
      BY <2>1 DEF ThrottleInv
    <3>2. entries[a].blockedUntil \in Int
      <4>1. entries[a].failures \in Nat /\ entries[a].seenAt \in Nat
        BY <1>3, <1>4, <2>1, <3>1 DEF Counted
      <4>2. entries[a].failures > FreeAttempts => Delay(entries[a].failures) \in Int
        BY <4>1, DelayIsCapped
      <4>3. QED
        BY <3>1, <4>1, <4>2 DEF Counted
    <3>3. entries[a].blockedUntil <= now
      BY <1>3, <2>1, <3>2 DEF Wait
    <3> HIDE DEF times
    <3>4. Spaced(times) /\ \A i \in DOMAIN times : times[i] <= now
      BY DEF ThrottleInv, times
    <3>5. QED
      BY <1>3, <3>1, <3>3, <3>4, NewSpaced
  <2>2. CASE a \notin DOMAIN entries
    <3>1. times = <<>> \/ now - times[Len(times)] > ForgetAfter
      BY <2>2 DEF ThrottleInv
    <3>2. Spaced(times) /\ \A i \in DOMAIN times : times[i] <= now
      BY DEF ThrottleInv
    <3> HIDE DEF times
    <3>3. QED
      BY <1>3, <3>1, <3>2, NewSpaced
  <2>3. QED
    BY <2>1, <2>2
<1>9. more \in Seq(Nat) /\ \A i \in DOMAIN more : more[i] <= now
  <2>1. \A i \in DOMAIN times : times[i] <= now
    BY DEF ThrottleInv
  <2> HIDE DEF times
  <2>2. /\ more \in Seq(Nat) /\ Len(times) \in Nat /\ DOMAIN times = 1 .. Len(times)
        /\ DOMAIN more = 1 .. Len(times) + 1 /\ more[Len(times) + 1] = now
        /\ \A i \in 1 .. Len(times) : more[i] = times[i]
    BY <1>3, OneMore
  <2> HIDE DEF more
  <2>3. QED
    BY <1>3, <2>1, <2>2
<1> HIDE DEF new, more, times, kept, old
<1>10. \A x \in Addresses : failed'[x] = IF x = a THEN more ELSE failed[x]
  BY <1>2 DEF ThrottleInv
<1>11. DOMAIN entries' = kept \cup {a} /\ entries'[a] = new
       /\ \A x \in kept \ {a} : entries'[x] = entries[x]
  BY <1>1
<1>12. \A x \in DOMAIN entries' : Counted(entries'[x], failed'[x])
  <2>1. ASSUME NEW x \in kept \ {a} PROVE Counted(entries'[x], failed'[x])
    BY <1>3, <1>10, <1>11 DEF ThrottleInv, kept
  <2>2. Counted(entries'[a], failed'[a])
    BY <1>7, <1>10, <1>11
  <2>3. QED
    BY <1>11, <2>1, <2>2
<1>13. \A x \in Addresses : Spaced(failed'[x]) /\ \A i \in DOMAIN failed'[x] : failed'[x][i] <= now
  BY <1>8, <1>9, <1>10 DEF ThrottleInv
<1>14. ASSUME NEW x \in Addresses \ DOMAIN entries', failed'[x] # <<>>
       PROVE  now - failed'[x][Len(failed'[x])] > ForgetAfter
  <2>1. x # a /\ x \notin kept /\ failed'[x] = failed[x]
    BY <1>10, <1>11
  <2>2. CASE x \in DOMAIN entries
    BY <1>5, <2>1, <2>2
  <2>3. CASE x \notin DOMAIN entries
    BY <1>14, <2>1, <2>3 DEF ThrottleInv
  <2>4. QED
    BY <2>2, <2>3
<1>15. failed' \in [Addresses -> Seq(Nat)]
  BY <1>2, <1>9 DEF ThrottleInv
<1>16. QED
  BY <1>3, <1>11, <1>12, <1>13, <1>14, <1>15 DEF ThrottleInv

\* An address that has not failed, or not since it was let in.
LEMMA NeverFailed == Spaced(<<>>) /\ <<>> \in Seq(Nat)
BY DEF Spaced

\* An address let in starts again.
LEMMA ClearCounted ==
  ASSUME ThrottleInv, NEW a \in Addresses, Clear(a), now' = now
  PROVE  ThrottleInv'
<1>1. DOMAIN entries' = DOMAIN entries \ {a}
      /\ \A x \in DOMAIN entries \ {a} : entries'[x] = entries[x]
  BY DEF Clear
<1>2. failed' \in [Addresses -> Seq(Nat)] /\ failed'[a] = <<>>
      /\ \A x \in Addresses \ {a} : failed'[x] = failed[x]
  BY NeverFailed DEF Clear, ThrottleInv
<1>3. \A x \in DOMAIN entries' : Counted(entries'[x], failed'[x])
  BY <1>1, <1>2 DEF ThrottleInv
<1>4. \A x \in Addresses : Spaced(failed'[x]) /\ \A i \in DOMAIN failed'[x] : failed'[x][i] <= now'
  <2>1. ASSUME NEW x \in Addresses \ {a}
        PROVE  Spaced(failed'[x]) /\ \A i \in DOMAIN failed'[x] : failed'[x][i] <= now'
    BY <1>2 DEF ThrottleInv
  <2>2. Spaced(failed'[a]) /\ DOMAIN failed'[a] = {}
    BY <1>2, NeverFailed
  <2>3. QED
    BY <2>1, <2>2
<1>5. \A x \in Addresses \ DOMAIN entries' :
        failed'[x] # <<>> => now' - failed'[x][Len(failed'[x])] > ForgetAfter
  <2>1. ASSUME NEW x \in Addresses \ DOMAIN entries', x # a
        PROVE  failed'[x] # <<>> => now' - failed'[x][Len(failed'[x])] > ForgetAfter
    BY <1>1, <1>2, <2>1 DEF ThrottleInv
  <2>2. QED
    BY <1>2, <2>1
<1>6. now' \in Nat /\ DOMAIN entries' \subseteq Addresses
  BY <1>1 DEF ThrottleInv
<1>7. QED
  BY <1>2, <1>3, <1>4, <1>5, <1>6 DEF ThrottleInv

LEMMA ThrottleStep ==
  ASSUME ThrottleInv, [Next]_vars
  PROVE  ThrottleInv'
<1>1. \A b \in Browsers : Address[b] \in Addresses
  BY DEF Addresses
<1>2. ASSUME NEW b \in Browsers, CodeGuessed(b) PROVE ThrottleInv'
  BY <1>1, <1>2, FailureCounted DEF CodeGuessed
<1>3. ASSUME NEW b \in Browsers, NEW password \in Passwords, Login(b, password)
      PROVE  ThrottleInv'
  BY <1>1, <1>3, FailureCounted, ClearCounted DEF Login
<1>4. CASE Restart
  <2>1. /\ DOMAIN entries' = {} /\ failed' \in [Addresses -> Seq(Nat)] /\ now' = now
        /\ \A a \in Addresses : failed'[a] = <<>>
    BY <1>4, NeverFailed DEF Restart
  <2>2. QED
    BY <2>1, NeverFailed DEF ThrottleInv
<1>5. CASE Tick
  <2>1. /\ now \in Nat /\ now' = now + 1 /\ UNCHANGED <<entries, failed>> /\ ForgetAfter \in Nat
    BY <1>5, SignInAssumption DEF Tick, ThrottleInv
  <2>2. \A a \in Addresses : \A i \in DOMAIN failed[a] : failed[a][i] \in Nat
    BY DEF ThrottleInv
  <2>3. ASSUME NEW a \in Addresses PROVE \A i \in DOMAIN failed[a] : failed[a][i] <= now + 1
    BY <2>1, <2>2 DEF ThrottleInv
  <2>4. ASSUME NEW a \in Addresses \ DOMAIN entries, failed[a] # <<>>
        PROVE  (now + 1) - failed[a][Len(failed[a])] > ForgetAfter
    <3>1. failed[a] \in Seq(Nat) /\ failed[a][Len(failed[a])] \in Nat
      BY <2>4 DEF ThrottleInv
    <3>2. QED
      BY <2>1, <2>4, <3>1 DEF ThrottleInv
  <2>5. QED
    BY <2>1, <2>3, <2>4 DEF ThrottleInv
<1>6. ASSUME UNCHANGED <<now, entries, failed>> PROVE ThrottleInv'
  BY <1>6 DEF ThrottleInv
<1>7. ASSUME NEW b \in Browsers,
             \/ ClaimSetup(b) \/ Visit(b) \/ Logout(b)
             \/ \E password \in Passwords :
                  CompleteSetup(b, password) \/ ChangePassword(b, password)
      PROVE  UNCHANGED <<now, entries, failed>>
  BY <1>7 DEF ClaimSetup, Visit, Logout, CompleteSetup, ChangePassword
<1>8. PruneSessions \/ UNCHANGED vars => UNCHANGED <<now, entries, failed>>
  BY DEF PruneSessions, vars
<1>9. QED
  BY <1>2, <1>3, <1>4, <1>5, <1>6, <1>7, <1>8 DEF Next

LEMMA InitThrottle == Init => ThrottleInv
<1> SUFFICES ASSUME Init PROVE ThrottleInv
  OBVIOUS
<1>1. /\ DOMAIN entries = {} /\ failed \in [Addresses -> Seq(Nat)] /\ now = 0
      /\ \A a \in Addresses : failed[a] = <<>>
  BY NeverFailed DEF Init
<1>2. QED
  BY <1>1, NeverFailed DEF ThrottleInv

LEMMA WaitEarned == ThrottleInv => WaitsAreEarned
<1> SUFFICES ASSUME ThrottleInv, NEW a \in Addresses, Wait(a) > 0
             PROVE  LET n == Len(failed[a]) IN
                    /\ n > FreeAttempts /\ now + Wait(a) <= failed[a][n] + MaxDelay
                    /\ \A i \in n - FreeAttempts .. n - 1 :
                         failed[a][i + 1] - failed[a][i] <= ForgetAfter
  BY DEF WaitsAreEarned
<1> DEFINE n == Len(failed[a])
           e == entries[a]
<1>1. /\ now \in Nat /\ FreeAttempts \in Nat /\ MaxDelay \in Nat /\ ForgetAfter \in Nat
      /\ n \in Nat
  BY SignInAssumption DEF ThrottleInv
<1>2. a \in DOMAIN entries /\ e.blockedUntil > now /\ Wait(a) = e.blockedUntil - now
  BY <1>1 DEF Wait
<1>3. /\ e.failures \in 1 .. n /\ e.seenAt = failed[a][n]
      /\ \A i \in n - e.failures + 1 .. n - 1 : failed[a][i + 1] - failed[a][i] <= ForgetAfter
      /\ e.blockedUntil =
           IF e.failures > FreeAttempts THEN failed[a][n] + Delay(e.failures) ELSE 0
  BY <1>2 DEF ThrottleInv, Counted
<1>4. failed[a][n] \in Nat
  BY <1>3 DEF ThrottleInv
<1> HIDE DEF e, n
<1>5. e.failures > FreeAttempts
  BY <1>1, <1>2, <1>3
<1>6. Delay(e.failures) \in 1 .. MaxDelay
  BY <1>1, <1>3, <1>5, DelayIsCapped
<1>7. now + Wait(a) <= failed[a][n] + MaxDelay
  BY <1>1, <1>2, <1>3, <1>4, <1>5, <1>6
<1>8. \A i \in n - FreeAttempts .. n - 1 : i \in n - e.failures + 1 .. n - 1
  BY <1>1, <1>3, <1>5
<1>9. n > FreeAttempts
  BY <1>1, <1>3, <1>5
<1>10. QED
  BY <1>3, <1>7, <1>8, <1>9 DEF n

\* The waits that fit into the time remembered, and one more, do not fit.
LEMMA OneWaitTooMany ==
  LET m == Cardinality({n \in 1 .. ForgetAfter : Waited[n] <= ForgetAfter}) IN
  m \in Nat /\ Waited[m + 1] > ForgetAfter
<1> DEFINE Fits == {n \in 1 .. ForgetAfter : Waited[n] <= ForgetAfter}
           m == Cardinality(Fits)
<1>1. ForgetAfter \in Nat
  BY SignInAssumption
<1>2. IsFiniteSet(Fits)
  <2>1. IsFiniteSet(1 .. ForgetAfter) /\ Fits \subseteq 1 .. ForgetAfter
    BY <1>1, FS_Interval
  <2> HIDE DEF Fits
  <2>2. QED
    BY <2>1, FS_Subset
<1>3. m \in Nat
  <2> HIDE DEF Fits
  <2>1. QED
    BY <1>2, FS_CardinalityType
<1> HIDE DEF m
<1>4. ASSUME Waited[m + 1] <= ForgetAfter PROVE FALSE
  <2>1. m + 1 \in Nat /\ Waited[m + 1] >= m + 1 /\ Waited[m + 1] \in Nat
    BY <1>3, WaitedAddsUp
  <2> DEFINE Below == {k \in Nat : k <= m + 1 => Waited[(m + 1) - k] <= ForgetAfter}
  <2>2. 0 \in Below
    BY <1>3, <1>4
  <2>3. ASSUME NEW k \in Below PROVE k + 1 \in Below
    <3>1. SUFFICES ASSUME k + 1 <= m + 1 PROVE Waited[(m + 1) - (k + 1)] <= ForgetAfter
      OBVIOUS
    <3>2. (m + 1) - (k + 1) \in Nat /\ (m + 1) - k = ((m + 1) - (k + 1)) + 1
          /\ (m + 1) - k \in Nat /\ Waited[(m + 1) - k] <= ForgetAfter
      BY <1>3, <3>1
    <3> DEFINE w == (m + 1) - (k + 1)
    <3>3. Waited[w] <= Waited[w + 1] /\ Waited[w] \in Nat /\ Waited[w + 1] \in Nat
      BY <3>2, WaitedAddsUp
    <3>4. Waited[w + 1] <= ForgetAfter
      BY <3>2
    <3>5. QED
      BY <1>1, <3>3, <3>4
  <2> HIDE DEF Below
  <2>4. Below = Nat
    BY <2>2, <2>3, SetInduction DEF Below
  <2>5. ASSUME NEW n \in 1 .. m + 1 PROVE n \in Fits
    <3>1. (m + 1) - n \in Nat /\ (m + 1) - n <= m + 1 /\ (m + 1) - ((m + 1) - n) = n
      BY <1>3
    <3>2. Waited[n] <= ForgetAfter
      BY <2>4, <3>1 DEF Below
    <3>3. n \in Nat /\ n <= ForgetAfter
      BY <1>1, <1>3, <1>4, <2>1
    <3>4. QED
      BY <1>1, <3>2, <3>3
  <2>6. 1 .. m + 1 \subseteq Fits
    BY <2>5
  <2> HIDE DEF Fits
  <2>7. Cardinality(1 .. m + 1) = m + 1
    BY <1>3, <2>1, FS_Interval
  <2>8. Cardinality(1 .. m + 1) <= Cardinality(Fits)
    BY <1>2, <2>6, FS_Subset
  <2>9. QED
    BY <1>3, <2>7, <2>8 DEF m
<1>5. QED
  <2>1. Waited[m + 1] \in Nat
    BY <1>3, WaitedAddsUp
  <2>2. Waited[m + 1] > ForgetAfter
    BY <1>1, <1>4, <2>1
  <2>3. QED
    BY <1>3, <2>2 DEF m

LEMMA GuessesBounded == ThrottleInv => GuessesAreBounded
<1> SUFFICES ASSUME ThrottleInv, NEW a \in Addresses, NEW i \in DOMAIN failed[a],
                     i + Allowance \in DOMAIN failed[a]
              PROVE  failed[a][i + Allowance] - failed[a][i] > ForgetAfter
  BY DEF GuessesAreBounded
<1> DEFINE m == Cardinality({n \in 1 .. ForgetAfter : Waited[n] <= ForgetAfter})
<1>1. m \in Nat /\ Waited[m + 1] > ForgetAfter
  BY OneWaitTooMany
<1>2. Allowance = FreeAttempts + 1 + m
  BY DEF Allowance
<1>3. FreeAttempts \in Nat /\ ForgetAfter \in Nat
  BY SignInAssumption
<1> HIDE DEF m
<1> DEFINE times == failed[a]
           j == i + Allowance
<1>5. times \in Seq(Nat) /\ Spaced(times)
  BY DEF ThrottleInv
<1>6. i \in Nat /\ j \in Nat /\ i \in DOMAIN times /\ j \in DOMAIN times /\ i <= j
      /\ j - i = FreeAttempts + 1 + m
  BY <1>1, <1>2, <1>3, <1>5
<1>4. PICK len \in Nat : DOMAIN times = 1 .. len
  BY <1>5
<1>7. ASSUME NEW k \in i .. j - 1
      PROVE  k \in DOMAIN times /\ k + 1 \in DOMAIN times /\ i <= k /\ k + 1 <= j
  <2> HIDE DEF times, j
  <2>1. i >= 1 /\ j <= len
    BY <1>6, <1>4
  <2>2. k \in Int /\ i <= k /\ k <= j - 1
    BY <1>6
  <2>3. k \in 1 .. len /\ k + 1 \in 1 .. len /\ k + 1 <= j
    BY <1>6, <2>1, <2>2
  <2>4. QED
    BY <1>4, <2>2, <2>3
<1>8. times[i] \in Nat /\ times[j] \in Nat
  BY <1>5, <1>6
<1> HIDE DEF times, j
<1>9. ASSUME times[j] - times[i] <= ForgetAfter PROVE FALSE
  <2>1. Unbroken(times, i, j)
    <3>1. ASSUME NEW k \in i .. j - 1 PROVE times[k + 1] - times[k] <= ForgetAfter
      <4>1. k \in DOMAIN times /\ k + 1 \in DOMAIN times /\ i <= k /\ k + 1 <= j
        BY <1>7
      <4>2. times[i] <= times[k] /\ times[k + 1] <= times[j]
        BY <1>5, <1>6, <4>1 DEF Spaced
      <4>3. times[k] \in Nat /\ times[k + 1] \in Nat
        BY <1>5, <4>1
      <4>4. QED
        BY <1>3, <1>8, <1>9, <4>2, <4>3
    <3>2. QED
      BY <3>1 DEF Unbroken
  <2>2. j - i >= FreeAttempts /\ j - i - FreeAttempts = m + 1
    BY <1>1, <1>3, <1>6
  <2>3. times[j] - times[i] >= Waited[m + 1]
    BY <1>5, <1>6, <2>1, <2>2 DEF Spaced
  <2>4. Waited[m + 1] \in Nat
    BY <1>1, WaitedAddsUp
  <2>5. QED
    BY <1>1, <1>3, <1>8, <1>9, <2>3, <2>4
<1>10. times[j] - times[i] > ForgetAfter
  BY <1>3, <1>8, <1>9
<1>11. QED
  BY <1>10 DEF times, j

\* Guessing is bounded and a slip forgiven, whatever the delays and the clock: an
\* address is heard with no more wrong passwords than the free ones, the one that
\* starts the waiting and one for each wait that fits into the time remembered;
\* and nobody waits who has not used up the free attempts within that time.
THEOREM ThrottleFair == Spec => []ThrottleIsFair
<1>1. ThrottleInv => ThrottleIsFair
  BY WaitEarned, GuessesBounded DEF ThrottleIsFair
<1>2. QED
  BY InitThrottle, ThrottleStep, <1>1, PTL DEF Spec

--------------------------------------------------------------------------------
(***************************************************************************)
(* Keys: the invariant.                                                    *)
(***************************************************************************)
Rotating == {"truncate", "install", "reseal", "untruncate", "restore"}

\* Every key there is has been counted: the next one is new.
MadeInv ==
  /\ file <= made
  /\ \A p \in Processes : cached[p] <= made /\ own[p] <= made /\ previous[p] <= made

\* Where an operation stands says what it has read: the key file is asked only
\* without BUTLER_SECRET, one process alone fills it, the secret is there from
\* "secret" on, and the server alone rotates.
StepsInv ==
  /\ env = NoKey /\ file = NoFile => \A p \in Processes : cached[p] = NoKey
  /\ env = NoKey => \A p \in Processes : cached[p] \in Key \cup {NoKey}
  /\ \A p \in Processes :
       /\ at[p] \in {"read", "create", "fill"} => env = NoKey
       /\ at[p] \in {"create", "fill"} => own[p] \in Key
       /\ at[p] = "fill" => file # NoFile /\ \A q \in Processes : at[q] = "fill" => q = p
       /\ at[p] \in {"secret"} \cup Rotating => cached[p] # NoKey
       /\ at[p] \in Rotating \/ op[p] = "rotate" => p = Server

\* While nothing has parted them the row fits the key and the server knows it; a
\* process that fills a new file finds no row sealed under another key, and a
\* server that reseals has installed the key it reseals under.
FitInv ==
  loss = {} =>
    /\ AllSettled => /\ row \in Secrets => row = InForce
                     /\ cached[Server] \in {NoKey, InForce}
    /\ \A p \in Processes : at[p] = "fill" =>
         file = Empty /\ row \notin Secrets /\ cached[Server] = NoKey
    /\ at[Server] \in {"reseal", "untruncate"} => file = own[Server] /\ cached[Server] = own[Server]

\* A key that seals something has been in the file, unless processes crossed; so has
\* the key a rotation is about to reseal under.
FiledInv ==
  /\ file \in Key => file \in filed
  /\ row \in Key => row \in filed \/ "crossed" \in loss
  /\ \A p \in Processes : at[p] = "reseal" => own[p] \in filed

KeyInv == KeyTypeOK /\ MadeInv /\ StepsInv /\ FitInv /\ FiledInv

\* The values a variable holds are numbers: names for them only get in the way.
USE DEF Key, Secrets, NoFile, Empty, Given, Changed, NoKey, Plain, NoRow

--------------------------------------------------------------------------------
(***************************************************************************)
(* Keys: the invariant holds at first and every step keeps it.             *)
(***************************************************************************)
LEMMA KeyInvInit == KeyInit => KeyInv
BY KeysAssumption
   DEF KeyInit, KeyInv, KeyTypeOK, MadeInv, StepsInv, FitInv, FiledInv, Steps, Ops, Rotating, AllSettled, Between, InForce

\* What each operation knows, and the types, are kept whatever has been lost.
LEMMA KnownStep ==
  ASSUME KeyTypeOK, MadeInv, StepsInv, [KeyNext]_keyVars
  PROVE  (KeyTypeOK /\ MadeInv /\ StepsInv)'
<1> USE KeysAssumption DEF Go, Steps, Ops, Rotating
<1>1. ASSUME NEW p \in Processes, \E o \in Ops \ {"none"} : Begin(p, o) PROVE (KeyTypeOK /\ MadeInv /\ StepsInv)'
  <2> PICK o \in Ops \ {"none"} : Begin(p, o)
    BY <1>1
  <2>1. /\ at[p] = "idle" /\ op' = [op EXCEPT ![p] = o] /\ seen' = [seen EXCEPT ![p] = row]
        /\ o = "rotate" => p = Server
        /\ UNCHANGED <<file, row, env, own, previous, made, upsets, loss, filed>>
    BY DEF Begin
  <2>2. \/ at' = [at EXCEPT ![p] = "secret"] /\ cached' = cached /\ cached[p] # NoKey
        \/ at' = [at EXCEPT ![p] = "secret"] /\ cached' = [cached EXCEPT ![p] = env] /\ env # NoKey
        \/ at' = [at EXCEPT ![p] = "read"] /\ cached' = cached /\ env = NoKey
    BY DEF Begin
  <2>3. KeyTypeOK'
    BY <2>1, <2>2 DEF KeyTypeOK
  <2>4. MadeInv'
    BY <2>1, <2>2 DEF KeyTypeOK, MadeInv
  <2>5. StepsInv'
    BY <2>1, <2>2 DEF KeyTypeOK, StepsInv
  <2>6. QED
    BY <2>3, <2>4, <2>5
<1>2. ASSUME NEW p \in Processes, ReadKeyFile(p) PROVE (KeyTypeOK /\ MadeInv /\ StepsInv)'
  BY <1>2 DEF ReadKeyFile, KeyTypeOK, MadeInv, StepsInv
<1>3. ASSUME NEW p \in Processes, CreateKeyFile(p) PROVE (KeyTypeOK /\ MadeInv /\ StepsInv)'
  <2>1. \/ /\ file = NoFile /\ file' = Empty /\ at' = [at EXCEPT ![p] = "fill"]
           /\ UNCHANGED <<cached, loss>>
        \/ /\ file # NoFile /\ file' = file /\ at' = [at EXCEPT ![p] = "secret"]
           /\ cached' = [cached EXCEPT ![p] = IF file \in Key THEN file ELSE own[p]]
           /\ loss' \in {loss, loss \cup {"crossed"}}
    BY <1>3 DEF CreateKeyFile, Wins
  <2>2. at[p] = "create" /\ UNCHANGED <<row, env, op, own, seen, previous, made, upsets, filed>>
    BY <1>3 DEF CreateKeyFile
  <2>3. KeyTypeOK'
    <3>1. \A q \in Processes : at'[q] \in Rotating => at[q] = at'[q]
      BY <2>1, <2>2 DEF KeyTypeOK
    <3>2. loss' \subseteq {"died", "failed", "crossed", "changed"}
      BY <2>1 DEF KeyTypeOK
    <3>3. cached' \in [Processes -> Secrets \cup {NoKey}] /\ file' \in Key \cup {NoFile, Empty}
      BY <2>1, <2>2 DEF KeyTypeOK, StepsInv
    <3>4. at' \in [Processes -> Steps]
      BY <2>1, <2>2 DEF KeyTypeOK
    <3>5. QED
      BY <2>2, <3>1, <3>2, <3>3, <3>4 DEF KeyTypeOK
  <2>4. MadeInv'
    BY <2>1, <2>2 DEF KeyTypeOK, MadeInv
  <2>5. StepsInv'
    BY <2>1, <2>2 DEF KeyTypeOK, StepsInv
  <2>6. QED
    BY <2>3, <2>4, <2>5
<1>4. ASSUME NEW p \in Processes, FillKeyFile(p) PROVE (KeyTypeOK /\ MadeInv /\ StepsInv)'
  <2>1. /\ at[p] = "fill" /\ file' = own[p] /\ cached' = [cached EXCEPT ![p] = own[p]]
        /\ at' = [at EXCEPT ![p] = "secret"]
        /\ UNCHANGED <<row, env, op, own, seen, previous, made, upsets, loss>>
    BY <1>4 DEF FillKeyFile
  <2>2. own[p] \in Key
    BY <2>1 DEF KeyTypeOK, StepsInv
  <2>3. filed' \subseteq Key
    BY <1>4, <2>2 DEF FillKeyFile, KeyTypeOK
  <2>4. KeyTypeOK'
    BY <2>1, <2>2, <2>3 DEF KeyTypeOK
  <2>5. MadeInv'
    BY <2>1, <2>2 DEF KeyTypeOK, MadeInv
  <2>6. StepsInv'
    BY <2>1, <2>2 DEF KeyTypeOK, StepsInv
  <2>7. QED
    BY <2>4, <2>5, <2>6
<1>5. ASSUME NEW p \in Processes, Seal(p) PROVE (KeyTypeOK /\ MadeInv /\ StepsInv)'
  BY <1>5 DEF Seal, Done, KeyTypeOK, MadeInv, StepsInv
<1>6. ASSUME NEW p \in Processes, Open(p) PROVE (KeyTypeOK /\ MadeInv /\ StepsInv)'
  BY <1>6 DEF Open, Done, KeyTypeOK, MadeInv, StepsInv
<1>7. ASSUME NEW p \in Processes, BeginRotation(p) PROVE (KeyTypeOK /\ MadeInv /\ StepsInv)'
  BY <1>7 DEF BeginRotation, MayRotate, Done, KeyTypeOK, MadeInv, StepsInv
<1>8. ASSUME NEW p \in Processes, Truncate(p) PROVE (KeyTypeOK /\ MadeInv /\ StepsInv)'
  BY <1>8 DEF Truncate, KeyTypeOK, MadeInv, StepsInv
<1>9. ASSUME NEW p \in Processes, Install(p) PROVE (KeyTypeOK /\ MadeInv /\ StepsInv)'
  <2>1. /\ at[p] = "install" /\ file' = own[p] /\ cached' = [cached EXCEPT ![p] = own[p]]
        /\ \/ at' = [at EXCEPT ![p] = "idle"] /\ op' = [op EXCEPT ![p] = "none"]
           \/ at' = [at EXCEPT ![p] = "reseal"] /\ op' = op
        /\ loss' \in {loss, loss \cup {"crossed"}}
        /\ UNCHANGED <<row, env, own, seen, previous, made, upsets>>
    BY <1>9 DEF Install, Done
  <2>2. own[p] \in Key
    BY <2>1 DEF KeyTypeOK, StepsInv
  <2>3. filed' \subseteq Key
    BY <1>9, <2>2 DEF Install, KeyTypeOK
  <2>4. KeyTypeOK'
    BY <2>1, <2>2, <2>3 DEF KeyTypeOK
  <2>5. MadeInv'
    BY <2>1, <2>2 DEF KeyTypeOK, MadeInv
  <2>6. StepsInv'
    BY <2>1, <2>2 DEF KeyTypeOK, StepsInv
  <2>7. QED
    BY <2>4, <2>5, <2>6
<1>10. ASSUME NEW p \in Processes, Reseal(p) PROVE (KeyTypeOK /\ MadeInv /\ StepsInv)'
  BY <1>10 DEF Reseal, Done, KeyTypeOK, MadeInv, StepsInv
<1>11. ASSUME NEW p \in Processes, Untruncate(p) PROVE (KeyTypeOK /\ MadeInv /\ StepsInv)'
  BY <1>11 DEF Untruncate, KeyTypeOK, MadeInv, StepsInv
<1>12. ASSUME NEW p \in Processes, Restore(p) PROVE (KeyTypeOK /\ MadeInv /\ StepsInv)'
  <2>1. /\ at[p] = "restore" /\ file' = previous[p] /\ cached' = [cached EXCEPT ![p] = previous[p]]
        /\ at' = [at EXCEPT ![p] = "idle"] /\ op' = [op EXCEPT ![p] = "none"]
        /\ loss' \in {loss, loss \cup {"crossed"}}
        /\ UNCHANGED <<row, env, own, seen, previous, made, upsets>>
    BY <1>12 DEF Restore, Done
  <2>2. previous[p] \in Key
    BY <2>1 DEF KeyTypeOK, StepsInv
  <2>3. filed' \subseteq Key
    BY <1>12, <2>2 DEF Restore, KeyTypeOK
  <2>4. KeyTypeOK'
    BY <2>1, <2>2, <2>3 DEF KeyTypeOK
  <2>5. MadeInv'
    BY <2>1, <2>2 DEF KeyTypeOK, MadeInv
  <2>6. StepsInv'
    BY <2>1, <2>2 DEF KeyTypeOK, StepsInv
  <2>7. QED
    BY <2>4, <2>5, <2>6
<1>13. ASSUME NEW p \in Processes, Disconnect(p) PROVE (KeyTypeOK /\ MadeInv /\ StepsInv)'
  BY <1>13 DEF Disconnect, KeyTypeOK, MadeInv, StepsInv
<1>14. ASSUME NEW p \in Processes, ResealFails(p) PROVE (KeyTypeOK /\ MadeInv /\ StepsInv)'
  BY <1>14 DEF ResealFails, Upset, KeyTypeOK, MadeInv, StepsInv
<1>15. ASSUME NEW p \in Processes, WriteFails(p) PROVE (KeyTypeOK /\ MadeInv /\ StepsInv)'
  BY <1>15 DEF WriteFails, Done, Upset, KeyTypeOK, MadeInv, StepsInv
<1>16. ASSUME NEW p \in Processes, Die(p) PROVE (KeyTypeOK /\ MadeInv /\ StepsInv)'
  BY <1>16 DEF Die, Done, Upset, KeyTypeOK, MadeInv, StepsInv
<1>17. ASSUME NEW p \in Processes, RestartProcess(p) PROVE (KeyTypeOK /\ MadeInv /\ StepsInv)'
  BY <1>17 DEF RestartProcess, KeyTypeOK, MadeInv, StepsInv
<1>18. CASE ChangeSecret
  BY <1>18 DEF ChangeSecret, Upset, KeyTypeOK, MadeInv, StepsInv
<1>19. CASE UNCHANGED keyVars
  BY <1>19 DEF keyVars, KeyTypeOK, MadeInv, StepsInv
<1>20. QED
  BY <1>1, <1>2, <1>3, <1>4, <1>5, <1>6, <1>7, <1>8, <1>9, <1>10, <1>11, <1>12, <1>13, <1>14, <1>15, <1>16, <1>17, <1>18, <1>19 DEF KeyNext, Step

\* The row goes on fitting the key, as far as nothing parts them.
LEMMA FitStep ==
  ASSUME KeyInv, [KeyNext]_keyVars
  PROVE  FitInv'
<1> USE KeysAssumption DEF Go, Rotating, KeyInv, KeyTypeOK, StepsInv, FitInv, AllSettled, Between, InForce
<1>1. ASSUME NEW p \in Processes, \E o \in Ops \ {"none"} : Begin(p, o) PROVE FitInv'
  BY <1>1 DEF Begin
<1>2. ASSUME NEW p \in Processes, ReadKeyFile(p) PROVE FitInv'
  BY <1>2 DEF ReadKeyFile
<1>3. ASSUME NEW p \in Processes, CreateKeyFile(p) PROVE FitInv'
  <2>1. CASE file = NoFile
    <3>1. at' = [at EXCEPT ![p] = "fill"] /\ file' = Empty /\ UNCHANGED <<row, env, own, cached, loss>>
      BY <1>3, <2>1 DEF CreateKeyFile, Wins
    <3>2. AllSettled
      BY <1>3, <2>1 DEF CreateKeyFile
    <3>3. env = NoKey
      BY <1>3 DEF CreateKeyFile
    <3>4. QED
      BY <2>1, <3>1, <3>2, <3>3
  <2>2. CASE file # NoFile
    BY <1>3, <2>2 DEF CreateKeyFile, Wins
  <2>3. QED
    BY <2>1, <2>2
<1>4. ASSUME NEW p \in Processes, FillKeyFile(p) PROVE FitInv'
  BY <1>4 DEF FillKeyFile
<1>5. ASSUME NEW p \in Processes, Seal(p) PROVE FitInv'
  BY <1>5 DEF Seal, Done
<1>6. ASSUME NEW p \in Processes, Open(p) PROVE FitInv'
  BY <1>6 DEF Open, Done
<1>7. ASSUME NEW p \in Processes, BeginRotation(p) PROVE FitInv'
  BY <1>7 DEF BeginRotation, MayRotate, Done
<1>8. ASSUME NEW p \in Processes, Truncate(p) PROVE FitInv'
  BY <1>8 DEF Truncate
<1>9. ASSUME NEW p \in Processes, Install(p) PROVE FitInv'
  BY <1>9 DEF Install, Done
<1>10. ASSUME NEW p \in Processes, Reseal(p) PROVE FitInv'
  BY <1>10 DEF Reseal, Done
<1>11. ASSUME NEW p \in Processes, Untruncate(p) PROVE FitInv'
  BY <1>11 DEF Untruncate
<1>12. ASSUME NEW p \in Processes, Restore(p) PROVE FitInv'
  BY <1>12 DEF Restore, Done
<1>13. ASSUME NEW p \in Processes, Disconnect(p) PROVE FitInv'
  BY <1>13 DEF Disconnect
<1>14. ASSUME NEW p \in Processes, ResealFails(p) PROVE FitInv'
  BY <1>14 DEF ResealFails, Upset
<1>15. ASSUME NEW p \in Processes, WriteFails(p) PROVE FitInv'
  BY <1>15 DEF WriteFails, Done, Upset
<1>16. ASSUME NEW p \in Processes, Die(p) PROVE FitInv'
  BY <1>16 DEF Die, Done, Upset
<1>17. ASSUME NEW p \in Processes, RestartProcess(p) PROVE FitInv'
  BY <1>17 DEF RestartProcess
<1>18. CASE ChangeSecret
  BY <1>18 DEF ChangeSecret, Upset
<1>19. CASE UNCHANGED keyVars
  BY <1>19 DEF keyVars
<1>20. QED
  BY <1>1, <1>2, <1>3, <1>4, <1>5, <1>6, <1>7, <1>8, <1>9, <1>10, <1>11, <1>12, <1>13, <1>14, <1>15, <1>16, <1>17, <1>18, <1>19 DEF KeyNext, Step

\* Nothing is ever sealed under a key the disk has not held.
LEMMA FiledStep ==
  ASSUME KeyInv, [KeyNext]_keyVars
  PROVE  FiledInv'
<1> USE KeysAssumption DEF Go, Rotating, KeyInv, KeyTypeOK, FiledInv
<1>1. ASSUME NEW p \in Processes, \E o \in Ops \ {"none"} : Begin(p, o) PROVE FiledInv'
  BY <1>1 DEF Begin
<1>2. ASSUME NEW p \in Processes, ReadKeyFile(p) PROVE FiledInv'
  BY <1>2 DEF ReadKeyFile
<1>3. ASSUME NEW p \in Processes, CreateKeyFile(p) PROVE FiledInv'
  BY <1>3 DEF CreateKeyFile
<1>4. ASSUME NEW p \in Processes, FillKeyFile(p) PROVE FiledInv'
  BY <1>4 DEF FillKeyFile
<1>5. ASSUME NEW p \in Processes, Seal(p) PROVE FiledInv'
  BY <1>5 DEF Seal, Done, InForce, StepsInv
<1>6. ASSUME NEW p \in Processes, Open(p) PROVE FiledInv'
  BY <1>6 DEF Open, Done
<1>7. ASSUME NEW p \in Processes, BeginRotation(p) PROVE FiledInv'
  BY <1>7 DEF BeginRotation, Done
<1>8. ASSUME NEW p \in Processes, Truncate(p) PROVE FiledInv'
  BY <1>8 DEF Truncate
<1>9. ASSUME NEW p \in Processes, Install(p) PROVE FiledInv'
  BY <1>9 DEF Install, Done
<1>10. ASSUME NEW p \in Processes, Reseal(p) PROVE FiledInv'
  BY <1>10 DEF Reseal, Done
<1>11. ASSUME NEW p \in Processes, Untruncate(p) PROVE FiledInv'
  BY <1>11 DEF Untruncate
<1>12. ASSUME NEW p \in Processes, Restore(p) PROVE FiledInv'
  BY <1>12 DEF Restore, Done
<1>13. ASSUME NEW p \in Processes, Disconnect(p) PROVE FiledInv'
  BY <1>13 DEF Disconnect
<1>14. ASSUME NEW p \in Processes, ResealFails(p) PROVE FiledInv'
  BY <1>14 DEF ResealFails
<1>15. ASSUME NEW p \in Processes, WriteFails(p) PROVE FiledInv'
  BY <1>15 DEF WriteFails, Done
<1>16. ASSUME NEW p \in Processes, Die(p) PROVE FiledInv'
  BY <1>16 DEF Die, Done
<1>17. ASSUME NEW p \in Processes, RestartProcess(p) PROVE FiledInv'
  BY <1>17 DEF RestartProcess
<1>18. CASE ChangeSecret
  BY <1>18 DEF ChangeSecret
<1>19. CASE UNCHANGED keyVars
  BY <1>19 DEF keyVars
<1>20. QED
  BY <1>1, <1>2, <1>3, <1>4, <1>5, <1>6, <1>7, <1>8, <1>9, <1>10, <1>11, <1>12, <1>13, <1>14, <1>15, <1>16, <1>17, <1>18, <1>19 DEF KeyNext, Step

LEMMA KeyInvariance == KeySpec => []KeyInv
<1>1. KeyInv /\ [KeyNext]_keyVars => KeyInv'
  BY KnownStep, FitStep, FiledStep DEF KeyInv
<1>2. QED
  BY KeyInvInit, <1>1, PTL DEF KeySpec

--------------------------------------------------------------------------------
(***************************************************************************)
(* What follows for the stored token.                                      *)
(***************************************************************************)
\* The variables keep their types, and a rotation under way knows both keys.
THEOREM KeyTypeCorrect == KeySpec => []KeyTypeOK
<1>1. KeyInv => KeyTypeOK
  BY DEF KeyInv
<1>2. QED
  BY KeyInvariance, <1>1, PTL

\* The token at rest opens for a process that starts now: the row and the key file
\* agree whenever no process is half way and nothing has parted them; and whatever
\* parts them, the key that seals the token has been in the file.
THEOREM TokenOpens == KeySpec => []RowOpens
<1>1. KeyInv => RowOpens
  BY DEF KeyInv, FitInv, FiledInv, RowOpens
<1>2. QED
  BY KeyInvariance, <1>1, PTL

\* The server never goes on with a key that is not the one on disk.
THEOREM ServerInStep == KeySpec => []ServerKnowsItsKey
<1>1. KeyInv => ServerKnowsItsKey
  BY DEF KeyInv, FitInv, ServerKnowsItsKey
<1>2. QED
  BY KeyInvariance, <1>1, PTL
=================================================================================

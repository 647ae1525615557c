----------------------------- MODULE PlanReplayProofs -----------------------------
(***************************************************************************)
(* Proofs about PlanReplay, for every library, every set of recorded plans *)
(* and every number of applies and reverts at once: its typing, the        *)
(* write-ahead property of its undo records, what is reported and what is  *)
(* offered again; and, as long as people are careful, the switch, the way  *)
(* back and the survival of what people typed.                             *)
(*                                                                         *)
(* The invariant adds to the types that the pointers which survive an      *)
(* await still lead somewhere: a carried plan to a decision about that     *)
(* very book, a write under way to its own revision, and a revert to       *)
(* revisions of the table.                                                 *)
(***************************************************************************)
EXTENDS PlanReplay, FiniteSetTheorems, WellFoundedInduction, TLAPS

\* The run a row names did decide about the row's book.
Decided(b, s) == s # NoRun => b \in DOMAIN Recorded[s]

RowsInv == \A r \in RunId, b \in Books : Decided(b, rows[r][b].plan)

\* What one worker remembers, when the table has n revisions.
WorkerOK(a, n) ==
  /\ a \in ApplyState
  /\ \A b \in Books : Decided(b, a.plans[b]) /\ Decided(b, a.report[b].plan)
  /\ \A b \in a.todo : a.plans[b] # NoRun
  /\ a.phase # "idle" => a.run \in RunId /\ a.from \in RunId
  /\ a.phase = "writing" => a.revision \in 1 .. n

WorkersInv == \A w \in Workers : WorkerOK(apply[w], Len(revisions))

RevertersInv ==
  \A v \in Reverters :
    revert[v].todo \subseteq DOMAIN revisions /\ revert[v].chosen \subseteq DOMAIN revisions

Inv == TypeOK /\ RowsInv /\ WorkersInv /\ RevertersInv

\* What the proofs use of the assumptions on the constants.
LEMMA ConstantFacts ==
  /\ MaxRuns \in Nat /\ MaxEdits \in Nat /\ MaxFaults \in Nat
  /\ Source \subseteq RunId /\ RunId \subseteq Nat
  /\ \A r \in RunId : r # NoRun
  /\ \A force \in Forces : force \in BOOLEAN
  /\ \A s \in Source, b \in Books : b \in DOMAIN Recorded[s] => IsPlan(Recorded[s][b])
<1>1. MaxRuns \in Nat /\ MaxEdits \in Nat /\ MaxFaults \in Nat
  BY PlanReplayAssumption
<1>2. PICK n \in 0 .. MaxRuns : Source = 1 .. n
  BY PlanReplayAssumption
<1>3. Source \subseteq RunId /\ RunId \subseteq Nat /\ \A r \in RunId : r # NoRun
  BY <1>1, <1>2 DEF RunId, NoRun
<1>4. \A s \in Source, b \in Books : b \in DOMAIN Recorded[s] => IsPlan(Recorded[s][b])
  BY PlanReplayAssumption
<1>5. \A force \in Forces : force \in BOOLEAN
  BY PlanReplayAssumption
<1>6. QED
  BY <1>1, <1>3, <1>4, <1>5

(***************************************************************************)
(* Patches and rows stay in their types.                                   *)
(***************************************************************************)
LEMMA PatchedType ==
  ASSUME NEW c \in Content, NEW p \in Patch
  PROVE  Patched(c, p) \in Content
<1>1. PICK S \in SUBSET Fields : p.text \in [S -> Texts]
  BY DEF Patch
<1>2. c.text \in [Fields -> Texts] /\ c.tags \in SUBSET Tags
  BY DEF Content
<1>3. [f \in Fields |-> IF f \in DOMAIN p.text THEN p.text[f] ELSE c.text[f]]
        \in [Fields -> Texts]
  BY <1>1, <1>2
<1>4. (IF p.tags = {} THEN c.tags ELSE UNION p.tags) \in SUBSET Tags
  BY <1>2 DEF Patch
<1>5. QED
  BY <1>3, <1>4 DEF Patched, Content

LEMMA InversePatchType ==
  ASSUME NEW c \in Content, NEW p \in Patch
  PROVE  InversePatch(c, p) \in Patch
<1>1. PICK S \in SUBSET Fields : p.text \in [S -> Texts]
  BY DEF Patch
<1>2. c.text \in [Fields -> Texts] /\ c.tags \in SUBSET Tags
  BY DEF Content
<1>3. [f \in DOMAIN p.text |-> c.text[f]] \in UNION {[R -> Texts] : R \in SUBSET Fields}
  <2>1. [f \in DOMAIN p.text |-> c.text[f]] \in [S -> Texts]
    BY <1>1, <1>2
  <2>2. QED
    BY <2>1
<1>4. (IF p.tags = {} THEN {} ELSE {c.tags}) \in {{}} \cup {{T} : T \in SUBSET Tags}
  BY <1>2
<1>5. QED
  BY <1>3, <1>4 DEF InversePatch, Patch

LEMMA PatchForType ==
  ASSUME NEW p, IsPlan(p), NEW c \in Content, NEW may \in BOOLEAN
  PROVE  PatchFor(p, c, may) \in Patch
<1> DEFINE K == Keep(p, c, may)
<1>1. K \subseteq DOMAIN p.change /\ K \in SUBSET Fields
  BY DEF Keep, Open, IsPlan
<1>2. [f \in K |-> p.change[f].to] \in UNION {[R -> Texts] : R \in SUBSET Fields}
  <2>1. \A f \in K : p.change[f].to \in Texts
    BY <1>1 DEF IsPlan, Change
  <2>2. [f \in K |-> p.change[f].to] \in [K -> Texts]
    BY <2>1
  <2>3. QED
    BY <1>1, <2>2
<1>3. NextTags(p, c) \in SUBSET Tags
  BY DEF NextTags, IsPlan, Content
<1>4. (IF p.kind = "rate" /\ NextTags(p, c) # c.tags THEN {NextTags(p, c)} ELSE {})
        \in {{}} \cup {{T} : T \in SUBSET Tags}
  BY <1>3
<1>5. QED
  BY <1>2, <1>4 DEF PatchFor, Patch

\* What people type is a patch.
LEMMA EditType ==
  ASSUME TypeOK, NEW b \in Books, NEW p \in OneField \cup OneTag(b)
  PROVE  p \in Patch
<1>1. CASE p \in OneField
  <2>1. PICK f \in Fields, t \in Texts :
          p = [text |-> [g \in {f} |-> t], tags |-> {}]
    BY <1>1 DEF OneField
  <2>2. [g \in {f} |-> t] \in [{f} -> Texts] /\ {f} \in SUBSET Fields
    OBVIOUS
  <2>3. [g \in {f} |-> t] \in UNION {[R -> Texts] : R \in SUBSET Fields}
    BY <2>2
  <2>4. QED
    BY <2>1, <2>3 DEF Patch
<1>2. CASE p \in OneTag(b)
  <2> DEFINE flipped(t) == IF t \in shelf[b].tags THEN shelf[b].tags \ {t}
                                                  ELSE shelf[b].tags \cup {t}
  <2>1. PICK t \in Tags : p = [text |-> [f \in {} |-> ""], tags |-> {flipped(t)}]
    BY <1>2 DEF OneTag
  <2>2. flipped(t) \in SUBSET Tags
    BY DEF TypeOK, Content
  <2>3. [f \in {} |-> ""] \in UNION {[R -> Texts] : R \in SUBSET Fields}
    <3>1. [f \in {} |-> ""] \in [{} -> Texts] /\ {} \in SUBSET Fields
      OBVIOUS
    <3>2. QED
      BY <3>1
  <2>4. QED
    BY <2>1, <2>2, <2>3 DEF Patch
<1>3. QED
  BY <1>1, <1>2

LEMMA IdleOK ==
  ASSUME NEW n \in Nat
  PROVE  WorkerOK(IdleApply, n)
<1>1. NoRow \in Row
  BY DEF NoRow, Row
<1>2. IdleApply \in ApplyState
  BY <1>1 DEF IdleApply, ApplyState
<1>3. QED
  BY <1>2 DEF IdleApply, WorkerOK, NoRow, Decided

LEMMA ReportedOK ==
  ASSUME NEW n \in Nat, NEW a, WorkerOK(a, n), a.phase # "idle", NEW b \in Books,
         NEW code, NEW plan, [code |-> code, plan |-> plan] \in Row, Decided(b, plan)
  PROVE  WorkerOK(Reported(a, b, code, plan), n)
<1> DEFINE new == Reported(a, b, code, plan)
<1>1. a \in ApplyState
  BY DEF WorkerOK
<1>2. /\ new.report = [a.report EXCEPT ![b] = [code |-> code, plan |-> plan]]
      /\ new.todo = a.todo \ {b} /\ new.phase = "loop"
      /\ new.settled \in SUBSET Books
      /\ new.run = a.run /\ new.from = a.from /\ new.plans = a.plans
  BY <1>1 DEF Reported, ApplyState
<1>3. new.report \in [Books -> Row]
  BY <1>1, <1>2 DEF ApplyState
<1>4. new \in ApplyState
  BY <1>1, <1>2, <1>3 DEF Reported, ApplyState
<1>5. \A c \in Books : Decided(c, new.plans[c]) /\ Decided(c, new.report[c].plan)
  BY <1>1, <1>2 DEF WorkerOK, ApplyState
<1>6. QED
  BY <1>2, <1>4, <1>5 DEF WorkerOK

\* A table that grows leaves a worker's pointer where it was.
LEMMA LongerOK ==
  ASSUME NEW n \in Nat, NEW m \in Nat, n <= m, NEW a, WorkerOK(a, n)
  PROVE  WorkerOK(a, m)
BY DEF WorkerOK

(***************************************************************************)
(* The CHOOSEs of inspect and of the restore loop pick what they should.   *)
(***************************************************************************)
LEMMA LeastNat ==
  ASSUME NEW S \in SUBSET Nat, S # {}
  PROVE  \E i \in S : \A j \in S : i <= j
<1>1. PICK i \in S : \A j \in S : ~ (<<j, i>> \in OpToRel(<, Nat))
  BY NatLessThanWellFounded, WFMin, Zenon
<1>2. \A j \in S : ~ (j < i)
  BY <1>1 DEF OpToRel
<1>3. QED
  BY <1>2

LEMMA GreatestNat ==
  ASSUME NEW n \in Nat, NEW S \in SUBSET (1 .. n), S # {}
  PROVE  \E i \in S : \A j \in S : j <= i
<1> DEFINE Up == {k \in Nat : \A j \in S : j <= k}
<1>1. PICK k \in Up : \A i \in Up : k <= i
  <2>1. n \in Up /\ Up \in SUBSET Nat
    OBVIOUS
  <2>2. QED
    BY <2>1, LeastNat
<1>2. k \in S
  <2> SUFFICES ASSUME k \notin S
               PROVE  FALSE
    OBVIOUS
  <2>1. k >= 1 /\ k - 1 \in Nat
    <3>1. PICK i \in S : TRUE
      OBVIOUS
    <3>2. i \in 1 .. n /\ i <= k /\ k \in Nat
      BY <1>1, <3>1
    <3>3. QED
      BY <3>2
  <2>2. k - 1 \in Up
    BY <1>1, <2>1
  <2>3. QED
    BY <1>1, <2>1, <2>2
<1>3. QED
  BY <1>1, <1>2

LEMMA NewestChosen ==
  ASSUME Inv, NEW v \in Reverters, revert[v].chosen # {}
  PROVE  Newest(v) \in revert[v].chosen /\ Newest(v) \in DOMAIN revisions
<1>1. revert[v].chosen \in SUBSET (1 .. Len(revisions)) /\ Len(revisions) \in Nat
  BY DEF Inv, TypeOK, RevertersInv
<1>2. \E i \in revert[v].chosen : \A j \in revert[v].chosen : j <= i
  BY <1>1, GreatestNat
<1>3. Newest(v) \in revert[v].chosen
  BY <1>2 DEF Newest
<1>4. QED
  BY <1>3 DEF Inv, RevertersInv

\* Every revision of the table is about a book and holds two patches.
LEMMA RevisionFacts ==
  ASSUME TypeOK, NEW i \in DOMAIN revisions
  PROVE  /\ revisions[i] \in Revision
         /\ revisions[i].book \in Books
         /\ revisions[i].before \in Patch /\ revisions[i].after \in Patch
         /\ revisions[i].run \in RunId
<1>1. revisions[i] \in Revision
  BY DEF TypeOK
<1>2. QED
  BY <1>1 DEF Revision

(***************************************************************************)
(* Initially, and by steps that leave the remembered pointers alone.       *)
(***************************************************************************)
LEMMA InitInv ==
  ASSUME Init
  PROVE  Inv
<1>1. /\ Library \in [Books -> Content]
      /\ MaxRuns \in Nat /\ MaxEdits \in Nat /\ MaxFaults \in Nat
  BY PlanReplayAssumption
<1>2. RowsInv
  <2>1. \A r \in RunId, b \in Books :
          rows[r][b] = IF r \in Source /\ b \in DOMAIN Recorded[r]
                         THEN [code |-> "planned", plan |-> r] ELSE NoRow
    BY DEF Init
  <2>2. ASSUME NEW r \in RunId, NEW b \in Books
        PROVE  Decided(b, rows[r][b].plan)
    <3>1. CASE r \in Source /\ b \in DOMAIN Recorded[r]
      <4>1. rows[r][b] = [code |-> "planned", plan |-> r]
        BY <2>1, <3>1
      <4>2. QED
        BY <3>1, <4>1 DEF Decided
    <3>2. CASE ~ (r \in Source /\ b \in DOMAIN Recorded[r])
      <4>1. rows[r][b] = NoRow
        BY <2>1, <3>2
      <4>2. QED
        BY <4>1 DEF Decided, NoRow
    <3>3. QED
      BY <3>1, <3>2
  <2>3. QED
    BY <2>2 DEF RowsInv
<1>3. Len(revisions) = 0 /\ revisions \in Seq(Revision) /\ DOMAIN revisions = {}
  BY DEF Init
<1>4. rows \in [RunId -> [Books -> Row]]
  <2>1. NoRow \in Row /\ \A s \in Source : [code |-> "planned", plan |-> s] \in Row
    BY DEF NoRow, Row
  <2>2. QED
    BY <2>1 DEF Init
<1>5. WorkersInv /\ apply \in [Workers -> ApplyState]
  <2>1. \A w \in Workers : apply[w] = IdleApply
    BY DEF Init
  <2>2. \A w \in Workers : WorkerOK(apply[w], Len(revisions))
    BY <1>3, <2>1, IdleOK
  <2>3. QED
    BY <2>1, <2>2 DEF Init, WorkersInv, WorkerOK
<1>6. TypeOK
  BY <1>1, <1>3, <1>4, <1>5 DEF Init, TypeOK, IdleRevert
<1>7. RevertersInv
  BY DEF Init, RevertersInv, IdleRevert
<1>8. QED
  BY <1>2, <1>5, <1>6, <1>7 DEF Inv

\* Only worker w moved, and the table did not shrink.
LEMMA WorkerMoved ==
  ASSUME Inv, NEW w \in Workers, NEW a,
         apply' = [apply EXCEPT ![w] = a],
         revisions' \in Seq(Revision), Len(revisions) <= Len(revisions'),
         WorkerOK(a, Len(revisions'))
  PROVE  WorkersInv' /\ apply' \in [Workers -> ApplyState]
<1>1. Len(revisions) \in Nat /\ Len(revisions') \in Nat
      /\ apply \in [Workers -> ApplyState]
  BY DEF Inv, TypeOK
<1>2. a \in ApplyState
  BY DEF WorkerOK
<1>3. apply' \in [Workers -> ApplyState]
  BY <1>1, <1>2
<1>4. ASSUME NEW u \in Workers
      PROVE  WorkerOK(apply'[u], Len(revisions'))
  <2>1. CASE u = w
    <3>1. apply'[u] = a
      BY <1>1, <2>1
    <3>2. QED
      BY <3>1
  <2>2. CASE u # w
    <3>1. apply'[u] = apply[u] /\ WorkerOK(apply[u], Len(revisions))
      BY <1>1, <2>2 DEF Inv, WorkersInv
    <3>2. QED
      BY <1>1, <3>1, LongerOK
  <2>3. QED
    BY <2>1, <2>2
<1>5. QED
  BY <1>3, <1>4 DEF WorkersInv

\* Nobody's memory of revisions changes when the table keeps its length.
LEMMA TableKept ==
  ASSUME Inv, Len(revisions') = Len(revisions), UNCHANGED apply
  PROVE  WorkersInv'
BY DEF Inv, WorkersInv

(***************************************************************************)
(* One lemma for each action that does more than copy.                     *)
(***************************************************************************)
LEMMA ApplyBeginInv ==
  ASSUME Inv, NEW w \in Workers, NEW from \in RunId, NEW items \in SUBSET Books,
         NEW real \in BOOLEAN, ApplyBegin(w, from, items, real)
  PROVE  Inv'
<1> DEFINE a == [IdleApply EXCEPT !.phase = "loop", !.run = lastRun + 1, !.from = from,
                    !.real = real, !.mayReplace = mayReplace,
                    !.plans = [b \in Books |-> rows[from][b].plan],
                    !.todo = Waiting(from) \cap items]
           n == Len(revisions)
<1>1. /\ apply' = [apply EXCEPT ![w] = a] /\ lastRun' = lastRun + 1
      /\ lastRun < MaxRuns
      /\ UNCHANGED <<shelf, gone, mayReplace, rows, revisions, revert, hand, edits, faults>>
  BY DEF ApplyBegin
<1>2. lastRun + 1 \in RunId /\ lastRun' \in 0 .. MaxRuns /\ n \in Nat
      /\ rows \in [RunId -> [Books -> Row]] /\ mayReplace \in BOOLEAN
  <2>1. lastRun \in 0 .. MaxRuns /\ rows \in [RunId -> [Books -> Row]]
        /\ mayReplace \in BOOLEAN /\ n \in Nat
    BY DEF Inv, TypeOK
  <2>2. QED
    BY <1>1, <2>1, ConstantFacts DEF RunId
<1>3. [b \in Books |-> rows[from][b].plan] \in [Books -> {NoRun} \cup Source]
  BY <1>2 DEF Row
<1>4. /\ a.phase = "loop" /\ a.run = lastRun + 1 /\ a.from = from
      /\ a.plans = [b \in Books |-> rows[from][b].plan]
      /\ a.todo = Waiting(from) \cap items
      /\ a.report = [b \in Books |-> NoRow]
      /\ a.real = real /\ a.mayReplace = mayReplace /\ a.stop = FALSE
      /\ a.settled = {} /\ a.revision = 0
  BY DEF IdleApply
<1>5. a \in ApplyState
  <2>1. IdleApply \in ApplyState
    BY <1>2, IdleOK DEF WorkerOK
  <2>2. Waiting(from) \cap items \in SUBSET Books
    OBVIOUS
  <2>3. QED
    BY <1>2, <1>3, <2>1, <2>2 DEF ApplyState
<1>6. WorkerOK(a, n)
  BY <1>2, <1>4, <1>5 DEF WorkerOK, Inv, RowsInv, Waiting, Decided, NoRow
<1>7. WorkersInv' /\ apply' \in [Workers -> ApplyState]
  <2>1. revisions' = revisions /\ revisions \in Seq(Revision)
    BY <1>1 DEF Inv, TypeOK
  <2>2. WorkerOK(a, Len(revisions')) /\ Len(revisions) <= Len(revisions')
    BY <1>2, <1>6, <2>1
  <2>3. QED
    BY <1>1, <2>1, <2>2, WorkerMoved
<1>8. QED
  BY <1>1, <1>2, <1>7 DEF Inv, TypeOK, RowsInv, RevertersInv

\* An action that only changes what worker w remembers.
LEMMA WorkerOnly ==
  ASSUME Inv, NEW w \in Workers, NEW a, WorkerOK(a, Len(revisions)),
         apply' = [apply EXCEPT ![w] = a], faults' \in 0 .. MaxFaults,
         UNCHANGED <<shelf, gone, mayReplace, rows, revisions, lastRun, revert, hand, edits>>
  PROVE  Inv'
<1>1. WorkersInv' /\ apply' \in [Workers -> ApplyState]
  <2>1. revisions' = revisions /\ revisions \in Seq(Revision)
    BY DEF Inv, TypeOK
  <2>2. WorkerOK(a, Len(revisions')) /\ Len(revisions) <= Len(revisions')
    BY <2>1
  <2>3. QED
    BY <2>1, <2>2, WorkerMoved
<1>2. QED
  BY <1>1 DEF Inv, TypeOK, RowsInv, RevertersInv

\* What an apply visits, it carries a decision about.
LEMMA PlanFacts ==
  ASSUME Inv, NEW w \in Workers, NEW b \in apply[w].todo
  PROVE  /\ b \in Books /\ apply[w] \in ApplyState
         /\ apply[w].plans[b] \in Source
         /\ IsPlan(PlanOf(w, b)) /\ Decided(b, apply[w].plans[b])
<1>1. apply[w] \in ApplyState /\ WorkerOK(apply[w], Len(revisions))
  BY DEF Inv, TypeOK, WorkersInv
<1>2. b \in Books
  BY <1>1 DEF ApplyState
<1>3. apply[w].plans[b] \in Source /\ Decided(b, apply[w].plans[b])
  BY <1>1, <1>2 DEF WorkerOK, ApplyState
<1>4. QED
  BY <1>1, <1>2, <1>3, PlanReplayAssumption DEF PlanOf, Decided, WorkerOK

LEMMA VisitInv ==
  ASSUME Inv, NEW w \in Workers, NEW b \in Books, Visit(w, b)
  PROVE  Inv'
<1> DEFINE a == apply[w]
           p == PlanOf(w, b)
           patch == PatchFor(p, shelf[b], a.mayReplace)
           verdict == Verdict(p, shelf[b], a.mayReplace)
           kept == a.plans[b]
           n == Len(revisions)
<1>1. /\ a.phase = "loop" /\ b \in a.todo
      /\ UNCHANGED <<shelf, gone, mayReplace, rows, lastRun, revert, hand, edits, faults>>
  BY DEF Visit, AtBook
<1>2. /\ a \in ApplyState /\ IsPlan(p) /\ kept \in Source /\ Decided(b, kept)
      /\ a.plans[b] # NoRun
  BY <1>1, PlanFacts, ConstantFacts
<1>3. WorkerOK(a, n) /\ n \in Nat /\ faults \in 0 .. MaxFaults
      /\ shelf[b] \in Content /\ a.mayReplace \in BOOLEAN /\ a.run \in RunId
  BY <1>1, <1>2 DEF Inv, TypeOK, WorkersInv, ApplyState, WorkerOK
<1>4. CASE /\ revisions' = Append(revisions,
                [run |-> a.run, book |-> b, before |-> InversePatch(shelf[b], patch),
                 after |-> patch, landed |-> FALSE, reverted |-> FALSE])
           /\ apply' = [apply EXCEPT ![w].phase = "writing", ![w].revision = n + 1]
  <2> DEFINE new == [a EXCEPT !.phase = "writing", !.revision = n + 1]
             rev == [run |-> a.run, book |-> b, before |-> InversePatch(shelf[b], patch),
                     after |-> patch, landed |-> FALSE, reverted |-> FALSE]
  <2>1. rev \in Revision
    <3>1. patch \in Patch
      BY <1>2, <1>3, PatchForType
    <3>2. InversePatch(shelf[b], patch) \in Patch
      BY <1>3, <3>1, InversePatchType
    <3>3. QED
      BY <1>3, <3>1, <3>2 DEF Revision
  <2>2. revisions' \in Seq(Revision) /\ Len(revisions') = n + 1
        /\ DOMAIN revisions \subseteq DOMAIN revisions'
    BY <1>3, <1>4, <2>1 DEF Inv, TypeOK
  <2>3. /\ new.phase = "writing" /\ new.revision = n + 1 /\ new.plans = a.plans
        /\ new.report = a.report /\ new.todo = a.todo /\ new.run = a.run
        /\ new.from = a.from /\ new \in ApplyState
    <3>1. n + 1 \in Nat
      BY <1>3
    <3>2. new \in ApplyState
      BY <1>2, <3>1 DEF ApplyState
    <3>3. QED
      BY <1>2, <3>1, <3>2 DEF ApplyState
  <2>4. WorkerOK(new, n + 1)
    BY <1>1, <1>3, <2>3 DEF WorkerOK
  <2>5. apply' = [apply EXCEPT ![w] = new]
    BY <1>4 DEF Inv, TypeOK
  <2>6. WorkersInv' /\ apply' \in [Workers -> ApplyState]
    <3>1. Len(revisions) <= Len(revisions') /\ WorkerOK(new, Len(revisions'))
      BY <1>3, <2>2, <2>4
    <3>2. QED
      BY <2>2, <2>5, <3>1, WorkerMoved
  <2>7. TypeOK'
    BY <1>1, <2>2, <2>6 DEF Inv, TypeOK
  <2>8. RowsInv' /\ RevertersInv'
    BY <1>1, <2>2 DEF Inv, RowsInv, RevertersInv
  <2>9. QED
    BY <2>6, <2>7, <2>8 DEF Inv
<1>5. CASE /\ apply' = [apply EXCEPT ![w] = Reported(@, b, "planned", kept)]
           /\ UNCHANGED revisions
  <2>1. [code |-> "planned", plan |-> kept] \in Row
    BY <1>2 DEF Row
  <2>2. WorkerOK(Reported(a, b, "planned", kept), n)
    BY <1>1, <1>2, <1>3, <2>1, ReportedOK
  <2>3. QED
    BY <1>1, <1>3, <1>5, <2>2, WorkerOnly
<1>6. CASE /\ verdict # "write"
           /\ apply' = [apply EXCEPT ![w] =
                Reported(@, b, verdict, IF verdict = "held-back" THEN kept ELSE NoRun)]
           /\ UNCHANGED revisions
  <2> DEFINE plan == IF verdict = "held-back" THEN kept ELSE NoRun
  <2>1. verdict \in {"held-back", "changed-since", "already-applied"}
    BY <1>6 DEF Verdict
  <2>2. [code |-> verdict, plan |-> plan] \in Row /\ Decided(b, plan)
    BY <1>2, <2>1 DEF Row, Decided
  <2>3. WorkerOK(Reported(a, b, verdict, plan), n)
    BY <1>1, <1>2, <1>3, <2>2, ReportedOK
  <2>4. QED
    BY <1>1, <1>3, <1>6, <2>3, WorkerOnly
<1>7. QED
  BY <1>4, <1>5, <1>6 DEF Visit

\* A write that lands keeps the shelf and the table in their types, and
\* touches the book of a revision the table holds.
LEMMA LandFacts ==
  ASSUME Inv, NEW w \in Workers, apply[w].phase = "writing", Land(w)
  PROVE  /\ apply[w].revision \in DOMAIN revisions
         /\ shelf' \in [Books -> Content]
         /\ revisions' \in Seq(Revision) /\ Len(revisions') = Len(revisions)
         /\ DOMAIN revisions' = DOMAIN revisions
<1> DEFINE i == apply[w].revision
           r == revisions[i]
<1>1. i \in DOMAIN revisions /\ revisions \in Seq(Revision)
      /\ shelf \in [Books -> Content]
  BY DEF Inv, TypeOK, WorkersInv, WorkerOK
<1>2. r \in Revision /\ r.book \in Books /\ r.after \in Patch
  BY <1>1, RevisionFacts DEF Inv
<1>3. shelf' \in [Books -> Content]
  <2>1. Patched(shelf[r.book], r.after) \in Content
    BY <1>1, <1>2, PatchedType
  <2>2. shelf' = [shelf EXCEPT ![r.book] = Patched(shelf[r.book], r.after)]
    BY DEF Land
  <2>3. QED
    BY <1>1, <2>1, <2>2
<1>4. [r EXCEPT !.landed = TRUE] \in Revision
  BY <1>2 DEF Revision
<1>5. revisions' = [revisions EXCEPT ![i] = [r EXCEPT !.landed = TRUE]]
  BY <1>1 DEF Land
<1>6. QED
  BY <1>1, <1>3, <1>4, <1>5

\* Same, for a revision being put back.
LEMMA PutBackFacts ==
  ASSUME Inv, NEW i \in DOMAIN revisions, PutBack(i)
  PROVE  shelf' \in [Books -> Content]
<1>1. /\ revisions[i].book \in Books /\ revisions[i].before \in Patch
      /\ shelf \in [Books -> Content]
  BY RevisionFacts DEF Inv, TypeOK
<1>2. Patched(shelf[revisions[i].book], revisions[i].before) \in Content
  BY <1>1, PatchedType
<1>3. shelf' = [shelf EXCEPT ![revisions[i].book] =
                  Patched(shelf[revisions[i].book], revisions[i].before)]
  BY DEF PutBack
<1>4. QED
  BY <1>1, <1>2, <1>3

LEMMA WriteInv ==
  ASSUME Inv, NEW w \in Workers, Write(w)
  PROVE  Inv'
<1> DEFINE a == apply[w]
           b == revisions[a.revision].book
<1>1. /\ a.phase = "writing" /\ Land(w)
      /\ apply' = [apply EXCEPT ![w] = Reported(a, b, "written", NoRun)]
      /\ UNCHANGED <<gone, mayReplace, rows, lastRun, revert, hand, edits, faults>>
  BY DEF Write
<1>2. /\ a.revision \in DOMAIN revisions /\ shelf' \in [Books -> Content]
      /\ revisions' \in Seq(Revision) /\ Len(revisions') = Len(revisions)
      /\ DOMAIN revisions' = DOMAIN revisions
  BY <1>1, LandFacts
<1>3. b \in Books /\ Len(revisions) \in Nat /\ WorkerOK(a, Len(revisions))
  BY <1>2, RevisionFacts DEF Inv, TypeOK, WorkersInv
<1>4. WorkerOK(Reported(a, b, "written", NoRun), Len(revisions'))
  <2>1. [code |-> "written", plan |-> NoRun] \in Row /\ Decided(b, NoRun)
    BY DEF Row, Decided
  <2>2. QED
    BY <1>1, <1>2, <1>3, <2>1, ReportedOK
<1>5. WorkersInv' /\ apply' \in [Workers -> ApplyState]
  <2>1. Len(revisions) <= Len(revisions')
    BY <1>2, <1>3
  <2>2. QED
    BY <1>1, <1>2, <1>4, <2>1, WorkerMoved
<1>6. TypeOK'
  BY <1>1, <1>2, <1>5 DEF Inv, TypeOK
<1>7. RowsInv' /\ RevertersInv'
  BY <1>1, <1>2 DEF Inv, RowsInv, RevertersInv
<1>8. QED
  BY <1>5, <1>6, <1>7 DEF Inv

LEMMA ApplyDiesInv ==
  ASSUME Inv, NEW w \in Workers, ApplyDies(w)
  PROVE  Inv'
<1>1. /\ faults' \in 0 .. MaxFaults
      /\ apply' = [apply EXCEPT ![w] = IdleApply]
      /\ UNCHANGED <<gone, mayReplace, rows, lastRun, revert, hand, edits>>
  BY ConstantFacts DEF ApplyDies, Inv, TypeOK
<1>2. /\ shelf' \in [Books -> Content] /\ revisions' \in Seq(Revision)
      /\ Len(revisions') = Len(revisions) /\ DOMAIN revisions' = DOMAIN revisions
  <2>1. CASE apply[w].phase = "writing" /\ Land(w)
    BY <2>1, LandFacts
  <2>2. CASE UNCHANGED <<shelf, revisions>>
    BY <2>2 DEF Inv, TypeOK
  <2>3. QED
    BY <2>1, <2>2 DEF ApplyDies
<1>3. WorkersInv' /\ apply' \in [Workers -> ApplyState]
  <2>1. Len(revisions) \in Nat
    BY DEF Inv, TypeOK
  <2>2. WorkerOK(IdleApply, Len(revisions')) /\ Len(revisions) <= Len(revisions')
    BY <1>2, <2>1, IdleOK
  <2>3. QED
    BY <1>1, <1>2, <2>2, WorkerMoved
<1>4. TypeOK'
  BY <1>1, <1>2, <1>3 DEF Inv, TypeOK
<1>5. RowsInv' /\ RevertersInv'
  BY <1>1, <1>2 DEF Inv, RowsInv, RevertersInv
<1>6. QED
  BY <1>3, <1>4, <1>5 DEF Inv

LEMMA ApplyEndInv ==
  ASSUME Inv, NEW w \in Workers, ApplyEnd(w) \/ ApplyDiesReported(w)
  PROVE  Inv'
<1> DEFINE a == apply[w]
           own == ReportRows(a)
           left == Cleared(rows[a.from], a.settled)
           OK(items) == /\ items \in [Books -> Row]
                        /\ \A b \in Books : Decided(b, items[b].plan)
<1>1. /\ a.phase = "loop" /\ apply' = [apply EXCEPT ![w] = IdleApply]
      /\ \/ rows' = [rows EXCEPT ![a.run] = own, ![a.from] = left]
         \/ rows' = [rows EXCEPT ![a.run] = own]
      /\ faults' \in 0 .. MaxFaults
      /\ UNCHANGED <<shelf, gone, mayReplace, revisions, lastRun, revert, hand, edits>>
  <2>1. faults \in 0 .. MaxFaults /\ MaxFaults \in Nat
    BY ConstantFacts DEF Inv, TypeOK
  <2>2. QED
    BY <2>1 DEF ApplyEnd, ApplyDiesReported
<1>2. /\ a \in ApplyState /\ a.run \in RunId /\ a.from \in RunId
      /\ WorkerOK(a, Len(revisions)) /\ Len(revisions) \in Nat
      /\ rows \in [RunId -> [Books -> Row]] /\ \A q \in RunId : OK(rows[q])
  BY <1>1 DEF Inv, TypeOK, RowsInv, WorkersInv, WorkerOK
<1>3. OK(own) /\ OK(left)
  <2>1. \A b \in Books : [code |-> "not-reached", plan |-> a.plans[b]] \in Row
    BY <1>2 DEF ApplyState, Row
  <2>2. \A b \in Books : a.report[b] \in Row
    BY <1>2 DEF ApplyState
  <2>3. OK(own)
    BY <1>2, <2>1, <2>2 DEF WorkerOK, ReportRows
  <2>4. \A x \in Row : LET y == [x EXCEPT !.plan = NoRun]
                       IN y \in Row /\ \A b \in Books : Decided(b, y.plan)
    BY DEF Row, Decided
  <2>5. OK(left)
    BY <1>2, <2>4 DEF Cleared
  <2>6. QED
    BY <2>3, <2>5
<1>4. \A q \in RunId : rows'[q] \in {own, left, rows[q]}
  BY <1>1, <1>2
<1>5. rows' \in [RunId -> [Books -> Row]] /\ RowsInv'
  <2>1. rows' = [q \in RunId |-> rows'[q]]
    BY <1>1, <1>2
  <2>2. \A q \in RunId : OK(rows'[q])
    BY <1>2, <1>3, <1>4
  <2>3. rows' \in [RunId -> [Books -> Row]]
    BY <2>1, <2>2
  <2>4. QED
    BY <2>2, <2>3 DEF RowsInv
<1>6. WorkersInv' /\ apply' \in [Workers -> ApplyState]
  <2>1. revisions' \in Seq(Revision) /\ Len(revisions) <= Len(revisions')
        /\ WorkerOK(IdleApply, Len(revisions'))
    BY <1>1, <1>2, IdleOK DEF Inv, TypeOK
  <2>2. QED
    BY <1>1, <2>1, WorkerMoved
<1>7. QED
  BY <1>1, <1>5, <1>6 DEF Inv, TypeOK, RevertersInv

LEMMA InspectInv ==
  ASSUME Inv, NEW v \in Reverters, Inspect(v)
  PROVE  Inv'
<1> DEFINE i == CHOOSE i \in revert[v].todo : \A j \in revert[v].todo : i <= j
           R == [force : BOOLEAN, todo : SUBSET Nat, chosen : SUBSET Nat]
<1>1. /\ revert[v].todo # {} /\ revert \in [Reverters -> R] /\ revert[v] \in R
      /\ revert[v].todo \subseteq DOMAIN revisions
      /\ revert[v].chosen \subseteq DOMAIN revisions
  BY DEF Inspect, Inv, TypeOK, RevertersInv
<1>2. i \in revert[v].todo
  <2>1. \E k \in revert[v].todo : \A j \in revert[v].todo : k <= j
    BY <1>1, LeastNat
  <2>2. QED
    BY <2>1
<1>3. PICK x : /\ revert' = [revert EXCEPT ![v] = x] /\ x \in R
               /\ x.todo \subseteq DOMAIN revisions /\ x.chosen \subseteq DOMAIN revisions
  <2>1. PICK C \in SUBSET (revert[v].chosen \cup {i}) :
          revert' = [revert EXCEPT ![v] = [revert[v] EXCEPT !.todo = revert[v].todo \ {i},
                                                            !.chosen = C]]
    <3>1. CASE revert' = [revert EXCEPT ![v].todo = @ \ {i}]
      <4>1. [revert[v] EXCEPT !.todo = revert[v].todo \ {i}] =
              [revert[v] EXCEPT !.todo = revert[v].todo \ {i}, !.chosen = revert[v].chosen]
        BY <1>1
      <4>2. QED
        BY <1>1, <3>1, <4>1
    <3>2. CASE \E good \in BOOLEAN :
                 revert' = [revert EXCEPT ![v].todo = @ \ {i},
                                          ![v].chosen = IF good THEN @ \cup {i} ELSE @]
      <4>1. PICK good \in BOOLEAN :
              revert' = [revert EXCEPT ![v].todo = @ \ {i},
                                       ![v].chosen = IF good THEN @ \cup {i} ELSE @]
        BY <3>2
      <4> DEFINE C == IF good THEN revert[v].chosen \cup {i} ELSE revert[v].chosen
      <4>2. C \in SUBSET (revert[v].chosen \cup {i})
        OBVIOUS
      <4>3. revert' = [revert EXCEPT ![v] = [revert[v] EXCEPT !.todo = revert[v].todo \ {i},
                                                              !.chosen = C]]
        BY <1>1, <4>1
      <4>4. QED
        BY <4>2, <4>3
    <3>3. QED
      BY <3>1, <3>2 DEF Inspect
  <2> DEFINE x == [revert[v] EXCEPT !.todo = revert[v].todo \ {i}, !.chosen = C]
  <2>2. C \in SUBSET Nat /\ C \subseteq DOMAIN revisions
    BY <1>1, <1>2
  <2>3. x \in R /\ x.todo \subseteq DOMAIN revisions /\ x.chosen \subseteq DOMAIN revisions
    BY <1>1, <2>2
  <2>4. QED
    BY <2>1, <2>3
<1>4. faults' \in 0 .. MaxFaults
      /\ UNCHANGED <<shelf, gone, mayReplace, rows, revisions, lastRun, apply, hand, edits>>
  BY ConstantFacts DEF Inspect, Inv, TypeOK
<1>5. revert' \in [Reverters -> R] /\ RevertersInv'
  BY <1>1, <1>3, <1>4 DEF Inv, RevertersInv
<1>6. QED
  BY <1>4, <1>5 DEF Inv, TypeOK, RowsInv, WorkersInv

\* A step of a revert other than inspect: it may restore one revision it
\* chose, and mark it.
LEMMA RestoringInv ==
  ASSUME Inv, NEW v \in Reverters, Restore(v) \/ RestoreRefused(v) \/ RevertDies(v)
  PROVE  Inv'
<1> DEFINE R == [force : BOOLEAN, todo : SUBSET Nat, chosen : SUBSET Nat]
           i == Newest(v)
<1>1. /\ revert \in [Reverters -> R] /\ revisions \in Seq(Revision)
      /\ shelf \in [Books -> Content]
      /\ \A u \in Reverters : /\ revert[u].todo \subseteq DOMAIN revisions
                              /\ revert[u].chosen \subseteq DOMAIN revisions
  BY DEF Inv, TypeOK, RevertersInv
<1>2. ASSUME AtRestore(v)
      PROVE  i \in revert[v].chosen /\ i \in DOMAIN revisions
  BY <1>2, NewestChosen DEF AtRestore
<1>3. shelf' \in [Books -> Content]
  <2>1. CASE UNCHANGED shelf
    BY <1>1, <2>1
  <2>2. CASE AtRestore(v) /\ PutBack(i)
    BY <1>2, <2>2, PutBackFacts
  <2>3. QED
    BY <2>1, <2>2 DEF Restore, RestoreRefused, RevertDies
<1>4. /\ revisions' \in Seq(Revision) /\ Len(revisions') = Len(revisions)
      /\ DOMAIN revisions' = DOMAIN revisions
  <2>1. CASE UNCHANGED revisions
    BY <1>1, <2>1
  <2>2. CASE Restore(v)
    <3>1. i \in DOMAIN revisions
      BY <1>2, <2>2 DEF Restore
    <3>2. [revisions[i] EXCEPT !.reverted = TRUE] \in Revision
      <4>1. revisions[i] \in Revision
        BY <1>1, <3>1
      <4>2. QED
        BY <4>1 DEF Revision
    <3>3. revisions' = [revisions EXCEPT ![i] = [revisions[i] EXCEPT !.reverted = TRUE]]
      BY <2>2, <3>1 DEF Restore
    <3>4. QED
      BY <1>1, <3>1, <3>2, <3>3
  <2>3. QED
    BY <2>1, <2>2 DEF RestoreRefused, RevertDies
<1>5. PICK x \in R : /\ revert' = [revert EXCEPT ![v] = x]
                     /\ x.todo \subseteq DOMAIN revisions
                     /\ x.chosen \subseteq DOMAIN revisions
  <2>1. CASE revert' = [revert EXCEPT ![v] = IdleRevert]
    <3>1. IdleRevert \in R /\ IdleRevert.todo = {} /\ IdleRevert.chosen = {}
      BY DEF IdleRevert
    <3>2. QED
      BY <2>1, <3>1
  <2>2. CASE Restore(v)
    <3> DEFINE x == [revert[v] EXCEPT !.chosen = revert[v].chosen \ {i}]
    <3>1. revert' = [revert EXCEPT ![v] = x]
      BY <1>1, <2>2 DEF Restore
    <3>2. x \in R /\ x.todo \subseteq DOMAIN revisions /\ x.chosen \subseteq DOMAIN revisions
      BY <1>1
    <3>3. QED
      BY <3>1, <3>2
  <2>3. QED
    BY <2>1, <2>2 DEF RestoreRefused, RevertDies
<1>6. revert' \in [Reverters -> R] /\ RevertersInv'
  BY <1>1, <1>4, <1>5 DEF RevertersInv
<1>7. faults' \in 0 .. MaxFaults
      /\ UNCHANGED <<gone, mayReplace, rows, lastRun, apply, hand, edits>>
  BY ConstantFacts DEF Restore, RestoreRefused, RevertDies, Inv, TypeOK
<1>8. WorkersInv'
  BY <1>4, <1>7, TableKept
<1>9. TypeOK' /\ RowsInv'
  BY <1>3, <1>4, <1>6, <1>7 DEF Inv, TypeOK, RowsInv
<1>10. QED
  BY <1>6, <1>8, <1>9 DEF Inv

LEMMA RevertBeginInv ==
  ASSUME Inv, NEW v \in Reverters, NEW run \in RunId, NEW force \in Forces,
         RevertBegin(v, run, force)
  PROVE  Inv'
<1> DEFINE R == [force : BOOLEAN, todo : SUBSET Nat, chosen : SUBSET Nat]
           x == [force |-> force, chosen |-> {},
                 todo |-> {i \in DOMAIN revisions :
                             revisions[i].run = run /\ ~revisions[i].reverted}]
<1>1. /\ revert' = [revert EXCEPT ![v] = x] /\ revert \in [Reverters -> R]
      /\ UNCHANGED <<shelf, gone, mayReplace, rows, revisions, lastRun, apply, hand, edits, faults>>
  BY DEF RevertBegin, Inv, TypeOK
<1>2. x \in R /\ x.todo \subseteq DOMAIN revisions /\ x.chosen \subseteq DOMAIN revisions
  <2>1. DOMAIN revisions \subseteq Nat /\ force \in BOOLEAN
    BY ConstantFacts DEF Inv, TypeOK
  <2>2. QED
    BY <2>1
<1>3. revert' \in [Reverters -> R] /\ RevertersInv'
  BY <1>1, <1>2 DEF Inv, RevertersInv
<1>4. QED
  BY <1>1, <1>3 DEF Inv, TypeOK, RowsInv, WorkersInv

LEMMA PeopleInv ==
  ASSUME Inv, PeopleStep
  PROVE  Inv'
<1>1. UNCHANGED <<rows, revisions, lastRun, apply, revert, faults>>
  BY DEF PeopleStep, Delete, Edit, FlipSwitch
<1>2. /\ shelf' \in [Books -> Content] /\ hand' \in [Books -> Content]
      /\ gone' \in SUBSET Books /\ mayReplace' \in BOOLEAN /\ edits' \in 0 .. MaxEdits
  <2>1. /\ shelf \in [Books -> Content] /\ hand \in [Books -> Content]
        /\ gone \in SUBSET Books /\ mayReplace \in BOOLEAN /\ edits \in 0 .. MaxEdits
        /\ MaxEdits \in Nat
    BY ConstantFacts DEF Inv, TypeOK
  <2>2. CASE \E b \in Books : Delete(b)
    BY <2>1, <2>2 DEF Delete
  <2>3. ASSUME NEW b \in Books, NEW p \in OneField \cup OneTag(b), Edit(b, p)
        PROVE  /\ shelf' \in [Books -> Content] /\ hand' \in [Books -> Content]
               /\ gone' \in SUBSET Books /\ mayReplace' \in BOOLEAN /\ edits' \in 0 .. MaxEdits
    <3>1. p \in Patch
      BY EditType DEF Inv
    <3>2. Patched(shelf[b], p) \in Content /\ Patched(hand[b], p) \in Content
      BY <2>1, <3>1, PatchedType
    <3>3. /\ shelf' = [shelf EXCEPT ![b] = Patched(shelf[b], p)]
          /\ hand' = [hand EXCEPT ![b] = Patched(hand[b], p)]
          /\ edits' = edits + 1 /\ edits < MaxEdits /\ UNCHANGED <<gone, mayReplace>>
      BY <2>3 DEF Edit
    <3>4. QED
      BY <2>1, <3>2, <3>3
  <2>4. CASE FlipSwitch
    BY <2>1, <2>4 DEF FlipSwitch
  <2>5. QED
    BY <2>2, <2>3, <2>4 DEF PeopleStep
<1>3. QED
  BY <1>1, <1>2 DEF Inv, TypeOK, RowsInv, WorkersInv, RevertersInv

LEMMA NextInv ==
  ASSUME Inv, [Next]_vars
  PROVE  Inv'
<1>1. ASSUME NEW w \in Workers, ApplyStep(w)
      PROVE  Inv'
  <2>1. ASSUME NEW from \in RunId, NEW items \in SUBSET Books, NEW real \in BOOLEAN,
               ApplyBegin(w, from, items, real)
        PROVE  Inv'
    BY <2>1, ApplyBeginInv
  <2>2. ASSUME NEW b \in Books, Visit(w, b)
        PROVE  Inv'
    BY <2>2, VisitInv
  <2>3. ASSUME NEW b \in Books, ReadFails(w, b)
        PROVE  Inv'
    <3>1. WorkerOK(apply[w], Len(revisions)) /\ Len(revisions) \in Nat
      BY DEF Inv, TypeOK, WorkersInv
    <3>2. [code |-> "missing", plan |-> NoRun] \in Row /\ Decided(b, NoRun)
      BY DEF Row, Decided
    <3>3. apply[w].phase # "idle"
      BY <2>3 DEF ReadFails, AtBook
    <3>4. WorkerOK(Reported(apply[w], b, "missing", NoRun), Len(revisions))
      BY <3>1, <3>2, <3>3, ReportedOK
    <3>5. faults' \in 0 .. MaxFaults
      BY <2>3, ConstantFacts DEF ReadFails, Inv, TypeOK
    <3>6. QED
      BY <2>3, <3>4, <3>5, WorkerOnly DEF ReadFails
  <2>4. CASE Write(w)
    BY <2>4, WriteInv
  <2>5. CASE WriteRefused(w)
    <3>1. WorkerOK(IdleApply, Len(revisions)) /\ faults \in 0 .. MaxFaults
      BY IdleOK DEF Inv, TypeOK
    <3>2. QED
      BY <2>5, <3>1, WorkerOnly DEF WriteRefused
  <2>6. CASE ApplyDies(w)
    BY <2>6, ApplyDiesInv
  <2>7. CASE StopApply(w)
    <3> DEFINE a == [apply[w] EXCEPT !.stop = TRUE]
    <3>1. WorkerOK(apply[w], Len(revisions)) /\ apply[w] \in ApplyState
          /\ faults \in 0 .. MaxFaults
      BY DEF Inv, TypeOK, WorkersInv
    <3>2. a \in ApplyState
      BY <3>1 DEF ApplyState
    <3>3. /\ a.plans = apply[w].plans /\ a.report = apply[w].report
          /\ a.todo = apply[w].todo /\ a.phase = apply[w].phase
          /\ a.run = apply[w].run /\ a.from = apply[w].from
          /\ a.revision = apply[w].revision
      BY <3>1 DEF ApplyState
    <3>4. WorkerOK(a, Len(revisions))
      BY <3>1, <3>2, <3>3 DEF WorkerOK
    <3>5. apply' = [apply EXCEPT ![w] = a]
      BY <2>7 DEF StopApply, Inv, TypeOK
    <3>6. QED
      BY <2>7, <3>1, <3>4, <3>5, WorkerOnly DEF StopApply
  <2>8. CASE ApplyEnd(w) \/ ApplyDiesReported(w)
    BY <2>8, ApplyEndInv
  <2>9. QED
    BY <1>1, <2>1, <2>2, <2>3, <2>4, <2>5, <2>6, <2>7, <2>8 DEF ApplyStep
<1>2. ASSUME NEW v \in Reverters, RevertStep(v)
      PROVE  Inv'
  <2>1. ASSUME NEW run \in RunId, NEW force \in Forces, RevertBegin(v, run, force)
        PROVE  Inv'
    BY <2>1, RevertBeginInv
  <2>2. CASE Inspect(v)
    BY <2>2, InspectInv
  <2>3. CASE Restore(v) \/ RestoreRefused(v) \/ RevertDies(v)
    BY <2>3, RestoringInv
  <2>4. QED
    BY <1>2, <2>1, <2>2, <2>3 DEF RevertStep
<1>3. CASE PeopleStep
  BY <1>3, PeopleInv
<1>4. CASE UNCHANGED vars
  BY <1>4 DEF vars, Inv, TypeOK, RowsInv, WorkersInv, RevertersInv
<1>5. QED
  BY <1>1, <1>2, <1>3, <1>4 DEF Next

\* Every reachable state satisfies the invariant.
THEOREM Invariance == Spec => []Inv
<1>1. Init => Inv
  BY InitInv
<1>2. Inv /\ [Next]_vars => Inv'
  BY NextInv
<1>3. QED
  BY <1>1, <1>2, PTL DEF Spec

\* Every reachable state of apply and revert is well typed: whatever is
\* interleaved, runApplyTask decides about books its plans are for, and
\* nothing it reports, records or restores falls outside its type.
THEOREM TypeCorrect == Spec => []TypeOK
<1>1. Inv => TypeOK
  BY DEF Inv
<1>2. QED
  BY <1>1, Invariance, PTL

\* Pointers held across an await lead somewhere: a patch under way
\* (applyPatch) to a revision of the table, a revert (runRevertTask) to
\* revisions of the table.
THEOREM PointersHold == Spec => [](WorkersInv /\ RevertersInv)
<1>1. Inv => WorkersInv /\ RevertersInv
  BY DEF Inv
<1>2. QED
  BY <1>1, Invariance, PTL

(***************************************************************************)
(* Write-ahead undo.                                                       *)
(***************************************************************************)
\* What WriteAhead asks of one step and one book.
Recoverable(b) ==
  Program /\ shelf'[b] # shelf[b] =>
    \E i \in DOMAIN revisions :
      /\ revisions[i].book = b
      /\ shelf'[b] \in {Patched(shelf[b], revisions[i].after),
                       Patched(shelf[b], revisions[i].before)}

LEMMA LandRecoverable ==
  ASSUME Inv, NEW w \in Workers, apply[w].phase = "writing", Land(w), NEW b \in Books
  PROVE  Recoverable(b)
<1> DEFINE i == apply[w].revision
<1>1. i \in DOMAIN revisions /\ revisions[i].book \in Books /\ shelf \in [Books -> Content]
  BY LandFacts, RevisionFacts DEF Inv, TypeOK
<1>2. shelf' = [shelf EXCEPT ![revisions[i].book] =
                  Patched(shelf[revisions[i].book], revisions[i].after)]
  BY DEF Land
<1>3. CASE b = revisions[i].book
  <2>1. shelf'[b] = Patched(shelf[b], revisions[i].after)
    BY <1>1, <1>2, <1>3
  <2>2. QED
    BY <1>1, <1>3, <2>1 DEF Recoverable
<1>4. CASE b # revisions[i].book
  <2>1. shelf'[b] = shelf[b]
    BY <1>1, <1>2, <1>4
  <2>2. QED
    BY <2>1 DEF Recoverable
<1>5. QED
  BY <1>3, <1>4

LEMMA PutBackRecoverable ==
  ASSUME Inv, NEW i \in DOMAIN revisions, PutBack(i), NEW b \in Books
  PROVE  Recoverable(b)
<1>1. revisions[i].book \in Books /\ shelf \in [Books -> Content]
  BY RevisionFacts DEF Inv, TypeOK
<1>2. shelf' = [shelf EXCEPT ![revisions[i].book] =
                  Patched(shelf[revisions[i].book], revisions[i].before)]
  BY DEF PutBack
<1>3. CASE b = revisions[i].book
  <2>1. shelf'[b] = Patched(shelf[b], revisions[i].before)
    BY <1>1, <1>2, <1>3
  <2>2. QED
    BY <1>3, <2>1 DEF Recoverable
<1>4. CASE b # revisions[i].book
  <2>1. shelf'[b] = shelf[b]
    BY <1>1, <1>2, <1>4
  <2>2. QED
    BY <2>1 DEF Recoverable
<1>5. QED
  BY <1>3, <1>4

LEMMA NextRecoverable ==
  ASSUME Inv, [Next]_vars, NEW b \in Books
  PROVE  Recoverable(b)
<1>1. ASSUME UNCHANGED shelf
      PROVE  Recoverable(b)
  BY <1>1 DEF Recoverable
<1>2. ASSUME NEW w \in Workers, ApplyStep(w)
      PROVE  Recoverable(b)
  <2>1. CASE Write(w)
    BY <2>1, LandRecoverable DEF Write
  <2>2. CASE ApplyDies(w)
    BY <1>1, <2>2, LandRecoverable DEF ApplyDies
  <2>3. CASE \E from \in RunId, items \in SUBSET Books, real \in BOOLEAN :
               ApplyBegin(w, from, items, real)
    BY <1>1, <2>3 DEF ApplyBegin
  <2>4. CASE \E c \in Books : Visit(w, c) \/ ReadFails(w, c)
    BY <1>1, <2>4 DEF Visit, ReadFails
  <2>5. CASE WriteRefused(w) \/ StopApply(w) \/ ApplyEnd(w) \/ ApplyDiesReported(w)
    BY <1>1, <2>5 DEF WriteRefused, StopApply, ApplyEnd, ApplyDiesReported
  <2>6. QED
    BY <1>2, <2>1, <2>2, <2>3, <2>4, <2>5 DEF ApplyStep
<1>3. ASSUME NEW v \in Reverters, RevertStep(v)
      PROVE  Recoverable(b)
  <2>1. ASSUME AtRestore(v), PutBack(Newest(v))
        PROVE  Recoverable(b)
    <3>1. Newest(v) \in DOMAIN revisions
      BY <2>1, NewestChosen DEF AtRestore
    <3>2. QED
      BY <2>1, <3>1, PutBackRecoverable
  <2>2. CASE Restore(v) \/ RevertDies(v)
    BY <1>1, <2>1, <2>2 DEF Restore, RevertDies
  <2>3. CASE Inspect(v) \/ RestoreRefused(v)
    BY <1>1, <2>3 DEF Inspect, RestoreRefused
  <2>4. CASE \E run \in RunId, force \in Forces : RevertBegin(v, run, force)
    BY <1>1, <2>4 DEF RevertBegin
  <2>5. QED
    BY <1>3, <2>2, <2>3, <2>4 DEF RevertStep
<1>4. CASE PeopleStep
  <2>1. CASE \E c \in Books : \E p \in OneField \cup OneTag(c) : Edit(c, p)
    <3>1. edits' = edits + 1 /\ edits \in Nat
      BY <2>1, ConstantFacts DEF Edit, Inv, TypeOK
    <3>2. QED
      BY <3>1 DEF Recoverable, Program
  <2>2. CASE (\E c \in Books : Delete(c)) \/ FlipSwitch
    BY <1>1, <2>2 DEF Delete, FlipSwitch
  <2>3. QED
    BY <1>4, <2>1, <2>2 DEF PeopleStep
<1>5. CASE UNCHANGED vars
  BY <1>1, <1>5 DEF vars
<1>6. QED
  BY <1>2, <1>3, <1>4, <1>5 DEF Next

\* applyPatch records before it writes: whatever applies, reverts, edits,
\* failures and crashes are interleaved, every change the program makes to a
\* book is one that the revisions table already holds.
THEOREM WriteAheadHolds == Spec => WriteAhead
<1> DEFINE Step == \A b \in Books : Recoverable(b)
<1>1. Inv /\ [Next]_vars => [Step]_vars
  BY NextRecoverable
<1>2. [Step]_vars => [\A b \in Books : Program /\ shelf'[b] # shelf[b] =>
                        \E i \in DOMAIN revisions :
                          /\ revisions[i].book = b
                          /\ shelf'[b] \in {Patched(shelf[b], revisions[i].after),
                                           Patched(shelf[b], revisions[i].before)}]_vars
  BY DEF Recoverable
<1>3. QED
  BY <1>1, <1>2, Invariance, PTL DEF Spec, WriteAhead

(***************************************************************************)
(* Reports, undo records and decisions.                                    *)
(***************************************************************************)
\* A write of run r to book b landed.
Landed(revs, r, b) ==
  \E i \in DOMAIN revs : revs[i].run = r /\ revs[i].book = b /\ revs[i].landed

\* What a worker remembers of its run tells the same story as the table revs:
\* nothing landed on a book it still has to visit, and of the others it reports
\* as written those where a write landed.  What it settled, it will report.
TellsOf(a, revs) ==
  a.phase # "idle" =>
    /\ a.from # a.run /\ a.run \notin Source
    /\ \A b \in a.todo : ~Landed(revs, a.run, b)
    /\ \A b \in Books \ a.todo : a.report[b].code = "written" <=> Landed(revs, a.run, b)
    /\ \A b \in a.settled : b \notin a.todo /\ a.report[b].code \in Settling
    /\ a.phase = "writing" => /\ revs[a.revision].run = a.run
                              /\ revs[a.revision].book \in a.todo

\* A run under way has an id of its own, and no report yet.
RunsInv ==
  /\ \A r \in RunId, b \in Books : r > lastRun => rows[r][b] = NoRow
  /\ \A s \in Source : s <= lastRun
  /\ \A i \in DOMAIN revisions : revisions[i].run <= lastRun
  /\ \A w \in Workers : Busy(w) => /\ apply[w].run <= lastRun
                                   /\ \A b \in Books : rows[apply[w].run][b] = NoRow
  /\ \A w, u \in Workers : w # u /\ Busy(w) /\ Busy(u) => apply[w].run # apply[u].run

TellingInv == \A w \in Workers : TellsOf(apply[w], revisions)

StoryInv == RunsInv /\ TellingInv /\ ReportMatchesUndo /\ NothingForgotten

--------------------------------------------------------------------------------
\* What a worker remembers, when it is not idle.
LEMMA BusyFacts ==
  ASSUME Inv, NEW w \in Workers, Busy(w)
  PROVE  /\ apply[w] \in ApplyState
         /\ apply[w].run \in RunId /\ apply[w].from \in RunId
         /\ apply[w].phase = "writing" => apply[w].revision \in DOMAIN revisions
BY DEF Inv, TypeOK, WorkersInv, WorkerOK, Busy

LEMMA NoRowFacts == NoRow.code = "none" /\ NoRow.plan = NoRun
BY DEF NoRow

LEMMA IdleTells == \A revs : TellsOf(IdleApply, revs)
BY DEF TellsOf, IdleApply

\* A report that another table does not contradict is still right.
LEMMA StillTells ==
  ASSUME NEW a, NEW revs, NEW more, TellsOf(a, revs),
         \A b \in Books \cup a.todo : Landed(more, a.run, b) <=> Landed(revs, a.run, b),
         a.phase = "writing" => /\ more[a.revision].run = revs[a.revision].run
                                /\ more[a.revision].book = revs[a.revision].book
  PROVE  TellsOf(a, more)
BY DEF TellsOf

LEMMA InitStory == ASSUME Init PROVE StoryInv
<1>0. Inv
  BY InitInv
<1>1. /\ \A r \in RunId, b \in Books :
           rows[r][b] = IF r \in Source /\ b \in DOMAIN Recorded[r]
                          THEN [code |-> "planned", plan |-> r] ELSE NoRow
      /\ revisions = <<>> /\ DOMAIN revisions = {}
      /\ \A w \in Workers : apply[w] = IdleApply /\ ~Busy(w)
      /\ lastRun \in Nat /\ Source = 1 .. lastRun
  BY ConstantFacts DEF Init, Busy, IdleApply
<1>2. RunsInv
  <2>1. \A s \in Source : s <= lastRun
    BY <1>1
  <2>2. \A r \in RunId, b \in Books : r > lastRun => rows[r][b] = NoRow
    <3>1. \A r \in RunId : r > lastRun => r \notin Source
      BY <1>1, ConstantFacts
    <3>2. QED
      BY <1>1, <3>1
  <2>3. QED
    BY <1>1, <2>1, <2>2 DEF RunsInv
<1>3. TellingInv
  BY <1>1, IdleTells DEF TellingInv
<1>4. ReportMatchesUndo
  <2>1. \A r \in RunId, b \in Books : rows[r][b].code # "written"
    <3> SUFFICES ASSUME NEW r \in RunId, NEW b \in Books PROVE rows[r][b].code # "written"
      OBVIOUS
    <3>1. rows[r][b] \in {[code |-> "planned", plan |-> r], NoRow}
      BY <1>1
    <3>2. QED
      BY <3>1, NoRowFacts
  <2>2. QED
    BY <1>1, <2>1 DEF ReportMatchesUndo
<1>5. NothingForgotten
  <2> SUFFICES ASSUME NEW b \in Books
               PROVE  LET decided == {s \in Source : b \in DOMAIN Recorded[s]}
                          offered == {rows[r][b].plan : r \in RunId}
                          reports == {r \in RunId \ Source : rows[r][b].code \in Settling}
                      IN Cardinality(decided \ offered) <= Cardinality(reports)
    BY DEF NothingForgotten
  <2> DEFINE decided == {s \in Source : b \in DOMAIN Recorded[s]}
             offered == {rows[r][b].plan : r \in RunId}
             reports == {r \in RunId \ Source : rows[r][b].code \in Settling}
  <2>1. ASSUME NEW s \in decided PROVE s \in RunId /\ rows[s][b].plan = s
    <3>1. s \in Source /\ b \in DOMAIN Recorded[s] /\ s \in RunId
      BY ConstantFacts
    <3>2. rows[s][b] = [code |-> "planned", plan |-> s]
      BY <1>1, <3>1
    <3>3. QED
      BY <3>1, <3>2
  <2>2. decided \ offered = {}
    BY <2>1
  <2>3. \A r \in RunId \ Source : rows[r][b].code = "none"
    BY <1>1, NoRowFacts
  <2>4. reports = {}
    BY <2>3 DEF Settling
  <2>5. Cardinality({}) <= Cardinality({})
    BY FS_EmptySet
  <2> HIDE DEF decided, offered, reports
  <2>6. Cardinality(decided \ offered) <= Cardinality(reports)
    BY <2>2, <2>4, <2>5
  <2>7. QED
    BY <2>6 DEF decided, offered, reports
<1>6. QED
  BY <1>2, <1>3, <1>4, <1>5 DEF StoryInv

\* A step of one worker that is not its report: what it writes is of its run.
LEMMA WorkerTold ==
  ASSUME Inv, StoryInv, NEW w \in Workers, NEW a, Busy(w),
         apply' = [apply EXCEPT ![w] = a],
         a.phase # "idle" => a.run = apply[w].run,
         TellsOf(a, revisions'), UNCHANGED <<rows, lastRun>>,
         \A r, b : r # apply[w].run => (Landed(revisions', r, b) <=> Landed(revisions, r, b)),
         \A i \in DOMAIN revisions' : revisions'[i].run <= lastRun,
         \A i \in DOMAIN revisions : /\ revisions'[i].run = revisions[i].run
                                     /\ revisions'[i].book = revisions[i].book
  PROVE  StoryInv'
<1>1. apply \in [Workers -> ApplyState]
  BY DEF Inv, TypeOK
<1>2. \A u \in Workers : apply'[u] = IF u = w THEN a ELSE apply[u]
  BY <1>1
<1>3. \A u \in Workers : Busy(u)' => Busy(u) /\ apply'[u].run = apply[u].run
  BY <1>2 DEF Busy
<1>4. RunsInv'
  BY <1>3 DEF StoryInv, RunsInv
<1>5. TellingInv'
  <2> SUFFICES ASSUME NEW u \in Workers PROVE TellsOf(apply'[u], revisions')
    BY DEF TellingInv
  <2>1. CASE u = w
    BY <1>2, <2>1
  <2>2. CASE u # w /\ ~Busy(u)
    BY <1>2, <2>2 DEF TellsOf, Busy
  <2>3. CASE u # w /\ Busy(u)
    <3>1. apply[u].run # apply[w].run /\ TellsOf(apply[u], revisions) /\ apply'[u] = apply[u]
      BY <1>2, <2>3 DEF StoryInv, RunsInv, TellingInv
    <3>2. apply[u].phase = "writing" => apply[u].revision \in DOMAIN revisions
      BY <2>3, BusyFacts
    <3>3. QED
      BY <3>1, <3>2, StillTells
  <2>4. QED
    BY <2>1, <2>2, <2>3
<1>6. ReportMatchesUndo'
  <2> SUFFICES ASSUME NEW r \in RunId, NEW b \in Books, rows[r][b].code # "none"
               PROVE  rows[r][b].code = "written" <=> Landed(revisions', r, b)
    BY DEF ReportMatchesUndo, Landed
  <2>1. r # apply[w].run
    BY NoRowFacts DEF StoryInv, RunsInv
  <2>2. rows[r][b].code = "written" <=> Landed(revisions, r, b)
    BY DEF StoryInv, ReportMatchesUndo, Landed
  <2>3. QED
    BY <2>1, <2>2
<1>7. NothingForgotten'
  BY DEF StoryInv, NothingForgotten
<1>8. QED
  BY <1>4, <1>5, <1>6, <1>7 DEF StoryInv

\* A step of anybody else: of the undo records only `reverted` changes.
LEMMA TableTold ==
  ASSUME StoryInv, UNCHANGED <<apply, rows, lastRun>>,
         DOMAIN revisions' = DOMAIN revisions,
         \A i \in DOMAIN revisions : /\ revisions'[i].run = revisions[i].run
                                     /\ revisions'[i].book = revisions[i].book
                                     /\ revisions'[i].landed = revisions[i].landed,
         Inv
  PROVE  StoryInv'
<1>1. \A r, b : Landed(revisions', r, b) <=> Landed(revisions, r, b)
  BY DEF Landed
<1>2. RunsInv'
  BY DEF StoryInv, RunsInv, Busy
<1>3. TellingInv'
  <2> SUFFICES ASSUME NEW u \in Workers PROVE TellsOf(apply[u], revisions')
    BY DEF TellingInv
  <2>1. CASE Busy(u)
    BY <1>1, <2>1, BusyFacts, StillTells DEF StoryInv, TellingInv
  <2>2. CASE ~Busy(u)
    BY <2>2 DEF TellsOf, Busy
  <2>3. QED
    BY <2>1, <2>2
<1>4. ReportMatchesUndo'
  <2> SUFFICES ASSUME NEW r \in RunId, NEW b \in Books, rows[r][b].code # "none"
               PROVE  rows[r][b].code = "written" <=> Landed(revisions', r, b)
    BY DEF ReportMatchesUndo, Landed
  <2>1. rows[r][b].code = "written" <=> Landed(revisions, r, b)
    BY DEF StoryInv, ReportMatchesUndo, Landed
  <2>2. QED
    BY <1>1, <2>1
<1>5. NothingForgotten'
  BY DEF StoryInv, NothingForgotten
<1>6. QED
  BY <1>2, <1>3, <1>4, <1>5 DEF StoryInv

\* Moving on from a book: what is settled is what has been said of it.
LEMMA ReportedTells ==
  ASSUME NEW a \in ApplyState, a.phase # "idle", NEW revs, NEW more, TellsOf(a, revs),
         NEW b \in a.todo, NEW code, NEW plan, [code |-> code, plan |-> plan] \in Row,
         plan = NoRun => code \in Settling,
         \A c : c # b => (Landed(more, a.run, c) <=> Landed(revs, a.run, c)),
         code = "written" <=> Landed(more, a.run, b)
  PROVE  TellsOf(Reported(a, b, code, plan), more)
<1> DEFINE new == Reported(a, b, code, plan)
<1>1. /\ new.todo = a.todo \ {b} /\ new.phase = "loop"
      /\ new.run = a.run /\ new.from = a.from
      /\ new.settled \in {a.settled, a.settled \cup {b}}
      /\ (new.settled # a.settled => plan = NoRun)
  BY DEF Reported, ApplyState
<1>2. b \in Books /\ a.todo \subseteq Books /\ a.settled \subseteq Books /\ b \notin a.settled
  BY DEF TellsOf, ApplyState
<1>3. \A c \in Books : new.report[c] = IF c = b THEN [code |-> code, plan |-> plan] ELSE a.report[c]
  BY DEF Reported, ApplyState
<1> HIDE DEF new
<1>4. \A c \in new.todo : ~Landed(more, a.run, c)
  BY <1>1 DEF TellsOf
<1>5. \A c \in Books \ new.todo : new.report[c].code = "written" <=> Landed(more, a.run, c)
  <2> SUFFICES ASSUME NEW c \in Books \ new.todo
               PROVE  new.report[c].code = "written" <=> Landed(more, a.run, c)
    OBVIOUS
  <2>1. CASE c = b
    BY <1>2, <1>3, <2>1
  <2>2. CASE c # b
    <3>1. c \in Books \ a.todo /\ new.report[c] = a.report[c]
      BY <1>1, <1>3, <2>2
    <3>2. a.report[c].code = "written" <=> Landed(revs, a.run, c)
      BY <3>1 DEF TellsOf
    <3>3. QED
      BY <2>2, <3>1, <3>2
  <2>3. QED
    BY <2>1, <2>2
<1>6. \A c \in new.settled : c \notin new.todo /\ new.report[c].code \in Settling
  <2> SUFFICES ASSUME NEW c \in new.settled
               PROVE  c \notin new.todo /\ new.report[c].code \in Settling
    OBVIOUS
  <2>1. CASE c = b
    <3>1. new.settled # a.settled
      BY <1>2, <2>1
    <3>2. QED
      BY <1>1, <1>2, <1>3, <2>1, <3>1
  <2>2. CASE c # b
    <3>1. c \in a.settled /\ c \in Books
      BY <1>1, <1>2, <2>2
    <3>2. c \notin a.todo /\ a.report[c].code \in Settling
      BY <3>1 DEF TellsOf
    <3>3. QED
      BY <1>1, <1>3, <2>2, <3>1, <3>2
  <2>3. QED
    BY <2>1, <2>2
<1>7. QED
  BY <1>1, <1>4, <1>5, <1>6 DEF TellsOf, new

LEMMA TableRuns ==
  ASSUME Inv, StoryInv
  PROVE  \A i \in DOMAIN revisions : revisions[i].run <= lastRun
BY DEF StoryInv, RunsInv

LEMMA BeginStory ==
  ASSUME Inv, StoryInv, NEW w \in Workers, NEW from \in RunId, NEW items \in SUBSET Books,
         NEW real \in BOOLEAN, ApplyBegin(w, from, items, real)
  PROVE  StoryInv'
<1> DEFINE a == [IdleApply EXCEPT !.phase = "loop", !.run = lastRun + 1, !.from = from,
                    !.real = real, !.mayReplace = mayReplace,
                    !.plans = [b \in Books |-> rows[from][b].plan],
                    !.todo = Waiting(from) \cap items]
<1>1. /\ apply' = [apply EXCEPT ![w] = a] /\ lastRun' = lastRun + 1
      /\ lastRun < MaxRuns /\ from \in 1 .. lastRun /\ ~Busy(w)
      /\ UNCHANGED <<rows, revisions>>
  BY DEF ApplyBegin
<1>2. /\ lastRun \in 0 .. MaxRuns /\ lastRun + 1 \in RunId /\ lastRun \in Nat
      /\ apply \in [Workers -> ApplyState]
  BY <1>1, ConstantFacts DEF Inv, TypeOK, RunId
<1>3. /\ a.phase = "loop" /\ a.run = lastRun + 1 /\ a.from = from
      /\ a.todo \subseteq Books
      /\ a.report = [b \in Books |-> NoRow] /\ a.settled = {}
  BY DEF IdleApply, Waiting
<1> HIDE DEF a
<1>4. \A i \in DOMAIN revisions : revisions[i].run \in Nat /\ revisions[i].run # lastRun + 1
  <2> SUFFICES ASSUME NEW i \in DOMAIN revisions
               PROVE  revisions[i].run \in Nat /\ revisions[i].run # lastRun + 1
    OBVIOUS
  <2>1. revisions[i].run \in Nat
    BY RevisionFacts, ConstantFacts DEF Inv
  <2>2. revisions[i].run <= lastRun
    BY TableRuns
  <2>3. QED
    BY <1>2, <2>1, <2>2
<1>5. \A b : ~Landed(revisions, lastRun + 1, b)
  BY <1>4 DEF Landed
<1>6. TellsOf(a, revisions)
  <2>1. lastRun + 1 \notin Source
    BY <1>2, ConstantFacts DEF StoryInv, RunsInv
  <2>2. a.from # a.run
    BY <1>1, <1>2, <1>3
  <2>3. QED
    BY <1>3, <1>5, <2>1, <2>2, NoRowFacts DEF TellsOf
<1>7. \A u \in Workers : apply'[u] = IF u = w THEN a ELSE apply[u]
  BY <1>1, <1>2
<1>8. RunsInv'
  <2>1. \A u \in Workers : Busy(u) => apply[u].run \in Nat /\ apply[u].run <= lastRun
    BY BusyFacts, ConstantFacts DEF StoryInv, RunsInv
  <2>2. \A u \in Workers : Busy(u)' => u = w \/ Busy(u)
    BY <1>7 DEF Busy
  <2>3. \A r \in RunId, b \in Books : r > lastRun + 1 => rows[r][b] = NoRow
    BY <1>2, ConstantFacts DEF StoryInv, RunsInv
  <2>4. \A b \in Books : rows[lastRun + 1][b] = NoRow
    BY <1>2 DEF StoryInv, RunsInv
  <2>5. \A s \in Source : s <= lastRun + 1
    BY <1>2, ConstantFacts DEF StoryInv, RunsInv
  <2>6. \A i \in DOMAIN revisions : revisions[i].run <= lastRun + 1
    BY <1>2, <1>4 DEF StoryInv, RunsInv
  <2>7. \A u \in Workers : Busy(u)' =>
          apply'[u].run <= lastRun + 1 /\ \A b \in Books : rows[apply'[u].run][b] = NoRow
    BY <1>2, <1>3, <1>7, <2>1, <2>2, <2>4 DEF StoryInv, RunsInv
  <2>8. \A u, v \in Workers : u # v /\ Busy(u)' /\ Busy(v)' => apply'[u].run # apply'[v].run
    BY <1>2, <1>3, <1>7, <2>1, <2>2 DEF StoryInv, RunsInv
  <2>9. QED
    BY <1>1, <2>3, <2>5, <2>6, <2>7, <2>8 DEF RunsInv
<1>9. TellingInv' /\ ReportMatchesUndo' /\ NothingForgotten'
  BY <1>1, <1>6, <1>7 DEF StoryInv, TellingInv, ReportMatchesUndo, NothingForgotten
<1>10. QED
  BY <1>8, <1>9 DEF StoryInv

\* Moving on from a book that was not written.
LEMMA MoveOnStory ==
  ASSUME Inv, StoryInv, NEW w \in Workers, apply[w].phase = "loop", NEW b \in apply[w].todo,
         NEW code, NEW plan, [code |-> code, plan |-> plan] \in Row,
         plan = NoRun => code \in Settling, code # "written",
         apply' = [apply EXCEPT ![w] = Reported(apply[w], b, code, plan)],
         UNCHANGED <<revisions, rows, lastRun>>
  PROVE  StoryInv'
<1> DEFINE a == apply[w]
           new == Reported(a, b, code, plan)
<1>1. Busy(w) /\ a \in ApplyState
  BY BusyFacts DEF Busy
<1>2. TellsOf(a, revisions) /\ ~Landed(revisions, a.run, b)
  BY DEF StoryInv, TellingInv, TellsOf
<1>3. TellsOf(new, revisions)
  BY <1>1, <1>2, ReportedTells
<1>4. new.run = a.run
  BY <1>1 DEF Reported, ApplyState
<1> HIDE DEF new
<1>5. apply' = [apply EXCEPT ![w] = new] /\ revisions' = revisions
  BY DEF new
<1>6. QED
  BY <1>1, <1>3, <1>4, <1>5, TableRuns, WorkerTold

LEMMA VisitStory ==
  ASSUME Inv, StoryInv, NEW w \in Workers, NEW b \in Books, Visit(w, b)
  PROVE  StoryInv'
<1> DEFINE a == apply[w]
           p == PlanOf(w, b)
           patch == PatchFor(p, shelf[b], a.mayReplace)
           verdict == Verdict(p, shelf[b], a.mayReplace)
           kept == a.plans[b]
           n == Len(revisions)
<1>1. /\ a.phase = "loop" /\ b \in a.todo /\ Busy(w)
      /\ UNCHANGED <<rows, lastRun>>
  BY DEF Visit, AtBook, Busy
<1>2. a \in ApplyState /\ kept \in Source /\ kept # NoRun /\ a.run \in RunId
  BY <1>1, PlanFacts, ConstantFacts, BusyFacts
<1>3. TellsOf(a, revisions) /\ ~Landed(revisions, a.run, b)
  BY <1>1 DEF StoryInv, TellingInv, TellsOf
<1>4. revisions \in Seq(Revision) /\ n \in Nat /\ apply \in [Workers -> ApplyState]
  BY DEF Inv, TypeOK
<1>5. CASE /\ revisions' = Append(revisions,
                [run |-> a.run, book |-> b, before |-> InversePatch(shelf[b], patch),
                 after |-> patch, landed |-> FALSE, reverted |-> FALSE])
           /\ apply' = [apply EXCEPT ![w].phase = "writing", ![w].revision = n + 1]
  <2> DEFINE rev == [run |-> a.run, book |-> b, before |-> InversePatch(shelf[b], patch),
                     after |-> patch, landed |-> FALSE, reverted |-> FALSE]
             new == [a EXCEPT !.phase = "writing", !.revision = n + 1]
  <2>1. rev.run = a.run /\ rev.book = b /\ rev.landed = FALSE
    OBVIOUS
  <2>2. revisions' = Append(revisions, rev)
    BY <1>5
  <2>3. apply' = [apply EXCEPT ![w] = new]
    BY <1>4, <1>5
  <2>4. /\ new.phase = "writing" /\ new.revision = n + 1 /\ new.run = a.run /\ new.from = a.from
        /\ new.todo = a.todo /\ new.report = a.report /\ new.settled = a.settled
    BY <1>2 DEF ApplyState
  <2> HIDE DEF rev, new
  <2>5. /\ DOMAIN revisions = 1 .. n /\ DOMAIN revisions' = 1 .. n + 1
        /\ \A i \in 1 .. n : revisions'[i] = revisions[i]
        /\ revisions'[n + 1] = rev
    BY <1>4, <2>2
  <2>6. \A r, c : Landed(revisions', r, c) <=> Landed(revisions, r, c)
    <3> SUFFICES ASSUME NEW r, NEW c PROVE Landed(revisions', r, c) <=> Landed(revisions, r, c)
      OBVIOUS
    <3>1. ASSUME NEW i \in 1 .. n + 1, revisions'[i].landed PROVE i \in 1 .. n
      BY <1>4, <2>1, <2>5, <3>1
    <3>2. 1 .. n \subseteq 1 .. n + 1
      BY <1>4
    <3>3. QED
      BY <2>5, <3>1, <3>2 DEF Landed
  <2>7. TellsOf(new, revisions')
    BY <1>1, <1>3, <1>4, <2>1, <2>4, <2>5, <2>6 DEF TellsOf
  <2>8. \A i \in DOMAIN revisions' : revisions'[i].run <= lastRun
    <3>1. a.run <= lastRun
      BY <1>1 DEF StoryInv, RunsInv
    <3>2. \A i \in 1 .. n + 1 : i \in 1 .. n \/ i = n + 1
      BY <1>4
    <3>3. QED
      BY <2>1, <2>5, <3>1, <3>2, TableRuns
  <2>9. \A i \in DOMAIN revisions : /\ revisions'[i].run = revisions[i].run
                                    /\ revisions'[i].book = revisions[i].book
    BY <2>5
  <2>10. QED
    BY <1>1, <2>3, <2>4, <2>6, <2>7, <2>8, <2>9, WorkerTold
<1>7. CASE /\ apply' = [apply EXCEPT ![w] = Reported(@, b, "planned", kept)]
           /\ UNCHANGED revisions
  <2>1. [code |-> "planned", plan |-> kept] \in Row
    BY <1>2 DEF Row
  <2>2. apply' = [apply EXCEPT ![w] = Reported(a, b, "planned", kept)]
    BY <1>7
  <2>3. QED
    BY <1>1, <1>2, <1>7, <2>1, <2>2, MoveOnStory
<1>8. CASE /\ verdict # "write"
           /\ apply' = [apply EXCEPT ![w] =
                Reported(@, b, verdict, IF verdict = "held-back" THEN kept ELSE NoRun)]
           /\ UNCHANGED revisions
  <2> DEFINE plan == IF verdict = "held-back" THEN kept ELSE NoRun
  <2>1. verdict \in {"held-back", "changed-since", "already-applied"}
    BY <1>8 DEF Verdict
  <2>2. [code |-> verdict, plan |-> plan] \in Row
    BY <1>2, <2>1 DEF Row
  <2>3. plan = NoRun => verdict \in Settling
    BY <1>2, <2>1 DEF Settling
  <2>4. apply' = [apply EXCEPT ![w] = Reported(a, b, verdict, plan)] /\ verdict # "written"
    BY <1>8, <2>1
  <2> HIDE DEF plan, verdict
  <2>5. QED
    BY <1>1, <1>8, <2>2, <2>3, <2>4, MoveOnStory
<1>9. QED
  BY <1>5, <1>7, <1>8 DEF Visit

\* A write that lands is of the writer's run, on the book it is at.
LEMMA LandStory ==
  ASSUME Inv, StoryInv, NEW w \in Workers, apply[w].phase = "writing", Land(w)
  PROVE  LET a == apply[w]
             book == revisions[a.revision].book IN
         /\ a.revision \in DOMAIN revisions /\ book \in a.todo
         /\ DOMAIN revisions' = DOMAIN revisions
         /\ \A i \in DOMAIN revisions : /\ revisions'[i].run = revisions[i].run
                                        /\ revisions'[i].book = revisions[i].book
         /\ Landed(revisions', a.run, book)
         /\ \A r, b : r # a.run \/ b # book =>
              (Landed(revisions', r, b) <=> Landed(revisions, r, b))
<1> DEFINE a == apply[w]
           i == a.revision
           book == revisions[i].book
<1>1. i \in DOMAIN revisions /\ revisions[i].run = a.run /\ book \in a.todo
  BY BusyFacts DEF StoryInv, TellingInv, TellsOf, Busy
<1>2. revisions \in Seq(Revision) /\ \A j \in DOMAIN revisions : revisions[j] \in Revision
  BY DEF Inv, TypeOK
<1>3. revisions' = [revisions EXCEPT ![i].landed = TRUE]
  BY DEF Land
<1> HIDE DEF i
<1>4. /\ DOMAIN revisions' = DOMAIN revisions
      /\ \A j \in DOMAIN revisions :
           /\ revisions'[j].run = revisions[j].run /\ revisions'[j].book = revisions[j].book
           /\ revisions'[j].landed = (j = i \/ revisions[j].landed)
  BY <1>1, <1>2, <1>3 DEF Revision
<1>5. QED
  BY <1>1, <1>4 DEF Landed, i

LEMMA WriteStory == ASSUME Inv, StoryInv, NEW w \in Workers, Write(w) PROVE StoryInv'
<1> DEFINE a == apply[w]
           book == revisions[a.revision].book
           new == Reported(a, book, "written", NoRun)
<1>1. /\ a.phase = "writing" /\ Land(w) /\ apply' = [apply EXCEPT ![w] = new]
      /\ UNCHANGED <<rows, lastRun>> /\ Busy(w)
  BY DEF Write, Busy
<1>2. a \in ApplyState
  BY <1>1, BusyFacts
<1>3. /\ book \in a.todo
      /\ DOMAIN revisions' = DOMAIN revisions
      /\ \A i \in DOMAIN revisions : /\ revisions'[i].run = revisions[i].run
                                     /\ revisions'[i].book = revisions[i].book
      /\ Landed(revisions', a.run, book)
      /\ \A r, b : r # a.run \/ b # book =>
           (Landed(revisions', r, b) <=> Landed(revisions, r, b))
  BY <1>1, LandStory
<1>4. TellsOf(a, revisions)
  BY DEF StoryInv, TellingInv
<1>5. [code |-> "written", plan |-> NoRun] \in Row /\ "written" \in Settling
  BY DEF Row, Settling
<1> HIDE DEF book
<1>6. TellsOf(new, revisions')
  BY <1>1, <1>2, <1>3, <1>4, <1>5, ReportedTells
<1>7. new.run = a.run
  BY <1>2 DEF Reported, ApplyState
<1>8. \A i \in DOMAIN revisions' : revisions'[i].run <= lastRun
  BY <1>3, TableRuns
<1> HIDE DEF new
<1>9. QED
  BY <1>1, <1>3, <1>6, <1>7, <1>8, WorkerTold

\* A worker that ends with no report leaves the books as it told nobody.
LEMMA DiesStory ==
  ASSUME Inv, StoryInv, NEW w \in Workers, ApplyDies(w) \/ WriteRefused(w) PROVE StoryInv'
<1>1. apply' = [apply EXCEPT ![w] = IdleApply] /\ Busy(w) /\ UNCHANGED <<rows, lastRun>>
  BY DEF ApplyDies, WriteRefused, Busy
<1>2. IdleApply.phase = "idle" /\ TellsOf(IdleApply, revisions')
  BY IdleTells DEF IdleApply
<1>3. CASE apply[w].phase = "writing" /\ Land(w)
  <2>1. /\ DOMAIN revisions' = DOMAIN revisions
        /\ \A i \in DOMAIN revisions : /\ revisions'[i].run = revisions[i].run
                                       /\ revisions'[i].book = revisions[i].book
        /\ \A r, b : r # apply[w].run =>
             (Landed(revisions', r, b) <=> Landed(revisions, r, b))
    BY <1>3, LandStory
  <2>2. \A i \in DOMAIN revisions' : revisions'[i].run <= lastRun
    BY <2>1, TableRuns
  <2>3. QED
    BY <1>1, <1>2, <2>1, <2>2, WorkerTold
<1>4. CASE UNCHANGED revisions
  <2>1. revisions' = revisions
    BY <1>4
  <2>2. QED
    BY <1>1, <1>2, <2>1, TableRuns, WorkerTold
<1>5. QED
  BY <1>3, <1>4 DEF ApplyDies, WriteRefused

LEMMA StopStory == ASSUME Inv, StoryInv, NEW w \in Workers, StopApply(w) PROVE StoryInv'
<1> DEFINE a == apply[w]
           new == [a EXCEPT !.stop = TRUE]
<1>1. Busy(w) /\ apply' = [apply EXCEPT ![w] = new] /\ UNCHANGED <<rows, revisions, lastRun>>
  BY DEF StopApply, Inv, TypeOK
<1>2. /\ new.phase = a.phase /\ new.run = a.run /\ new.from = a.from /\ new.todo = a.todo
      /\ new.report = a.report /\ new.settled = a.settled /\ new.revision = a.revision
  BY <1>1, BusyFacts DEF ApplyState
<1> HIDE DEF new
<1>3. TellsOf(new, revisions)
  BY <1>2 DEF StoryInv, TellingInv, TellsOf
<1>4. revisions' = revisions
  BY <1>1
<1>5. QED
  BY <1>1, <1>2, <1>3, <1>4, TableRuns, WorkerTold

LEMMA RevertStory == ASSUME Inv, StoryInv, NEW v \in Reverters, RevertStep(v) PROVE StoryInv'
<1>1. UNCHANGED <<apply, rows, lastRun>>
  BY DEF RevertStep, RevertBegin, Inspect, Restore, RestoreRefused, RevertDies
<1>2. CASE Restore(v)
  <2> DEFINE i == Newest(v)
  <2>1. revisions' = [revisions EXCEPT ![i].reverted = TRUE] /\ i \in DOMAIN revisions
    BY <1>2, NewestChosen DEF Restore, AtRestore
  <2>2. \A j \in DOMAIN revisions : revisions[j] \in Revision
    BY DEF Inv, TypeOK
  <2> HIDE DEF i
  <2>3. DOMAIN revisions' = DOMAIN revisions
        /\ \A j \in DOMAIN revisions : /\ revisions'[j].run = revisions[j].run
                                       /\ revisions'[j].book = revisions[j].book
                                       /\ revisions'[j].landed = revisions[j].landed
    BY <2>1, <2>2 DEF Revision
  <2>4. QED
    BY <1>1, <2>3, TableTold
<1>3. CASE ~Restore(v)
  <2>1. revisions' = revisions
    BY <1>3 DEF RevertStep, RevertBegin, Inspect, RestoreRefused, RevertDies
  <2>2. QED
    BY <1>1, <2>1, TableTold
<1>4. QED
  BY <1>2, <1>3

\* The rows once a run has reported: its own are its report, and of the others
\* only settled plans go, of the run they came from.
LEMMA EndRows ==
  ASSUME Inv, StoryInv, NEW w \in Workers, ApplyEnd(w) \/ ApplyDiesReported(w)
  PROVE  LET a == apply[w] IN
         /\ \A b \in Books : rows'[a.run][b] = ReportRows(a)[b]
         /\ \A r \in RunId, b \in Books : r # a.run =>
              /\ rows'[r][b].code = rows[r][b].code
              /\ rows[r][b] = NoRow => rows'[r][b] = NoRow
              /\ r # a.from \/ b \notin a.settled => rows'[r][b] = rows[r][b]
<1> DEFINE a == apply[w]
           own == ReportRows(a)
           left == Cleared(rows[a.from], a.settled)
<1>1. /\ \/ rows' = [rows EXCEPT ![a.run] = own, ![a.from] = left]
         \/ rows' = [rows EXCEPT ![a.run] = own]
      /\ Busy(w)
  BY DEF ApplyEnd, ApplyDiesReported, Busy
<1>2. /\ a.run \in RunId /\ a.from \in RunId /\ a.from # a.run
      /\ rows \in [RunId -> [Books -> Row]]
  BY <1>1, BusyFacts DEF StoryInv, TellingInv, TellsOf, Busy, Inv, TypeOK
<1> HIDE DEF own, left
<1>3. rows'[a.run] = own /\ \A r \in RunId : r # a.run => rows'[r] \in {rows[r], left}
      /\ (r # a.from => rows'[r] = rows[r])
  BY <1>1, <1>2
<1>4. \A x \in Row : LET y == [x EXCEPT !.plan = NoRun]
                     IN y.code = x.code /\ (x = NoRow => y = NoRow)
  BY DEF Row, NoRow
<1>5. \A b \in Books : /\ left[b].code = rows[a.from][b].code
                       /\ rows[a.from][b] = NoRow => left[b] = NoRow
                       /\ b \notin a.settled => left[b] = rows[a.from][b]
  BY <1>2, <1>4 DEF left, Cleared
<1>6. QED
  BY <1>3, <1>5 DEF own

\* One more report makes up for the one decision it settles about a book.
LEMMA EndForgets ==
  ASSUME Inv, StoryInv, NEW w \in Workers, ApplyEnd(w) \/ ApplyDiesReported(w)
  PROVE  NothingForgotten'
<1> DEFINE a == apply[w]
<1>0. Busy(w) /\ a.run \in RunId /\ a.from \in RunId /\ a \in ApplyState /\ TellsOf(a, revisions)
      /\ \A b \in Books : rows[a.run][b] = NoRow
  BY BusyFacts DEF StoryInv, TellingInv, RunsInv, Busy, ApplyEnd, ApplyDiesReported
<1>1. /\ \A b \in Books : rows'[a.run][b] = ReportRows(a)[b]
      /\ \A r \in RunId, b \in Books : r # a.run =>
           /\ rows'[r][b].code = rows[r][b].code
           /\ r # a.from \/ b \notin a.settled => rows'[r][b] = rows[r][b]
  BY EndRows
<1> SUFFICES ASSUME NEW b \in Books
             PROVE  LET decided == {s \in Source : b \in DOMAIN Recorded[s]}
                        offered == {rows'[r][b].plan : r \in RunId}
                        reports == {r \in RunId \ Source : rows'[r][b].code \in Settling}
                    IN Cardinality(decided \ offered) <= Cardinality(reports)
  BY DEF NothingForgotten
<1> DEFINE decided == {s \in Source : b \in DOMAIN Recorded[s]}
           offered == {rows[r][b].plan : r \in RunId}
           reports == {r \in RunId \ Source : rows[r][b].code \in Settling}
           offeredNow == {rows'[r][b].plan : r \in RunId}
           reportsNow == {r \in RunId \ Source : rows'[r][b].code \in Settling}
           lost == decided \ offered
           plan == rows[a.from][b].plan
<1>2. IsFiniteSet(RunId)
  BY FS_Interval, ConstantFacts DEF RunId
<1>3. IsFiniteSet(lost) /\ IsFiniteSet(reports) /\ IsFiniteSet(reportsNow)
  BY <1>2, FS_Subset, ConstantFacts
<1>4. Cardinality(lost) <= Cardinality(reports)
  BY DEF StoryInv, NothingForgotten
<1>5. /\ Cardinality(lost) \in Nat /\ Cardinality(reports) \in Nat
      /\ Cardinality(reportsNow) \in Nat
  BY <1>3, FS_CardinalityType
<1>6. reports \subseteq reportsNow
  <2>1. rows[a.run][b].code \notin Settling
    BY <1>0, NoRowFacts DEF Settling
  <2>2. QED
    BY <1>1, <2>1
<1>7. NoRun \notin decided
  BY ConstantFacts
<1>8. ASSUME NEW s \in decided \ offeredNow, s \notin lost
      PROVE  b \in a.settled /\ s = plan
  <2>1. PICK r \in RunId : rows[r][b].plan = s
    BY <1>8
  <2>2. r # a.run
    BY <1>0, <1>7, <2>1, NoRowFacts
  <2>3. rows'[r][b] # rows[r][b]
    BY <1>8, <2>1
  <2>4. QED
    BY <1>1, <2>1, <2>2, <2>3
<1> HIDE DEF decided, offered, reports, offeredNow, reportsNow, plan
<1>9. CASE b \notin a.settled
  <2>1. decided \ offeredNow \subseteq lost
    BY <1>8, <1>9
  <2>2. /\ Cardinality(decided \ offeredNow) <= Cardinality(lost)
        /\ Cardinality(decided \ offeredNow) \in Nat
    BY <1>3, <2>1, FS_Subset, FS_CardinalityType
  <2>3. Cardinality(reports) <= Cardinality(reportsNow)
    BY <1>3, <1>6, FS_Subset
  <2>4. Cardinality(decided \ offeredNow) <= Cardinality(reportsNow)
    BY <1>4, <1>5, <2>2, <2>3
  <2>5. QED
    BY <2>4 DEF decided, offeredNow, reportsNow
<1>10. CASE b \in a.settled
  <2>1. a.run \in reportsNow /\ a.run \notin reports
    <3>1. b \notin a.todo /\ a.report[b].code \in Settling /\ a.run \notin Source
      BY <1>0, <1>10 DEF TellsOf, Busy
    <3>2. rows'[a.run][b].code \in Settling
      BY <1>1, <3>1 DEF ReportRows
    <3>3. rows[a.run][b].code \notin Settling
      BY <1>0, NoRowFacts DEF Settling
    <3>4. QED
      BY <1>0, <3>1, <3>2, <3>3 DEF reports, reportsNow
  <2>2. /\ Cardinality(reports \cup {a.run}) = Cardinality(reports) + 1
        /\ reports \cup {a.run} \subseteq reportsNow
    BY <1>3, <1>6, <2>1, FS_AddElement
  <2>3. Cardinality(reports) + 1 <= Cardinality(reportsNow)
    BY <1>3, <2>2, FS_Subset
  <2>4. decided \ offeredNow \subseteq lost \cup {plan}
    BY <1>8
  <2>5. IsFiniteSet(lost \cup {plan}) /\ Cardinality(lost \cup {plan}) <= Cardinality(lost) + 1
    BY <1>3, <1>5, FS_AddElement
  <2>6. /\ Cardinality(decided \ offeredNow) <= Cardinality(lost \cup {plan})
        /\ Cardinality(decided \ offeredNow) \in Nat /\ Cardinality(lost \cup {plan}) \in Nat
    BY <2>4, <2>5, FS_Subset, FS_CardinalityType
  <2>7. Cardinality(decided \ offeredNow) <= Cardinality(reportsNow)
    BY <1>4, <1>5, <2>3, <2>5, <2>6
  <2>8. QED
    BY <2>7 DEF decided, offeredNow, reportsNow
<1>11. QED
  BY <1>9, <1>10

LEMMA EndStory ==
  ASSUME Inv, StoryInv, NEW w \in Workers, ApplyEnd(w) \/ ApplyDiesReported(w)
  PROVE  StoryInv'
<1> DEFINE a == apply[w]
<1>1. Busy(w) /\ apply' = [apply EXCEPT ![w] = IdleApply] /\ UNCHANGED <<revisions, lastRun>>
  BY DEF ApplyEnd, ApplyDiesReported, Busy
<1>2. \A u \in Workers : apply'[u] = IF u = w THEN IdleApply ELSE apply[u]
  BY <1>1 DEF Inv, TypeOK
<1>3. /\ a.run \in RunId /\ a.run <= lastRun /\ TellsOf(a, revisions)
      /\ lastRun \in Nat /\ a.run \in Nat
  <2>1. a.run \in RunId /\ a.run \in Nat
    BY <1>1, BusyFacts, ConstantFacts
  <2>2. a.run <= lastRun /\ TellsOf(a, revisions)
    BY <1>1 DEF StoryInv, RunsInv, TellingInv
  <2>3. lastRun \in Nat
    BY ConstantFacts DEF Inv, TypeOK
  <2>4. QED
    BY <2>1, <2>2, <2>3
<1>4. /\ \A b \in Books : rows'[a.run][b] = ReportRows(a)[b]
      /\ \A r \in RunId, b \in Books : r # a.run =>
           /\ rows'[r][b].code = rows[r][b].code
           /\ rows[r][b] = NoRow => rows'[r][b] = NoRow
  BY EndRows
<1>5. \A u \in Workers : Busy(u)' => u # w /\ Busy(u) /\ apply'[u] = apply[u]
  BY <1>2 DEF Busy, IdleApply
<1>6. RunsInv'
  <2>1. \A r \in RunId, b \in Books : r > lastRun => rows'[r][b] = NoRow
    BY <1>3, <1>4 DEF StoryInv, RunsInv
  <2>2. \A u \in Workers : Busy(u)' =>
          apply'[u].run <= lastRun /\ \A b \in Books : rows'[apply'[u].run][b] = NoRow
    BY <1>1, <1>4, <1>5, BusyFacts DEF StoryInv, RunsInv
  <2>3. QED
    BY <1>1, <1>5, <2>1, <2>2 DEF StoryInv, RunsInv
<1>7. TellingInv'
  BY <1>1, <1>2, IdleTells DEF StoryInv, TellingInv
<1>8. ReportMatchesUndo'
  <2> SUFFICES ASSUME NEW r \in RunId, NEW b \in Books, rows'[r][b].code # "none"
               PROVE  rows'[r][b].code = "written" <=> Landed(revisions, r, b)
    BY <1>1 DEF ReportMatchesUndo, Landed
  <2>1. CASE r # a.run
    <3>1. rows'[r][b].code = rows[r][b].code
      BY <1>4, <2>1
    <3>2. rows[r][b].code = "written" <=> Landed(revisions, r, b)
      BY <3>1 DEF StoryInv, ReportMatchesUndo, Landed
    <3>3. QED
      BY <3>1, <3>2
  <2>2. CASE r = a.run /\ b \in a.todo
    <3>1. rows'[r][b] = [code |-> "not-reached", plan |-> a.plans[b]]
      BY <1>4, <2>2 DEF ReportRows
    <3>2. ~Landed(revisions, r, b)
      BY <1>1, <1>3, <2>2 DEF TellsOf, Busy
    <3>3. QED
      BY <3>1, <3>2
  <2>3. CASE r = a.run /\ b \notin a.todo
    BY <1>1, <1>3, <1>4, <2>3 DEF TellsOf, ReportRows, Busy
  <2>4. QED
    BY <2>1, <2>2, <2>3
<1>9. QED
  BY <1>6, <1>7, <1>8, EndForgets DEF StoryInv

LEMMA NextStory == ASSUME Inv, StoryInv, [Next]_vars PROVE StoryInv'
<1>1. ASSUME NEW w \in Workers, ApplyStep(w) PROVE StoryInv'
  <2>1. ASSUME NEW b \in Books, ReadFails(w, b) PROVE StoryInv'
    <3>1. [code |-> "missing", plan |-> NoRun] \in Row /\ "missing" \in Settling
      BY DEF Row, Settling
    <3>2. QED
      BY <2>1, <3>1, MoveOnStory DEF ReadFails, AtBook
  <2>2. QED
    BY <1>1, <2>1, BeginStory, VisitStory, WriteStory, DiesStory, StopStory, EndStory DEF ApplyStep
<1>2. ASSUME NEW v \in Reverters, RevertStep(v) PROVE StoryInv'
  BY <1>2, RevertStory
<1>3. CASE PeopleStep \/ UNCHANGED vars
  <2>1. UNCHANGED <<apply, rows, lastRun, revisions>>
    BY <1>3 DEF PeopleStep, Delete, Edit, FlipSwitch, vars
  <2>2. QED
    BY <2>1, TableTold
<1>4. QED
  BY <1>1, <1>2, <1>3 DEF Next

LEMMA StoryHolds == Spec => []StoryInv
<1>1. Init => StoryInv
  BY InitStory
<1>2. Inv /\ StoryInv /\ [Next]_vars => StoryInv'
  BY NextStory
<1>3. QED
  BY <1>1, <1>2, Invariance, PTL DEF Spec

\* Whatever dies, stops or fails, and whoever applies the same report at once: a
\* book is reported as written exactly when a write of that run to it landed
\* (runApplyTask's report against applyPatch's undo records).
THEOREM ReportMatchesUndoHolds == Spec => []ReportMatchesUndo
<1>1. StoryInv => ReportMatchesUndo
  BY DEF StoryInv
<1>2. QED
  BY <1>1, StoryHolds, PTL

\* No decision goes without a report that says what became of it: for every book,
\* there are at least as many final words as there are decisions no longer on
\* offer (runApplyTask's `settled`, clearRunItemPlans).
THEOREM NothingForgottenHolds == Spec => []NothingForgotten
<1>1. StoryInv => NothingForgotten
  BY DEF StoryInv
<1>2. QED
  BY <1>1, StoryHolds, PTL

(***************************************************************************)
(* The switch, as long as people keep out of the program's way.            *)
(***************************************************************************)
\* One apply or one revert at a time, and the book being written still says
\* what it said when its patch was made.
Fresh(a, revs, books) ==
  a.phase = "writing" =>
    LET r == revs[a.revision] IN
    r.after = PatchFor(Recorded[a.plans[r.book]][r.book], books[r.book], a.mayReplace)

CareInv ==
  /\ \A w, u \in Workers : Busy(w) /\ Busy(u) => w = u
  /\ \A w \in Workers, v \in Reverters : ~ (Busy(w) /\ Restoring(v))
  /\ \A w \in Workers : Fresh(apply[w], revisions, shelf)

LEMMA InitCare == ASSUME Init PROVE CareInv
BY DEF Init, CareInv, Fresh, Busy, IdleApply, Restoring, IdleRevert

\* Only the one busy worker moved, and it is not writing now.
LEMMA NotWriting ==
  ASSUME Inv, CareInv, NEW w \in Workers, Busy(w), UNCHANGED revert, NEW a,
         apply' = [apply EXCEPT ![w] = a], a.phase # "writing"
  PROVE  CareInv'
<1>1. \A u \in Workers : apply'[u] = IF u = w THEN a ELSE apply[u]
  BY DEF Inv, TypeOK
<1>2. \A u \in Workers : Busy(u)' => u = w
  BY <1>1 DEF CareInv, Busy
<1>3. \A u \in Workers : apply'[u].phase # "writing"
  BY <1>1, <1>2 DEF Busy
<1>4. \A v \in Reverters : ~Restoring(v)'
  BY DEF CareInv, Restoring
<1>5. QED
  BY <1>2, <1>3, <1>4 DEF CareInv, Fresh

LEMMA VisitCare ==
  ASSUME Inv, CareInv, NEW w \in Workers, NEW b \in Books, Visit(w, b)
  PROVE  CareInv'
<1> DEFINE a == apply[w]
           p == PlanOf(w, b)
           patch == PatchFor(p, shelf[b], a.mayReplace)
           n == Len(revisions)
           new == [a EXCEPT !.phase = "writing", !.revision = n + 1]
<1>1. Busy(w) /\ UNCHANGED <<revert, shelf>> /\ a \in ApplyState
  BY BusyFacts DEF Visit, AtBook, Busy
<1>2. CASE /\ revisions' = Append(revisions,
                [run |-> a.run, book |-> b, before |-> InversePatch(shelf[b], patch),
                 after |-> patch, landed |-> FALSE, reverted |-> FALSE])
           /\ apply' = [apply EXCEPT ![w].phase = "writing", ![w].revision = n + 1]
  <2> DEFINE rev == [run |-> a.run, book |-> b, before |-> InversePatch(shelf[b], patch),
                     after |-> patch, landed |-> FALSE, reverted |-> FALSE]
  <2>1. rev.book = b /\ rev.after = patch
    OBVIOUS
  <2>2. apply' = [apply EXCEPT ![w] = new]
    BY <1>2 DEF Inv, TypeOK
  <2>3. \A u \in Workers : apply'[u] = IF u = w THEN new ELSE apply[u]
    BY <2>2 DEF Inv, TypeOK
  <2>4. /\ new.revision = n + 1 /\ new.plans = a.plans /\ new.mayReplace = a.mayReplace
    BY <1>1 DEF ApplyState
  <2> HIDE DEF rev, new, patch
  <2>5. revisions'[n + 1] = rev
    <3>1. revisions \in Seq(Revision)
      BY DEF Inv, TypeOK
    <3>2. QED
      BY <1>2, <3>1 DEF rev
  <2>6. \A u \in Workers : Busy(u)' => u = w
    BY <1>1, <2>3 DEF CareInv, Busy
  <2>7. \A v \in Reverters : ~Restoring(v)'
    BY <1>1 DEF CareInv, Restoring
  <2>8. Fresh(new, revisions', shelf)
    <3>1. revisions'[new.revision].book = b /\ revisions'[new.revision].after = patch
      BY <2>1, <2>4, <2>5
    <3>2. patch = PatchFor(Recorded[new.plans[b]][b], shelf[b], new.mayReplace)
      BY <2>4 DEF patch, PlanOf
    <3>3. QED
      BY <3>1, <3>2 DEF Fresh
  <2>9. Fresh(apply'[w], revisions', shelf')
    BY <1>1, <2>3, <2>8
  <2>10. \A u \in Workers : apply'[u].phase = "writing" => u = w
    BY <2>6 DEF Busy
  <2>11. QED
    <3>1. \A u \in Workers : Fresh(apply'[u], revisions', shelf')
      BY <2>9, <2>10 DEF Fresh
    <3>2. QED
      BY <2>6, <2>7, <3>1 DEF CareInv
<1>3. ASSUME NEW code, NEW plan, apply' = [apply EXCEPT ![w] = Reported(a, b, code, plan)]
      PROVE  CareInv'
  <2>1. Reported(a, b, code, plan).phase # "writing"
    BY <1>1 DEF Reported, ApplyState
  <2>2. QED
    BY <1>1, <1>3, <2>1, NotWriting
<1>4. QED
  BY <1>2, <1>3 DEF Visit

LEMMA WorkerCare == ASSUME Careful, Inv, CareInv, NEW w \in Workers, ApplyStep(w) PROVE CareInv'
<1>1. ASSUME NEW from \in RunId, NEW items \in SUBSET Books, NEW real \in BOOLEAN,
             ApplyBegin(w, from, items, real)
      PROVE  CareInv'
  <2>1. /\ \A u \in Workers : ~Busy(u)
        /\ \A v \in Reverters : ~Restoring(v)
    BY <1>1 DEF ApplyBegin
  <2> DEFINE a == [IdleApply EXCEPT !.phase = "loop", !.run = lastRun + 1, !.from = from,
                     !.real = real, !.mayReplace = mayReplace,
                     !.plans = [b \in Books |-> rows[from][b].plan],
                     !.todo = Waiting(from) \cap items]
  <2>2. apply' = [apply EXCEPT ![w] = a] /\ a.phase = "loop"
    BY <1>1 DEF ApplyBegin, IdleApply
  <2> HIDE DEF a
  <2>3. \A u \in Workers : apply'[u] = IF u = w THEN a ELSE apply[u]
    BY <2>2 DEF Inv, TypeOK
  <2>4. \A u \in Workers : (Busy(u)' => u = w) /\ apply'[u].phase # "writing"
    BY <2>1, <2>2, <2>3 DEF Busy
  <2>5. revert' = revert
    BY <1>1 DEF ApplyBegin
  <2>6. QED
    BY <2>1, <2>4, <2>5 DEF CareInv, Fresh, Restoring
<1>2. ASSUME NEW b \in Books, ReadFails(w, b) PROVE CareInv'
  <2>1. Busy(w) /\ revert' = revert
        /\ apply' = [apply EXCEPT ![w] = Reported(apply[w], b, "missing", NoRun)]
    BY <1>2 DEF ReadFails, AtBook, Busy
  <2>2. Reported(apply[w], b, "missing", NoRun).phase # "writing"
    BY <2>1, BusyFacts DEF Reported, ApplyState
  <2>3. QED
    BY <2>1, <2>2, NotWriting
<1>3. CASE Write(w)
  <2> DEFINE b == revisions[apply[w].revision].book
  <2>1. Busy(w) /\ revert' = revert
        /\ apply' = [apply EXCEPT ![w] = Reported(apply[w], b, "written", NoRun)]
    BY <1>3 DEF Write, Busy
  <2>2. Reported(apply[w], b, "written", NoRun).phase # "writing"
    BY <2>1, BusyFacts DEF Reported, ApplyState
  <2>3. QED
    BY <2>1, <2>2, NotWriting
<1>4. CASE WriteRefused(w) \/ ApplyDies(w) \/ ApplyEnd(w) \/ ApplyDiesReported(w)
  <2>1. Busy(w) /\ revert' = revert /\ apply' = [apply EXCEPT ![w] = IdleApply]
    BY <1>4 DEF WriteRefused, ApplyDies, ApplyEnd, ApplyDiesReported, Busy
  <2>2. IdleApply.phase # "writing"
    BY DEF IdleApply
  <2>3. QED
    BY <2>1, <2>2, NotWriting
<1>5. CASE StopApply(w)
  <2> DEFINE new == [apply[w] EXCEPT !.stop = TRUE]
  <2>1. Busy(w) /\ UNCHANGED <<revert, shelf, revisions>>
        /\ apply' = [apply EXCEPT ![w] = new]
    BY <1>5 DEF StopApply, Inv, TypeOK
  <2>2. /\ new.phase = apply[w].phase /\ new.revision = apply[w].revision
        /\ new.plans = apply[w].plans /\ new.mayReplace = apply[w].mayReplace
    BY <2>1, BusyFacts DEF ApplyState
  <2> HIDE DEF new
  <2>3. \A u \in Workers : /\ apply'[u].phase = apply[u].phase
                           /\ apply'[u].revision = apply[u].revision
                           /\ apply'[u].plans = apply[u].plans
                           /\ apply'[u].mayReplace = apply[u].mayReplace
    BY <2>1, <2>2 DEF Inv, TypeOK
  <2>4. QED
    <3>1. \A u \in Workers : Fresh(apply'[u], revisions', shelf')
      BY <2>1, <2>3 DEF CareInv, Fresh
    <3>2. QED
      BY <2>1, <2>3, <3>1 DEF CareInv, Busy, Restoring
<1>6. QED
  BY <1>1, <1>2, <1>3, <1>4, <1>5, VisitCare DEF ApplyStep

LEMMA RevertCare == ASSUME Careful, Inv, CareInv, NEW v \in Reverters, RevertStep(v) PROVE CareInv'
<1>1. UNCHANGED apply
  BY DEF RevertStep, RevertBegin, Inspect, Restore, RestoreRefused, RevertDies
<1>2. Restoring(v) \/ \A w \in Workers : ~Busy(w)
  BY DEF RevertStep, RevertBegin, Inspect, Restore, RestoreRefused, RevertDies, AtRestore, Restoring
<1>3. \A w \in Workers : ~Busy(w) /\ ~Busy(w)' /\ apply'[w].phase # "writing"
  BY <1>1, <1>2 DEF CareInv, Busy
<1>4. QED
  BY <1>3 DEF CareInv, Fresh

LEMMA PeopleCare == ASSUME Careful, Inv, CareInv, PeopleStep PROVE CareInv'
<1>1. UNCHANGED <<revisions, apply, revert>>
  BY DEF PeopleStep, Delete, Edit, FlipSwitch
<1>2. ASSUME NEW w \in Workers, apply[w].phase = "writing"
      PROVE  LET c == revisions[apply[w].revision].book IN shelf'[c] = shelf[c]
  <2>1. CASE \E b \in Books : \E p \in OneField \cup OneTag(b) : Edit(b, p)
    <3>1. PICK b \in Books : \E p \in OneField \cup OneTag(b) : Edit(b, p)
      BY <2>1
    <3>2. PICK p \in OneField \cup OneTag(b) : Edit(b, p)
      BY <3>1
    <3>3. revisions[apply[w].revision].book # b
      BY <1>2, <3>2 DEF Edit, CarefulEdit, InHand
    <3>4. revisions[apply[w].revision].book \in Books
      BY <1>2, BusyFacts, RevisionFacts DEF Busy, Inv
    <3>5. QED
      BY <3>2, <3>3, <3>4 DEF Edit, Inv, TypeOK
  <2>2. CASE (\E b \in Books : Delete(b)) \/ FlipSwitch
    BY <2>2 DEF Delete, FlipSwitch
  <2>3. QED
    BY <2>1, <2>2 DEF PeopleStep
<1>3. QED
  BY <1>1, <1>2 DEF CareInv, Fresh, Busy, Restoring

LEMMA NextCare == ASSUME Careful, Inv, CareInv, [Next]_vars PROVE CareInv'
<1>1. CASE UNCHANGED vars
  BY <1>1 DEF vars, CareInv, Fresh, Busy, Restoring
<1>2. QED
  BY <1>1, WorkerCare, RevertCare, PeopleCare DEF Next

LEMMA CareHolds == ASSUME Careful PROVE Spec => []CareInv
<1>1. Init => CareInv
  BY InitCare
<1>2. Inv /\ CareInv /\ [Next]_vars => CareInv'
  BY NextCare
<1>3. QED
  BY <1>1, <1>2, Invariance, PTL DEF Spec

\* Of a patch that keeps to the switch, a field of a normalize was blank or is
\* added to.
LEMMA KeptFields ==
  ASSUME NEW p, NEW c, NEW f \in DOMAIN PatchFor(p, c, FALSE).text, p.kind = "normalize"
  PROVE  c.text[f] = "" \/ p.change[f].additive
<1>1. f \in Keep(p, c, FALSE)
  BY DEF PatchFor
<1>2. c.text[f] = p.change[f].from
  BY <1>1 DEF Keep, Outdated
<1>3. p.change[f].from = "" \/ p.change[f].additive
  BY <1>1 DEF Keep, Held
<1>4. QED
  BY <1>2, <1>3

\* What SwitchHonoured asks of one step, one worker and one book.
Honoured(w, b) ==
  Program /\ Writing(w, b) /\ ~apply[w].mayReplace =>
    \A f \in Fields : shelf'[b].text[f] # shelf[b].text[f] =>
      LET p == PlanOf(w, b) IN
      p.kind = "normalize" => shelf[b].text[f] = "" \/ p.change[f].additive

LEMMA NextHonoured ==
  ASSUME Careful, Inv, CareInv, [Next]_vars, NEW w \in Workers, NEW b \in Books
  PROVE  Honoured(w, b)
<1> SUFFICES ASSUME Program, Writing(w, b), ~apply[w].mayReplace, shelf' # shelf,
                    NEW f \in Fields, shelf'[b].text[f] # shelf[b].text[f],
                    PlanOf(w, b).kind = "normalize"
             PROVE  shelf[b].text[f] = "" \/ PlanOf(w, b).change[f].additive
  BY DEF Honoured
<1> DEFINE r == revisions[apply[w].revision]
<1>1. Busy(w) /\ r.book = b /\ apply[w].revision \in DOMAIN revisions /\ apply[w].mayReplace = FALSE
  BY BusyFacts DEF Writing, Busy, ApplyState
<1>2. r.after = PatchFor(PlanOf(w, b), shelf[b], FALSE)
  BY <1>1 DEF CareInv, Fresh, Writing, PlanOf
<1>3. Land(w)
  <2>1. ASSUME NEW u \in Workers, ApplyStep(u) PROVE Land(w)
    <3>1. u = w
      <4>1. Busy(u)
        BY <1>1, <2>1 DEF ApplyStep, ApplyBegin, Visit, ReadFails, AtBook, Write, WriteRefused,
                          ApplyDies, StopApply, ApplyEnd, ApplyDiesReported, Busy
      <4>2. QED
        BY <1>1, <4>1 DEF CareInv
    <3>2. Land(u)
      BY <2>1 DEF ApplyStep, ApplyBegin, Visit, ReadFails, Write, WriteRefused,
                  ApplyDies, StopApply, ApplyEnd, ApplyDiesReported
    <3>3. QED
      BY <3>1, <3>2
  <2>2. ASSUME NEW v \in Reverters, RevertStep(v) PROVE FALSE
    <3>1. Restoring(v) \/ ~Busy(w)
      BY <2>2 DEF RevertStep, RevertBegin, Inspect, Restore, RestoreRefused, RevertDies,
                  AtRestore, Restoring
    <3>2. QED
      BY <1>1, <3>1 DEF CareInv
  <2>3. CASE PeopleStep
    <3>1. edits \in Nat
      BY ConstantFacts DEF Inv, TypeOK
    <3>2. edits' = edits + 1
      BY <2>3 DEF PeopleStep, Edit, Delete, FlipSwitch
    <3>3. QED
      BY <3>1, <3>2 DEF Program
  <2>4. QED
    BY <2>1, <2>2, <2>3 DEF Next, vars
<1>4. shelf'[b] = Patched(shelf[b], r.after)
  <2>1. shelf' = [shelf EXCEPT ![r.book] = Patched(@, r.after)]
    BY <1>3 DEF Land
  <2>2. QED
    BY <1>1, <2>1 DEF Inv, TypeOK
<1>5. f \in DOMAIN PatchFor(PlanOf(w, b), shelf[b], FALSE).text
  <2> DEFINE p == PatchFor(PlanOf(w, b), shelf[b], FALSE)
  <2>1. shelf'[b] = Patched(shelf[b], p)
    BY <1>2, <1>4
  <2> HIDE DEF p
  <2>2. shelf'[b].text[f] = IF f \in DOMAIN p.text THEN p.text[f] ELSE shelf[b].text[f]
    BY <2>1 DEF Patched
  <2>3. f \in DOMAIN p.text
    BY <2>2
  <2>4. QED
    BY <2>3 DEF p
<1>6. QED
  BY <1>5, KeptFields

\* With "Allow metadata rewrite" off when the run began, a normalize fills blanks
\* and adds to lists and replaces nothing, whatever the library, the plans and
\* the failures are, as long as one apply or revert runs at a time and nobody
\* edits a book between its being read and its being written (decideNormalize,
\* core/apply.ts).
THEOREM SwitchHonouredHolds == ASSUME Careful PROVE Spec => SwitchHonoured
<1> DEFINE Step == \A w \in Workers, b \in Books : Honoured(w, b)
<1>1. Inv /\ CareInv /\ [Next]_vars => [Step]_vars
  BY NextHonoured
<1>2. Step <=> \A w \in Workers, b \in Books :
                 Program /\ Writing(w, b) /\ ~apply[w].mayReplace =>
                   \A f \in Fields : shelf'[b].text[f] # shelf[b].text[f] =>
                     LET p == PlanOf(w, b) IN
                     p.kind = "normalize" => shelf[b].text[f] = "" \/ p.change[f].additive
  BY DEF Honoured
<1>3. QED
  BY <1>1, <1>2, Invariance, CareHolds, PTL DEF Spec, SwitchHonoured

(***************************************************************************)
(* The way back, as long as people are careful, nobody forces a revert and *)
(* no value comes back.                                                    *)
(***************************************************************************)
\* Of a chain of revisions, those older than one of them go on from what it
\* found.
LEMMA CutAt ==
  ASSUME NEW S \in SUBSET Nat, NEW after, NEW before, NEW s, NEW h,
         Leads(S, after, before, s, h), NEW k \in S
  PROVE  Leads({j \in S : j < k}, after, before, before[k], h)
<1> DEFINE T == {j \in S : j < k}
<1>1. T = {} => before[k] = h
  <2>1. T = {} => \A j \in S : k <= j
    OBVIOUS
  <2>2. QED
    BY <2>1 DEF Leads
<1>2. ASSUME NEW i \in T, \A j \in T : j <= i PROVE after[i] = before[k]
  <2>1. i < k /\ \A j \in S : j <= i \/ k <= j
    BY <1>2
  <2>2. QED
    BY <2>1 DEF Leads
<1>3. ASSUME NEW i \in T, \A j \in T : i <= j PROVE before[i] = h
  <2>1. i \in S /\ \A j \in S : i <= j
    BY <1>3
  <2>2. QED
    BY <2>1 DEF Leads
<1>4. ASSUME NEW i \in T, NEW j \in T, i < j, \A m \in T : m <= i \/ j <= m
      PROVE  before[j] = after[i]
  <2>1. \A m \in S : m <= i \/ j <= m
    BY <1>4
  <2>2. QED
    BY <1>4, <2>1 DEF Leads
<1>5. QED
  BY <1>1, <1>2, <1>3, <1>4 DEF Leads

\* A newer revision that found the value a chain starts from prolongs it.
LEMMA AddOnTop ==
  ASSUME NEW S \in SUBSET Nat, NEW after, NEW before, NEW h, NEW k \in Nat,
         \A j \in S : j < k, Leads(S, after, before, before[k], h)
  PROVE  Leads(S \cup {k}, after, before, after[k], h)
<1> DEFINE T == S \cup {k}
<1>1. T # {} /\ \A j \in T : j <= k
  OBVIOUS
<1>2. ASSUME NEW i \in T, \A j \in T : j <= i PROVE after[i] = after[k]
  <2>1. i = k
    BY <1>2
  <2>2. QED
    BY <2>1
<1>3. ASSUME NEW i \in T, \A j \in T : i <= j PROVE before[i] = h
  <2>1. CASE i = k
    <3>1. S = {}
      BY <1>3, <2>1
    <3>2. QED
      BY <2>1, <3>1 DEF Leads
  <2>2. CASE i # k
    BY <1>3, <2>2 DEF Leads
  <2>3. QED
    BY <2>1, <2>2
<1>4. ASSUME NEW i \in T, NEW j \in T, i < j, \A m \in T : m <= i \/ j <= m
      PROVE  before[j] = after[i]
  <2>1. i \in S
    BY <1>4
  <2>2. CASE j = k
    <3>1. \A m \in S : m <= i
      BY <1>4, <2>2
    <3>2. QED
      BY <2>1, <2>2, <3>1 DEF Leads
  <2>3. CASE j # k
    BY <1>4, <2>1, <2>3 DEF Leads
  <2>4. QED
    BY <2>2, <2>3
<1>5. QED
  BY <1>1, <1>2, <1>3, <1>4 DEF Leads

\* What is pending may grow: a way back stays one.
LEMMA WayStays ==
  ASSUME NEW P, NEW after, NEW before, NEW s, NEW h, Way(P, after, before, s, h),
         NEW Q, NEW after2, NEW before2, P \subseteq Q,
         \A i \in P : after2[i] = after[i] /\ before2[i] = before[i]
  PROVE  Way(Q, after2, before2, s, h)
<1>1. PICK S \in SUBSET P : Leads(S, after, before, s, h)
  BY DEF Way
<1>2. Leads(S, after2, before2, s, h)
  BY <1>1 DEF Leads
<1>3. QED
  BY <1>1, <1>2 DEF Way

\* The newest revision lands where it was made for.
LEMMA WayLands ==
  ASSUME NEW P \in SUBSET Nat, NEW after, NEW before, NEW h, NEW k \in P, \A j \in P : j <= k,
         Way(P, after, before, before[k], h)
  PROVE  Way(P, after, before, after[k], h)
<1>1. PICK S \in SUBSET P : Leads(S, after, before, before[k], h)
  BY DEF Way
<1>2. CASE k \in S
  <2>1. after[k] = before[k]
    BY <1>1, <1>2 DEF Leads
  <2>2. QED
    BY <1>1, <2>1 DEF Way
<1>3. CASE k \notin S
  <2>1. \A j \in S : j < k
    BY <1>3
  <2>2. Leads(S \cup {k}, after, before, after[k], h)
    BY <1>1, <2>1, AddOnTop
  <2>3. QED
    BY <2>2 DEF Way
<1>4. QED
  BY <1>2, <1>3

\* Where people typed, no way back is needed.
LEMMA WayTyped == ASSUME NEW P, NEW after, NEW before, NEW h PROVE Way(P, after, before, h, h)
<1>1. Leads({}, after, before, h, h)
  BY DEF Leads
<1>2. QED
  BY <1>1 DEF Way

\* A revision that finds what it left is put back: where no value comes back,
\* one of the chain's own found the same, and the older ones go on from there.
LEMMA WayRestored ==
  ASSUME NEW n \in Nat, NEW P \in SUBSET (1 .. n), NEW after, NEW before, NEW h, NEW i \in P,
         NEW s, s = after[i], Way(P, after, before, s, h), NoReturn(P, after, before, h),
         NEW t, t = before[i], NEW Q, NEW after2, NEW before2, P \ {i} \subseteq Q,
         \A j \in P \ {i} : after2[j] = after[j] /\ before2[j] = before[j]
  PROVE  Way(Q, after2, before2, t, h)
<1>1. PICK S \in SUBSET P : Leads(S, after, before, after[i], h)
  BY DEF Way
<1>2. S # {}
  BY <1>1 DEF Leads, NoReturn
<1>3. S \in SUBSET (1 .. n) /\ S \in SUBSET Nat
  OBVIOUS
<1>4. PICK k \in S : before[k] = before[i] /\ i \notin {j \in S : j < k}
  <2>1. CASE i \in S
    BY <2>1
  <2>2. CASE i \notin S
    <3>1. PICK k \in S : \A j \in S : j <= k
      BY <1>2, <1>3, GreatestNat
    <3>2. after[k] = after[i]
      BY <1>1, <3>1 DEF Leads
    <3>3. before[k] = before[i]
      BY <3>2 DEF NoReturn
    <3>4. QED
      BY <2>2, <3>3
  <2>3. QED
    BY <2>1, <2>2
<1> DEFINE T == {j \in S : j < k}
<1>5. Leads(T, after, before, before[i], h)
  BY <1>1, <1>3, <1>4, CutAt
<1>6. T \subseteq P \ {i}
  BY <1>4
<1> HIDE DEF T
<1>7. Leads(T, after2, before2, before[i], h)
  BY <1>5, <1>6 DEF Leads
<1>8. QED
  BY <1>6, <1>7 DEF Way

--------------------------------------------------------------------------------
\* A way back is a whole one, and of each run a book has at most one.
RecordsInv ==
  /\ \A i \in DOMAIN revisions :
       /\ DOMAIN revisions[i].before.text = DOMAIN revisions[i].after.text
       /\ revisions[i].before.tags = {} <=> revisions[i].after.tags = {}
  /\ \A i, j \in DOMAIN revisions :
       revisions[i].run = revisions[j].run /\ revisions[i].book = revisions[j].book => i = j

\* What a run has recorded, it will not visit again, and what it is writing is
\* the newest record, of the book as it is.
Recording(a, revs, books) ==
  /\ \A i \in DOMAIN revs :
       revs[i].run = a.run /\ revs[i].book \in a.todo => a.phase = "writing" /\ i = a.revision
  /\ a.phase = "writing" =>
       LET r == revs[a.revision] IN
       /\ a.revision = Len(revs) /\ ~r.reverted
       /\ r.before = InversePatch(books[r.book], r.after)

RecordingInv == \A w \in Workers : Busy(w) => Recording(apply[w], revisions, shelf)

\* A revert holds pending revisions of one run, and the books of those it
\* chose read the way they were left.
Holding(x, revs, books) ==
  /\ ~x.force
  /\ \A i \in x.todo \cup x.chosen : ~revs[i].reverted
  /\ \A i, j \in x.todo \cup x.chosen : revs[i].run = revs[j].run
  /\ \A i \in x.chosen : Patched(books[revs[i].book], revs[i].after) = books[revs[i].book]

HoldingInv ==
  /\ \A u, v \in Reverters : Restoring(u) /\ Restoring(v) => u = v
  /\ \A v \in Reverters : Holding(revert[v], revisions, shelf)

HeldInv == RecordsInv /\ RecordingInv /\ HoldingInv

\* What a step may do to a book, to what people wrote and to the table.
Quiet == UNCHANGED <<shelf, hand, revisions>>

Records(w, b) ==
  LET a == apply[w]
      patch == PatchFor(PlanOf(w, b), shelf[b], a.mayReplace)
  IN
  /\ a.phase = "loop" /\ b \in a.todo /\ UNCHANGED <<shelf, hand, revert>>
  /\ revisions' = Append(revisions,
       [run |-> a.run, book |-> b, before |-> InversePatch(shelf[b], patch),
        after |-> patch, landed |-> FALSE, reverted |-> FALSE])
  /\ apply' = [apply EXCEPT ![w].phase = "writing", ![w].revision = Len(revisions) + 1]

Lands(w) == apply[w].phase = "writing" /\ Land(w) /\ UNCHANGED <<hand, revert>>

PutsBack(v) ==
  /\ AtRestore(v) /\ PutBack(Newest(v)) /\ UNCHANGED <<hand, apply>>
  /\ revisions' \in {revisions, [revisions EXCEPT ![Newest(v)].reverted = TRUE]}

LEMMA KindsOfStep ==
  ASSUME Inv, [Next]_vars
  PROVE  \/ Quiet
         \/ \E w \in Workers, b \in Books : Records(w, b)
         \/ \E w \in Workers : Lands(w)
         \/ \E v \in Reverters : PutsBack(v)
         \/ \E b \in Books : \E p \in OneField \cup OneTag(b) : Edit(b, p)
<1>1. ASSUME NEW w \in Workers, ApplyStep(w)
      PROVE  Quiet \/ Lands(w) \/ \E b \in Books : Records(w, b)
  <2>1. CASE \E b \in Books : Visit(w, b)
    <3>1. PICK b \in Books : Visit(w, b)
      BY <2>1
    <3>2. QED
      BY <3>1 DEF Visit, AtBook, Records, Quiet
  <2>2. CASE Write(w) \/ ApplyDies(w)
    BY <2>2 DEF Write, ApplyDies, Lands, Quiet
  <2>3. CASE ~ ((\E b \in Books : Visit(w, b)) \/ Write(w) \/ ApplyDies(w))
    BY <1>1, <2>3 DEF ApplyStep, ApplyBegin, ReadFails, WriteRefused, StopApply, ApplyEnd,
                      ApplyDiesReported, Quiet
  <2>4. QED
    BY <2>1, <2>2, <2>3
<1>2. ASSUME NEW v \in Reverters, RevertStep(v)
      PROVE  Quiet \/ PutsBack(v)
  BY <1>2 DEF RevertStep, RevertBegin, Inspect, Restore, RestoreRefused, RevertDies, PutsBack, Quiet
<1>3. CASE PeopleStep
  BY <1>3 DEF PeopleStep, Delete, FlipSwitch, Quiet
<1>4. CASE UNCHANGED vars
  BY <1>4 DEF vars, Quiet
<1>5. QED
  BY <1>1, <1>2, <1>3, <1>4 DEF Next

\* Of the records the table holds, only the marks change.
LEMMA RecordsStay ==
  ASSUME Inv, [Next]_vars
  PROVE  /\ DOMAIN revisions \subseteq DOMAIN revisions'
         /\ \/ DOMAIN revisions' = DOMAIN revisions
            \/ \E w \in Workers, b \in Books : Records(w, b)
         /\ \A i \in DOMAIN revisions :
              /\ revisions'[i].run = revisions[i].run /\ revisions'[i].book = revisions[i].book
              /\ revisions'[i].before = revisions[i].before
              /\ revisions'[i].after = revisions[i].after
              /\ \/ revisions'[i].reverted = revisions[i].reverted
                 \/ \E v \in Reverters : PutsBack(v) /\ i = Newest(v)
<1>1. revisions \in Seq(Revision)
  BY DEF Inv, TypeOK
<1>2. CASE Quiet
  BY <1>2 DEF Quiet
<1>3. ASSUME NEW w \in Workers, NEW b \in Books, Records(w, b)
      PROVE  /\ DOMAIN revisions \subseteq DOMAIN revisions'
             /\ \A i \in DOMAIN revisions : revisions'[i] = revisions[i]
  <2>1. PICK rev : revisions' = Append(revisions, rev)
    BY <1>3 DEF Records
  <2>2. QED
    BY <1>1, <2>1
<1>4. ASSUME NEW k \in DOMAIN revisions, NEW r, revisions' = [revisions EXCEPT ![k] = r],
             /\ r.run = revisions[k].run /\ r.book = revisions[k].book
             /\ r.before = revisions[k].before /\ r.after = revisions[k].after
      PROVE  /\ DOMAIN revisions' = DOMAIN revisions
             /\ \A i \in DOMAIN revisions :
                  /\ revisions'[i].run = revisions[i].run /\ revisions'[i].book = revisions[i].book
                  /\ revisions'[i].before = revisions[i].before
                  /\ revisions'[i].after = revisions[i].after
                  /\ revisions'[i].reverted = IF i = k THEN r.reverted ELSE revisions[i].reverted
  BY <1>1, <1>4
<1>5. ASSUME NEW w \in Workers, Lands(w)
      PROVE  \E k \in DOMAIN revisions :
               revisions' = [revisions EXCEPT ![k] = [revisions[k] EXCEPT !.landed = TRUE]]
  <2>1. apply[w].revision \in DOMAIN revisions
    BY <1>5, BusyFacts DEF Lands, Busy
  <2>2. QED
    BY <1>1, <1>5, <2>1 DEF Lands, Land
<1>6. ASSUME NEW v \in Reverters, PutsBack(v)
      PROVE  \/ revisions' = revisions
             \/ \E k \in DOMAIN revisions :
                  /\ k = Newest(v)
                  /\ revisions' = [revisions EXCEPT ![k] = [revisions[k] EXCEPT !.reverted = TRUE]]
  <2>1. Newest(v) \in DOMAIN revisions
    BY <1>6, NewestChosen DEF PutsBack, AtRestore
  <2>2. QED
    BY <1>1, <1>6, <2>1 DEF PutsBack
<1>7. \A k \in DOMAIN revisions :
        LET r == revisions[k] IN
        /\ \A m \in {[r EXCEPT !.landed = TRUE], [r EXCEPT !.reverted = TRUE]} :
             m.run = r.run /\ m.book = r.book /\ m.before = r.before /\ m.after = r.after
        /\ [r EXCEPT !.landed = TRUE].reverted = r.reverted
  BY RevisionFacts DEF Inv, Revision
<1>8. CASE \E b \in Books : \E p \in OneField \cup OneTag(b) : Edit(b, p)
  BY <1>8 DEF Edit
<1>9. ASSUME NEW w \in Workers, Lands(w)
      PROVE  /\ DOMAIN revisions' = DOMAIN revisions
             /\ \A i \in DOMAIN revisions :
                  /\ revisions'[i].run = revisions[i].run /\ revisions'[i].book = revisions[i].book
                  /\ revisions'[i].before = revisions[i].before
                  /\ revisions'[i].after = revisions[i].after
                  /\ revisions'[i].reverted = revisions[i].reverted
  <2>1. PICK k \in DOMAIN revisions :
          revisions' = [revisions EXCEPT ![k] = [revisions[k] EXCEPT !.landed = TRUE]]
    BY <1>5, <1>9
  <2> DEFINE r == [revisions[k] EXCEPT !.landed = TRUE]
  <2>2. /\ r.run = revisions[k].run /\ r.book = revisions[k].book
        /\ r.before = revisions[k].before /\ r.after = revisions[k].after
        /\ r.reverted = revisions[k].reverted /\ revisions' = [revisions EXCEPT ![k] = r]
    BY <1>7, <2>1
  <2> HIDE DEF r
  <2>3. QED
    BY <1>4, <2>2
<1>10. ASSUME NEW v \in Reverters, PutsBack(v)
       PROVE  /\ DOMAIN revisions' = DOMAIN revisions
              /\ \A i \in DOMAIN revisions :
                   /\ revisions'[i].run = revisions[i].run /\ revisions'[i].book = revisions[i].book
                   /\ revisions'[i].before = revisions[i].before
                   /\ revisions'[i].after = revisions[i].after
                   /\ revisions'[i].reverted = revisions[i].reverted \/ i = Newest(v)
  <2>1. CASE revisions' = revisions
    BY <2>1
  <2>2. ASSUME NEW k \in DOMAIN revisions, k = Newest(v),
               revisions' = [revisions EXCEPT ![k] = [revisions[k] EXCEPT !.reverted = TRUE]]
        PROVE  /\ DOMAIN revisions' = DOMAIN revisions
               /\ \A i \in DOMAIN revisions :
                    /\ revisions'[i].run = revisions[i].run
                    /\ revisions'[i].book = revisions[i].book
                    /\ revisions'[i].before = revisions[i].before
                    /\ revisions'[i].after = revisions[i].after
                    /\ revisions'[i].reverted = revisions[i].reverted \/ i = Newest(v)
    <3> DEFINE r == [revisions[k] EXCEPT !.reverted = TRUE]
    <3>1. /\ r.run = revisions[k].run /\ r.book = revisions[k].book
          /\ r.before = revisions[k].before /\ r.after = revisions[k].after
          /\ revisions' = [revisions EXCEPT ![k] = r]
      BY <1>7, <2>2
    <3> HIDE DEF r
    <3>2. QED
      BY <1>4, <2>2, <3>1
  <2>3. QED
    BY <1>6, <1>10, <2>1, <2>2
<1>11. QED
  BY <1>2, <1>3, <1>8, <1>9, <1>10, KindsOfStep

LEMMA InitHeld ==
  ASSUME Init, Forces \subseteq {FALSE}
  PROVE  HeldInv
<1>1. DOMAIN revisions = {} /\ (\A w \in Workers : ~Busy(w)) /\ \A v \in Reverters : revert[v] = IdleRevert
  BY DEF Init, Busy, IdleApply
<1>2. RecordsInv /\ RecordingInv
  BY <1>1 DEF RecordsInv, RecordingInv
<1>3. HoldingInv
  BY <1>1 DEF HoldingInv, Holding, Restoring, IdleRevert
<1>4. QED
  BY <1>2, <1>3 DEF HeldInv

LEMMA InverseWhole ==
  ASSUME NEW c, NEW p
  PROVE  /\ DOMAIN InversePatch(c, p).text = DOMAIN p.text
         /\ InversePatch(c, p).tags = {} <=> p.tags = {}
BY DEF InversePatch

\* What a worker records, it has not recorded before.
LEMMA RecordsFacts ==
  ASSUME Inv, HeldInv, NEW w \in Workers, NEW b \in Books, Records(w, b)
  PROVE  LET n == Len(revisions)
             rev == revisions'[n + 1]
         IN
         /\ n \in Nat /\ n + 1 = Len(revisions') /\ DOMAIN revisions' = DOMAIN revisions \cup {n + 1}
         /\ DOMAIN revisions = 1 .. n
         /\ \A i \in DOMAIN revisions : i # n + 1 /\ revisions'[i] = revisions[i]
         /\ rev.run = apply[w].run /\ rev.book = b /\ ~rev.reverted
         /\ rev.before = InversePatch(shelf[b], rev.after)
         /\ \A i \in DOMAIN revisions : ~ (revisions[i].run = rev.run /\ revisions[i].book = b)
<1> DEFINE n == Len(revisions)
           patch == PatchFor(PlanOf(w, b), shelf[b], apply[w].mayReplace)
           rev == [run |-> apply[w].run, book |-> b, before |-> InversePatch(shelf[b], patch),
                   after |-> patch, landed |-> FALSE, reverted |-> FALSE]
<1>1. revisions' = Append(revisions, rev) /\ revisions \in Seq(Revision)
  BY DEF Records, Inv, TypeOK
<1>2. /\ rev.run = apply[w].run /\ rev.book = b /\ rev.reverted = FALSE
      /\ rev.before = InversePatch(shelf[b], rev.after)
  OBVIOUS
<1> HIDE DEF rev
<1>3. /\ n \in Nat /\ n + 1 = Len(revisions') /\ DOMAIN revisions' = DOMAIN revisions \cup {n + 1}
      /\ revisions'[n + 1] = rev /\ DOMAIN revisions = 1 .. n
      /\ \A i \in DOMAIN revisions : i # n + 1 /\ revisions'[i] = revisions[i]
  BY <1>1
<1>4. \A i \in DOMAIN revisions : ~ (revisions[i].run = apply[w].run /\ revisions[i].book = b)
  BY DEF HeldInv, RecordingInv, Recording, Records, Busy
<1>5. QED
  BY <1>2, <1>3, <1>4

LEMMA NextRecords == ASSUME Inv, HeldInv, [Next]_vars PROVE RecordsInv'
<1>1. CASE DOMAIN revisions' = DOMAIN revisions
  BY <1>1, RecordsStay DEF HeldInv, RecordsInv
<1>2. ASSUME NEW w \in Workers, NEW b \in Books, Records(w, b) PROVE RecordsInv'
  BY <1>2, RecordsFacts, RecordsStay, InverseWhole DEF HeldInv, RecordsInv
<1>3. QED
  BY <1>1, <1>2, RecordsStay

\* The only busy worker moved, or became busy.
LEMMA OneRecords ==
  ASSUME Inv, NEW w \in Workers, NEW a, apply' = [apply EXCEPT ![w] = a],
         \A u \in Workers : Busy(u) => u = w,
         a.phase = "idle" \/ Recording(a, revisions', shelf')
  PROVE  RecordingInv'
<1>1. \A u \in Workers : apply'[u] = IF u = w THEN a ELSE apply[u]
  BY DEF Inv, TypeOK
<1>2. \A u \in Workers : Busy(u)' => u = w /\ a.phase # "idle"
  BY <1>1 DEF Busy
<1>3. QED
  BY <1>1, <1>2 DEF RecordingInv

\* The loop moves on from book b.
LEMMA MovedOn ==
  ASSUME Inv, HeldInv, [Next]_vars, NEW w \in Workers, Busy(w), NEW b, NEW code, NEW plan,
         apply[w].phase = "writing" => revisions[apply[w].revision].book = b,
         DOMAIN revisions' = DOMAIN revisions
  PROVE  Recording(Reported(apply[w], b, code, plan), revisions', shelf')
<1> DEFINE a == apply[w]
           a2 == Reported(a, b, code, plan)
<1>1. a \in ApplyState
  BY BusyFacts
<1>2. a2.run = a.run /\ a2.todo = a.todo \ {b} /\ a2.phase = "loop"
  BY <1>1 DEF Reported, ApplyState
<1>3. Recording(a, revisions, shelf)
  BY DEF HeldInv, RecordingInv
<1> HIDE DEF a2
<1>4. \A i \in DOMAIN revisions :
        revisions'[i].run = revisions[i].run /\ revisions'[i].book = revisions[i].book
  BY RecordsStay
<1>5. \A i \in DOMAIN revisions : ~ (revisions[i].run = a2.run /\ revisions[i].book \in a2.todo)
  BY <1>2, <1>3 DEF Recording
<1>6. Recording(a2, revisions', shelf')
  BY <1>2, <1>4, <1>5 DEF Recording
<1>7. QED
  BY <1>6 DEF a2

LEMMA WorkerRecords ==
  ASSUME Careful, Inv, StoryInv, CareInv, HeldInv, [Next]_vars, NEW w \in Workers, ApplyStep(w)
  PROVE  RecordingInv'
<1>1. ASSUME NEW from \in RunId, NEW items \in SUBSET Books, NEW real \in BOOLEAN,
             ApplyBegin(w, from, items, real)
      PROVE  RecordingInv'
  <2> DEFINE a == [IdleApply EXCEPT !.phase = "loop", !.run = lastRun + 1, !.from = from,
                     !.real = real, !.mayReplace = mayReplace,
                     !.plans = [b \in Books |-> rows[from][b].plan],
                     !.todo = Waiting(from) \cap items]
  <2>1. /\ apply' = [apply EXCEPT ![w] = a] /\ a.phase = "loop" /\ a.run = lastRun + 1
        /\ \A u \in Workers : ~Busy(u)
        /\ UNCHANGED <<revisions, shelf>>
    BY <1>1 DEF ApplyBegin, IdleApply
  <2> HIDE DEF a
  <2>2. \A i \in DOMAIN revisions : revisions[i].run # lastRun + 1
    <3>1. lastRun \in Nat
      BY ConstantFacts DEF Inv, TypeOK
    <3>2. \A i \in DOMAIN revisions : revisions[i].run <= lastRun /\ revisions[i].run \in Nat
      BY RevisionFacts, ConstantFacts DEF StoryInv, RunsInv, Inv
    <3>3. QED
      BY <3>1, <3>2
  <2>3. Recording(a, revisions', shelf')
    BY <2>1, <2>2 DEF Recording
  <2>4. QED
    BY <2>1, <2>3, OneRecords
<1>2. ASSUME ~ (\E from \in RunId, items \in SUBSET Books, real \in BOOLEAN :
                  ApplyBegin(w, from, items, real))
      PROVE  Busy(w) /\ \A u \in Workers : Busy(u) => u = w
  <2>1. Busy(w)
    BY <1>2 DEF ApplyStep, Visit, ReadFails, AtBook, Write, WriteRefused,
                ApplyDies, StopApply, ApplyEnd, ApplyDiesReported, Busy
  <2>2. QED
    BY <2>1 DEF CareInv
<1>3. ASSUME NEW b \in Books, ReadFails(w, b) PROVE RecordingInv'
  <2>1. /\ Busy(w) /\ UNCHANGED revisions /\ apply[w].phase = "loop"
        /\ apply' = [apply EXCEPT ![w] = Reported(apply[w], b, "missing", NoRun)]
    BY <1>3 DEF ReadFails, AtBook, Busy
  <2>2. Recording(Reported(apply[w], b, "missing", NoRun), revisions', shelf')
    BY <2>1, MovedOn
  <2>3. QED
    BY <2>1, <2>2, OneRecords DEF CareInv
<1>4. ASSUME NEW b \in Books, Visit(w, b), ~Records(w, b) PROVE RecordingInv'
  <2>1. PICK code, plan : apply' = [apply EXCEPT ![w] = Reported(apply[w], b, code, plan)]
    BY <1>4 DEF Visit, AtBook, Records
  <2>2. Busy(w) /\ UNCHANGED revisions /\ apply[w].phase = "loop"
    BY <1>4 DEF Visit, AtBook, Records, Busy
  <2>3. Recording(Reported(apply[w], b, code, plan), revisions', shelf')
    BY <2>2, MovedOn
  <2>4. QED
    BY <2>1, <2>2, <2>3, OneRecords DEF CareInv
<1>5. ASSUME NEW b \in Books, Records(w, b) PROVE RecordingInv'
  <2> DEFINE new == [apply[w] EXCEPT !.phase = "writing", !.revision = Len(revisions) + 1]
  <2>1. Busy(w) /\ UNCHANGED shelf /\ apply[w] \in ApplyState
    BY <1>5, BusyFacts DEF Records, Busy
  <2>2. apply' = [apply EXCEPT ![w] = new]
    BY <1>5 DEF Records, Inv, TypeOK
  <2>3. /\ new.phase = "writing" /\ new.revision = Len(revisions) + 1
        /\ new.run = apply[w].run /\ new.todo = apply[w].todo
    BY <2>1 DEF ApplyState
  <2> HIDE DEF new
  <2>4. Recording(apply[w], revisions, shelf) /\ apply[w].phase = "loop"
    BY <1>5, <2>1 DEF HeldInv, RecordingInv, Records
  <2>5. Recording(new, revisions', shelf')
    BY <1>5, <2>1, <2>3, <2>4, RecordsFacts DEF Recording
  <2>6. QED
    BY <2>1, <2>2, <2>5, OneRecords DEF CareInv
<1>6. CASE Write(w)
  <2> DEFINE b == revisions[apply[w].revision].book
  <2>1. /\ Busy(w) /\ apply' = [apply EXCEPT ![w] = Reported(apply[w], b, "written", NoRun)]
        /\ DOMAIN revisions' = DOMAIN revisions
    BY <1>6, LandFacts DEF Write, Busy
  <2>2. Recording(Reported(apply[w], b, "written", NoRun), revisions', shelf')
    BY <2>1, MovedOn
  <2>3. QED
    BY <2>1, <2>2, OneRecords DEF CareInv
<1>7. CASE WriteRefused(w) \/ ApplyDies(w) \/ ApplyEnd(w) \/ ApplyDiesReported(w)
  <2>1. Busy(w) /\ apply' = [apply EXCEPT ![w] = IdleApply]
    BY <1>7 DEF WriteRefused, ApplyDies, ApplyEnd, ApplyDiesReported, Busy
  <2>2. IdleApply.phase = "idle"
    BY DEF IdleApply
  <2>3. QED
    BY <2>1, <2>2, OneRecords DEF CareInv
<1>8. CASE StopApply(w)
  <2> DEFINE new == [apply[w] EXCEPT !.stop = TRUE]
  <2>1. Busy(w) /\ UNCHANGED <<shelf, revisions>> /\ apply' = [apply EXCEPT ![w] = new]
    BY <1>8 DEF StopApply, Inv, TypeOK
  <2>2. /\ new.phase = apply[w].phase /\ new.revision = apply[w].revision
        /\ new.run = apply[w].run /\ new.todo = apply[w].todo
    BY <2>1, BusyFacts DEF ApplyState
  <2> HIDE DEF new
  <2>3. Recording(new, revisions', shelf')
    BY <2>1, <2>2 DEF HeldInv, RecordingInv, Recording
  <2>4. QED
    BY <2>1, <2>3, OneRecords DEF CareInv
<1>9. QED
  BY <1>1, <1>3, <1>4, <1>5, <1>6, <1>7, <1>8 DEF ApplyStep

\* While a write is under way, nobody else touches its book.
LEMMA NextRecording ==
  ASSUME Careful, Inv, StoryInv, CareInv, HeldInv, [Next]_vars
  PROVE  RecordingInv'
<1>1. ASSUME NEW v \in Reverters, RevertStep(v) PROVE RecordingInv'
  <2>1. UNCHANGED apply
    BY <1>1 DEF RevertStep, RevertBegin, Inspect, Restore, RestoreRefused, RevertDies
  <2>2. Restoring(v) \/ \A w \in Workers : ~Busy(w)
    BY <1>1 DEF RevertStep, RevertBegin, Inspect, Restore, RestoreRefused, RevertDies, AtRestore,
                Restoring
  <2>3. \A w \in Workers : ~Busy(w)'
    BY <2>1, <2>2 DEF CareInv, Busy
  <2>4. QED
    BY <2>3 DEF RecordingInv
<1>2. CASE PeopleStep
  <2>1. UNCHANGED <<revisions, apply>>
    BY <1>2 DEF PeopleStep, Delete, Edit, FlipSwitch
  <2>2. ASSUME NEW w \in Workers, apply[w].phase = "writing"
        PROVE  LET c == revisions[apply[w].revision].book IN shelf'[c] = shelf[c]
    <3>1. CASE \E b \in Books : \E p \in OneField \cup OneTag(b) : Edit(b, p)
      <4>1. PICK b \in Books : \E p \in OneField \cup OneTag(b) : Edit(b, p)
        BY <3>1
      <4>2. PICK p \in OneField \cup OneTag(b) : Edit(b, p)
        BY <4>1
      <4>3. revisions[apply[w].revision].book # b
        BY <2>2, <4>2 DEF Edit, CarefulEdit, InHand
      <4>4. revisions[apply[w].revision].book \in Books
        BY <2>2, BusyFacts, RevisionFacts DEF Busy, Inv
      <4>5. QED
        BY <4>2, <4>3, <4>4 DEF Edit, Inv, TypeOK
    <3>2. CASE (\E b \in Books : Delete(b)) \/ FlipSwitch
      BY <3>2 DEF Delete, FlipSwitch
    <3>3. QED
      BY <1>2, <3>1, <3>2 DEF PeopleStep
  <2>3. \A w \in Workers : Busy(w)' <=> Busy(w)
    BY <2>1 DEF Busy
  <2>4. QED
    BY <2>1, <2>2, <2>3 DEF HeldInv, RecordingInv, Recording
<1>3. CASE UNCHANGED vars
  <2>1. \A w \in Workers : Busy(w)' <=> Busy(w)
    BY <1>3 DEF vars, Busy
  <2>2. QED
    BY <1>3, <2>1 DEF vars, HeldInv, RecordingInv
<1>4. QED
  BY <1>1, <1>2, <1>3, WorkerRecords DEF Next

\* A revert chooses revisions of as many books.
LEMMA ApartChosen ==
  ASSUME Inv, HeldInv, NEW v \in Reverters, NEW i \in revert[v].chosen, NEW j \in revert[v].chosen,
         i # j
  PROVE  revisions[i].book # revisions[j].book
<1>1. i \in DOMAIN revisions /\ j \in DOMAIN revisions
  BY DEF Inv, RevertersInv
<1>2. revisions[i].run = revisions[j].run
  BY DEF HeldInv, HoldingInv, Holding
<1>3. QED
  BY <1>1, <1>2 DEF HeldInv, RecordsInv

\* Where no revert is under way, or the one that is keeps what it holds, and the
\* books it chose and their revisions are left alone.
LEMMA HoldingStays ==
  ASSUME Inv, HeldInv, [Next]_vars, UNCHANGED revert,
         \A v \in Reverters : Restoring(v) =>
           /\ \A i \in revert[v].chosen : shelf'[revisions[i].book] = shelf[revisions[i].book]
           /\ UNCHANGED revisions
  PROVE  HoldingInv'
<1>1. ASSUME NEW v \in Reverters PROVE Holding(revert[v], revisions', shelf')
  <2>1. Holding(revert[v], revisions, shelf)
    BY DEF HeldInv, HoldingInv
  <2>2. CASE Restoring(v)
    BY <2>1, <2>2 DEF Holding
  <2>3. CASE ~Restoring(v)
    BY <2>1, <2>3 DEF Holding, Restoring
  <2>4. QED
    BY <2>2, <2>3
<1>2. \A v \in Reverters : Restoring(v)' <=> Restoring(v)
  BY DEF Restoring
<1>3. QED
  BY <1>1, <1>2 DEF HeldInv, HoldingInv

\* Reverter v moved, nobody else is putting back.
LEMMA OneHolds ==
  ASSUME Inv, HeldInv, NEW v \in Reverters, NEW x, revert' = [revert EXCEPT ![v] = x],
         \A u \in Reverters : Restoring(u) => u = v,
         Holding(x, revisions', shelf')
  PROVE  HoldingInv'
<1>1. \A u \in Reverters : revert'[u] = IF u = v THEN x ELSE revert[u]
  BY DEF Inv, TypeOK
<1>2. \A u \in Reverters : Restoring(u)' => u = v
  BY <1>1 DEF Restoring
<1>3. ASSUME NEW u \in Reverters, u # v PROVE Holding(revert'[u], revisions', shelf')
  <2>1. revert'[u] = revert[u] /\ ~Restoring(u) /\ Holding(revert[u], revisions, shelf)
    BY <1>1, <1>3 DEF HeldInv, HoldingInv
  <2>2. QED
    BY <2>1 DEF Holding, Restoring
<1>4. Holding(revert'[v], revisions', shelf')
  BY <1>1
<1>5. QED
  BY <1>2, <1>3, <1>4 DEF HoldingInv

LEMMA IdleHolds == \A revs, books : Holding(IdleRevert, revs, books)
BY DEF Holding, IdleRevert

LEMMA RevertHolds ==
  ASSUME Careful, Forces \subseteq {FALSE}, Inv, CareInv, HeldInv, [Next]_vars,
         NEW v \in Reverters, RevertStep(v)
  PROVE  HoldingInv'
<1> DEFINE x == revert[v]
<1>1. /\ revert \in [Reverters -> [force : BOOLEAN, todo : SUBSET Nat, chosen : SUBSET Nat]]
      /\ x.todo \subseteq DOMAIN revisions /\ x.chosen \subseteq DOMAIN revisions
      /\ Holding(x, revisions, shelf)
  BY DEF Inv, TypeOK, RevertersInv, HeldInv, HoldingInv
<1>2. ASSUME NEW run \in RunId, NEW force \in Forces, RevertBegin(v, run, force)
      PROVE  HoldingInv'
  <2> DEFINE y == [force |-> force, chosen |-> {},
                   todo |-> {i \in DOMAIN revisions :
                               revisions[i].run = run /\ ~revisions[i].reverted}]
  <2>1. revert' = [revert EXCEPT ![v] = y] /\ UNCHANGED <<revisions, shelf>>
        /\ \A u \in Reverters : ~Restoring(u)
    BY <1>2 DEF RevertBegin
  <2>2. Holding(y, revisions, shelf)
    BY DEF Holding
  <2> HIDE DEF y
  <2>3. QED
    BY <2>1, <2>2, OneHolds
<1>3. CASE RestoreRefused(v) \/ RevertDies(v)
  <2>1. revert' = [revert EXCEPT ![v] = IdleRevert] /\ Restoring(v)
    BY <1>3 DEF RestoreRefused, RevertDies, AtRestore, Restoring
  <2>2. \A u \in Reverters : Restoring(u) => u = v
    BY <2>1 DEF HeldInv, HoldingInv
  <2>3. QED
    BY <2>1, <2>2, IdleHolds, OneHolds
<1>4. CASE Inspect(v)
  <2> DEFINE i == CHOOSE i \in x.todo : \A j \in x.todo : i <= j
             r == revisions[i]
  <2>1. x.todo # {} /\ UNCHANGED <<shelf, revisions>>
    BY <1>4 DEF Inspect
  <2>2. i \in x.todo
    <3>1. x.todo \in SUBSET Nat
      BY <1>1
    <3>2. \E k \in x.todo : \A j \in x.todo : k <= j
      BY <2>1, <3>1, LeastNat
    <3>3. QED
      BY <3>2
  <2>3. \A u \in Reverters : Restoring(u) => u = v
    BY <2>1 DEF HeldInv, HoldingInv, Restoring
  <2>4. PICK y : /\ revert' = [revert EXCEPT ![v] = y] /\ y.force = x.force
                 /\ y.todo = x.todo \ {i}
                 /\ \/ y.chosen = x.chosen
                    \/ y.chosen = x.chosen \cup {i} /\ Patched(shelf[r.book], r.after) = shelf[r.book]
    <3>1. CASE revert' = [revert EXCEPT ![v].todo = @ \ {i}]
      <4> DEFINE y == [x EXCEPT !.todo = @ \ {i}]
      <4>1. revert' = [revert EXCEPT ![v] = y] /\ y.force = x.force /\ y.todo = x.todo \ {i}
            /\ y.chosen = x.chosen
        BY <1>1, <3>1
      <4>2. QED
        BY <4>1
    <3>2. CASE revert' = [revert EXCEPT ![v].todo = @ \ {i},
                 ![v].chosen = IF r.book \notin gone /\ (x.force \/ ~ChangedSince(shelf[r.book], r.after))
                                 THEN @ \cup {i} ELSE @]
      <4> DEFINE y == [x EXCEPT !.todo = @ \ {i},
                         !.chosen = IF r.book \notin gone /\ (x.force \/ ~ChangedSince(shelf[r.book], r.after))
                                      THEN @ \cup {i} ELSE @]
      <4>1. revert' = [revert EXCEPT ![v] = y] /\ y.force = x.force /\ y.todo = x.todo \ {i}
            /\ y.chosen = IF r.book \notin gone /\ (x.force \/ ~ChangedSince(shelf[r.book], r.after))
                            THEN x.chosen \cup {i} ELSE x.chosen
        BY <1>1, <3>2
      <4>2. ~x.force
        BY <1>1 DEF Holding
      <4> HIDE DEF y
      <4>3. QED
        BY <4>1, <4>2 DEF ChangedSince
    <3>3. QED
      BY <1>4, <3>1, <3>2 DEF Inspect
  <2> HIDE DEF i
  <2>5. Holding(y, revisions, shelf)
    BY <1>1, <2>2, <2>4 DEF Holding
  <2>6. QED
    BY <2>1, <2>3, <2>4, <2>5, OneHolds
<1>5. CASE Restore(v)
  <2> DEFINE i == Newest(v)
             y == [x EXCEPT !.chosen = @ \ {i}]
  <2>1. AtRestore(v) /\ PutBack(i) /\ revert' = [revert EXCEPT ![v] = y]
        /\ revisions' = [revisions EXCEPT ![i].reverted = TRUE]
    BY <1>1, <1>5 DEF Restore
  <2>2. i \in x.chosen /\ i \in DOMAIN revisions
    BY <2>1, NewestChosen DEF AtRestore
  <2>3. \A u \in Reverters : Restoring(u) => u = v
    BY <2>1 DEF HeldInv, HoldingInv, AtRestore, Restoring
  <2>4. y.force = x.force /\ y.todo = {} /\ y.chosen = x.chosen \ {i}
    BY <1>1, <2>1 DEF AtRestore
  <2>5. \A j \in DOMAIN revisions :
          /\ revisions'[j].run = revisions[j].run /\ revisions'[j].book = revisions[j].book
          /\ revisions'[j].after = revisions[j].after
    BY RecordsStay
  <2>6. ASSUME NEW j \in x.chosen \ {i}
        PROVE  /\ shelf'[revisions[j].book] = shelf[revisions[j].book]
               /\ revisions'[j].reverted = revisions[j].reverted
    <3>1. revisions[j].book # revisions[i].book
      BY <2>2, <2>6, ApartChosen
    <3>2. revisions[j].book \in Books /\ shelf \in [Books -> Content] /\ revisions \in Seq(Revision)
      BY <1>1, <2>6, RevisionFacts DEF Inv, TypeOK
    <3>3. QED
      BY <1>1, <2>1, <2>6, <3>1, <3>2 DEF PutBack
  <2> HIDE DEF y, i
  <2>7. Holding(y, revisions', shelf')
    BY <1>1, <2>4, <2>5, <2>6 DEF Holding
  <2>8. QED
    BY <2>1, <2>3, <2>7, OneHolds
<1>6. QED
  BY <1>2, <1>3, <1>4, <1>5 DEF RevertStep

LEMMA NextHolding ==
  ASSUME Careful, Forces \subseteq {FALSE}, Inv, CareInv, HeldInv, [Next]_vars
  PROVE  HoldingInv'
<1>1. ASSUME NEW w \in Workers, ApplyStep(w) PROVE HoldingInv'
  <2>1. Busy(w) \/ \A v \in Reverters : ~Restoring(v)
    BY <1>1 DEF ApplyStep, ApplyBegin, Visit, ReadFails, AtBook, Write, WriteRefused,
                ApplyDies, StopApply, ApplyEnd, ApplyDiesReported, Busy
  <2>2. \A v \in Reverters : ~Restoring(v)
    BY <2>1 DEF CareInv
  <2>3. UNCHANGED revert
    BY <1>1 DEF ApplyStep, ApplyBegin, Visit, ReadFails, AtBook, Write, WriteRefused,
                ApplyDies, StopApply, ApplyEnd, ApplyDiesReported
  <2>4. QED
    BY <2>2, <2>3, HoldingStays
<1>2. CASE PeopleStep
  <2>1. UNCHANGED <<revisions, revert>>
    BY <1>2 DEF PeopleStep, Delete, Edit, FlipSwitch
  <2>2. ASSUME NEW v \in Reverters, NEW i \in revert[v].chosen
        PROVE  shelf'[revisions[i].book] = shelf[revisions[i].book]
    <3>1. CASE \E b \in Books : \E p \in OneField \cup OneTag(b) : Edit(b, p)
      <4>1. PICK b \in Books : \E p \in OneField \cup OneTag(b) : Edit(b, p)
        BY <3>1
      <4>2. PICK p \in OneField \cup OneTag(b) : Edit(b, p)
        BY <4>1
      <4>3. revisions[i].book # b
        BY <2>2, <4>2 DEF Edit, CarefulEdit, InHand
      <4>4. i \in DOMAIN revisions
        BY <2>2 DEF Inv, RevertersInv
      <4>5. revisions[i].book \in Books
        BY <4>4, RevisionFacts DEF Inv
      <4>6. QED
        BY <4>2, <4>3, <4>5 DEF Edit, Inv, TypeOK
    <3>2. CASE (\E b \in Books : Delete(b)) \/ FlipSwitch
      BY <3>2 DEF Delete, FlipSwitch
    <3>3. QED
      BY <1>2, <3>1, <3>2 DEF PeopleStep
  <2>3. QED
    BY <2>1, <2>2, HoldingStays
<1>3. CASE UNCHANGED vars
  BY <1>3, HoldingStays DEF vars
<1>4. QED
  BY <1>1, <1>2, <1>3, RevertHolds DEF Next

\* The undo records, the apply under way and the revert under way agree.
LEMMA HeldHolds == ASSUME Careful, Forces \subseteq {FALSE} PROVE Spec => []HeldInv
<1>1. Init => HeldInv
  BY InitHeld
<1>2. Inv /\ StoryInv /\ CareInv /\ HeldInv /\ [Next]_vars => HeldInv'
  BY NextRecords, NextRecording, NextHolding DEF HeldInv
<1>3. QED
  BY <1>1, <1>2, Invariance, StoryHolds, CareHolds, PTL DEF Spec

--------------------------------------------------------------------------------
\* From what every book says, gone ones included, there is a way back.
WayInv ==
  \A b \in Books :
    /\ \A f \in Fields : Way(TextPending(b, f), TextAfter(b, f), TextBefore(b, f),
                           shelf[b].text[f], hand[b].text[f])
    /\ Way(TagsPending(b), TagsAfter(b), TagsBefore(b), shelf[b].tags, hand[b].tags)

LEMMA InitWay == ASSUME Init PROVE WayInv
BY WayTyped DEF Init, WayInv

\* A revision sets what its way back sets.
LEMMA PendingFacts ==
  ASSUME Inv, HeldInv, NEW i \in DOMAIN revisions, ~revisions[i].reverted
  PROVE  LET r == revisions[i] IN
         /\ r.book \in Books /\ r.before \in Patch /\ r.after \in Patch
         /\ \A f : /\ f \in DOMAIN r.after.text <=> f \in DOMAIN r.before.text
                   /\ f \in DOMAIN r.after.text <=> i \in TextPending(r.book, f)
                   /\ f \in DOMAIN r.after.text =>
                        /\ TextAfter(r.book, f)[i] = r.after.text[f]
                        /\ TextBefore(r.book, f)[i] = r.before.text[f]
         /\ r.after.tags = {} <=> r.before.tags = {}
         /\ r.after.tags # {} <=> i \in TagsPending(r.book)
         /\ r.after.tags # {} => /\ TagsAfter(r.book)[i] = UNION r.after.tags
                                 /\ TagsBefore(r.book)[i] = UNION r.before.tags
<1>1. revisions[i].book \in Books /\ revisions[i].before \in Patch /\ revisions[i].after \in Patch
  BY RevisionFacts DEF Inv
<1>2. /\ DOMAIN revisions[i].before.text = DOMAIN revisions[i].after.text
      /\ revisions[i].before.tags = {} <=> revisions[i].after.tags = {}
  BY DEF HeldInv, RecordsInv
<1>3. QED
  BY <1>1, <1>2 DEF TextPending, TagsPending, Pending, TextAfter, TextBefore, TagsAfter, TagsBefore

LEMMA PendingIndices ==
  ASSUME Inv, NEW b
  PROVE  /\ Len(revisions) \in Nat /\ DOMAIN revisions = 1 .. Len(revisions)
         /\ \A f : TextPending(b, f) \in SUBSET (1 .. Len(revisions))
         /\ TagsPending(b) \in SUBSET (1 .. Len(revisions))
         /\ TagsPending(b) \in SUBSET Nat /\ \A f : TextPending(b, f) \in SUBSET Nat
<1>1. Len(revisions) \in Nat /\ DOMAIN revisions = 1 .. Len(revisions)
  BY DEF Inv, TypeOK
<1>2. QED
  BY <1>1 DEF TextPending, TagsPending, Pending

\* What is pending stays so, but for the revision being put back.
LEMMA PendingStays ==
  ASSUME Inv, [Next]_vars, NEW i, ~ (\E v \in Reverters : PutsBack(v) /\ i = Newest(v)), NEW b
  PROVE  /\ \A f : i \in TextPending(b, f) =>
              /\ i \in TextPending(b, f)'
              /\ TextAfter(b, f)'[i] = TextAfter(b, f)[i]
              /\ TextBefore(b, f)'[i] = TextBefore(b, f)[i]
         /\ i \in TagsPending(b) =>
              /\ i \in TagsPending(b)'
              /\ TagsAfter(b)'[i] = TagsAfter(b)[i]
              /\ TagsBefore(b)'[i] = TagsBefore(b)[i]
<1>1. i \in DOMAIN revisions =>
        /\ i \in DOMAIN revisions' /\ revisions'[i].book = revisions[i].book
        /\ revisions'[i].before = revisions[i].before
        /\ revisions'[i].after = revisions[i].after
        /\ revisions'[i].reverted = revisions[i].reverted
  BY RecordsStay
<1>2. QED
  BY <1>1 DEF TextPending, TagsPending, Pending, TextAfter, TextBefore, TagsAfter, TagsBefore

\* Nothing is put back, and from what a field or the tags say now the old
\* revisions lead back.
LEMMA StillAWay ==
  ASSUME Inv, [Next]_vars, ~ (\E v \in Reverters : PutsBack(v)), NEW b
  PROVE  /\ \A f, s, h : Way(TextPending(b, f), TextAfter(b, f), TextBefore(b, f), s, h) =>
              Way(TextPending(b, f)', TextAfter(b, f)', TextBefore(b, f)', s, h)
         /\ \A s, h : Way(TagsPending(b), TagsAfter(b), TagsBefore(b), s, h) =>
              Way(TagsPending(b)', TagsAfter(b)', TagsBefore(b)', s, h)
<1>1. ASSUME NEW f, NEW s, NEW h,
             Way(TextPending(b, f), TextAfter(b, f), TextBefore(b, f), s, h)
      PROVE  Way(TextPending(b, f)', TextAfter(b, f)', TextBefore(b, f)', s, h)
  <2>1. /\ TextPending(b, f) \subseteq TextPending(b, f)'
        /\ \A i \in TextPending(b, f) : /\ TextAfter(b, f)'[i] = TextAfter(b, f)[i]
                                        /\ TextBefore(b, f)'[i] = TextBefore(b, f)[i]
    BY PendingStays
  <2>2. QED
    BY <1>1, <2>1, WayStays
<1>2. ASSUME NEW s, NEW h, Way(TagsPending(b), TagsAfter(b), TagsBefore(b), s, h)
      PROVE  Way(TagsPending(b)', TagsAfter(b)', TagsBefore(b)', s, h)
  <2>1. /\ TagsPending(b) \subseteq TagsPending(b)'
        /\ \A i \in TagsPending(b) : /\ TagsAfter(b)'[i] = TagsAfter(b)[i]
                                     /\ TagsBefore(b)'[i] = TagsBefore(b)[i]
    BY PendingStays
  <2>2. QED
    BY <1>2, <2>1, WayStays
<1>3. QED
  BY <1>1, <1>2

\* The shelf and what people wrote do not change.
LEMMA SameBooksWay ==
  ASSUME Inv, WayInv, [Next]_vars, ~ (\E v \in Reverters : PutsBack(v)), UNCHANGED <<shelf, hand>>
  PROVE  WayInv'
BY StillAWay DEF WayInv

\* A patch lands.
LEMMA LandsWay ==
  ASSUME Inv, HeldInv, WayInv, [Next]_vars, ~ (\E v \in Reverters : PutsBack(v)),
         NEW w \in Workers, Lands(w)
  PROVE  WayInv'
<1> DEFINE k == apply[w].revision
           r == revisions[k]
<1>1. /\ k \in DOMAIN revisions /\ k = Len(revisions) /\ ~r.reverted
      /\ r.before = InversePatch(shelf[r.book], r.after) /\ hand' = hand
  BY BusyFacts DEF Lands, Busy, HeldInv, RecordingInv, Recording
<1>2. /\ r.book \in Books /\ shelf \in [Books -> Content]
      /\ shelf' = [shelf EXCEPT ![r.book] = Patched(shelf[r.book], r.after)]
  BY <1>1, RevisionFacts DEF Lands, Land, Inv, TypeOK
<1>3. ASSUME NEW b \in Books, NEW f \in Fields
      PROVE  Way(TextPending(b, f), TextAfter(b, f), TextBefore(b, f),
                 shelf'[b].text[f], hand[b].text[f])
  <2>1. Way(TextPending(b, f), TextAfter(b, f), TextBefore(b, f), shelf[b].text[f], hand[b].text[f])
    BY DEF WayInv
  <2>2. CASE b = r.book /\ f \in DOMAIN r.after.text
    <3>1. shelf'[b].text[f] = r.after.text[f] /\ r.before.text[f] = shelf[b].text[f]
      BY <1>1, <1>2, <2>2 DEF Patched, InversePatch
    <3>2. /\ k \in TextPending(b, f) /\ TextAfter(b, f)[k] = r.after.text[f]
          /\ TextBefore(b, f)[k] = r.before.text[f]
      BY <1>1, <2>2, PendingFacts
    <3>3. TextPending(b, f) \in SUBSET Nat /\ \A j \in TextPending(b, f) : j <= k
      <4>1. TextPending(b, f) \in SUBSET (1 .. k) /\ k \in Nat
        BY <1>1, PendingIndices
      <4>2. QED
        BY <4>1
    <3>4. Way(TextPending(b, f), TextAfter(b, f), TextBefore(b, f), TextAfter(b, f)[k], hand[b].text[f])
      BY <2>1, <3>1, <3>2, <3>3, WayLands
    <3>5. QED
      BY <3>1, <3>2, <3>4
  <2>3. CASE b = r.book /\ f \notin DOMAIN r.after.text
    <3>1. shelf'[b].text[f] = shelf[b].text[f]
      BY <1>2, <2>3 DEF Patched
    <3>2. QED
      BY <2>1, <3>1
  <2>4. CASE b # r.book
    BY <1>2, <2>1, <2>4
  <2>5. QED
    BY <2>2, <2>3, <2>4
<1>4. ASSUME NEW b \in Books
      PROVE  Way(TagsPending(b), TagsAfter(b), TagsBefore(b), shelf'[b].tags, hand[b].tags)
  <2>1. Way(TagsPending(b), TagsAfter(b), TagsBefore(b), shelf[b].tags, hand[b].tags)
    BY DEF WayInv
  <2>2. CASE b = r.book /\ r.after.tags # {}
    <3>1. shelf'[b].tags = UNION r.after.tags
      BY <1>2, <2>2 DEF Patched
    <3>2. UNION r.before.tags = shelf[b].tags
      <4>1. r.before.tags = {shelf[b].tags}
        BY <1>1, <2>2 DEF InversePatch
      <4>2. QED
        BY <4>1
    <3>3. /\ k \in TagsPending(b) /\ TagsAfter(b)[k] = UNION r.after.tags
          /\ TagsBefore(b)[k] = UNION r.before.tags
      BY <1>1, <2>2, PendingFacts
    <3>4. TagsPending(b) \in SUBSET Nat /\ \A j \in TagsPending(b) : j <= k
      BY <1>1, PendingIndices
    <3>5. Way(TagsPending(b), TagsAfter(b), TagsBefore(b), TagsAfter(b)[k], hand[b].tags)
      BY <2>1, <3>2, <3>3, <3>4, WayLands
    <3>6. QED
      BY <3>1, <3>3, <3>5
  <2>3. CASE b = r.book /\ r.after.tags = {}
    <3>1. shelf'[b].tags = shelf[b].tags
      BY <1>2, <2>3 DEF Patched
    <3>2. QED
      BY <2>1, <3>1
  <2>4. CASE b # r.book
    BY <1>2, <2>1, <2>4
  <2>5. QED
    BY <2>2, <2>3, <2>4
<1>5. QED
  BY <1>1, <1>3, <1>4, StillAWay DEF WayInv

\* A revision is put back, marked or not.
LEMMA PutsBackWay ==
  ASSUME Inv, HeldInv, WayInv, NoValueReturns, [Next]_vars, NEW v \in Reverters, PutsBack(v),
         \A u \in Reverters : PutsBack(u) => u = v
  PROVE  WayInv'
<1> DEFINE i == Newest(v)
           r == revisions[i]
           n == Len(revisions)
<1>1. /\ i \in revert[v].chosen /\ i \in DOMAIN revisions /\ ~r.reverted
      /\ Patched(shelf[r.book], r.after) = shelf[r.book] /\ hand' = hand
  BY NewestChosen DEF PutsBack, AtRestore, HeldInv, HoldingInv, Holding
<1>2. /\ r.book \in Books /\ shelf \in [Books -> Content]
      /\ shelf' = [shelf EXCEPT ![r.book] = Patched(shelf[r.book], r.before)]
  BY <1>1, RevisionFacts DEF PutsBack, PutBack, Inv, TypeOK
<1>3. ASSUME NEW b \in Books, NEW f \in Fields
      PROVE  Way(TextPending(b, f)', TextAfter(b, f)', TextBefore(b, f)', shelf'[b].text[f], hand[b].text[f])
  <2> DEFINE P == TextPending(b, f)
             A == TextAfter(b, f)
             B == TextBefore(b, f)
             h == hand[b].text[f]
  <2>1. Way(P, A, B, shelf[b].text[f], h) /\ NoReturn(P, A, B, h)
    BY DEF WayInv, NoValueReturns
  <2> DEFINE Q == TextPending(b, f)'
             A2 == TextAfter(b, f)'
             B2 == TextBefore(b, f)'
             s == shelf[b].text[f]
             t == shelf'[b].text[f]
  <2>2. P \ {i} \subseteq Q /\ \A j \in P \ {i} : A2[j] = A[j] /\ B2[j] = B[j]
    BY PendingStays
  <2>3. CASE b = r.book /\ f \in DOMAIN r.after.text
    <3>1. shelf[b].text[f] = r.after.text[f] /\ f \in DOMAIN r.before.text
          /\ i \in P /\ A[i] = r.after.text[f] /\ B[i] = r.before.text[f]
      <4>1. Patched(shelf[b], r.after).text[f] = r.after.text[f]
        BY <2>3 DEF Patched
      <4>2. QED
        BY <1>1, <2>3, <4>1, PendingFacts
    <3>2. shelf'[b].text[f] = B[i]
      BY <1>2, <2>3, <3>1 DEF Patched
    <3>3. n \in Nat /\ P \in SUBSET (1 .. n)
      BY PendingIndices
    <3>4. i \in P /\ s = A[i] /\ t = B[i] /\ Way(P, A, B, s, h) /\ NoReturn(P, A, B, h)
      BY <2>1, <3>1, <3>2
    <3> HIDE DEF P, A, B, h, n, i, Q, A2, B2, s, t
    <3>5. Way(Q, A2, B2, t, h)
      BY <2>2, <3>3, <3>4, WayRestored
    <3>6. QED
      BY <3>5 DEF Q, A2, B2, t, h
  <2>4. CASE b # r.book \/ f \notin DOMAIN r.after.text
    <3>1. i \notin P
      <4>1. b # r.book => i \notin P
        BY DEF TextPending, Pending
      <4>2. b = r.book => i \notin P
        BY <1>1, <2>4, PendingFacts
      <4>3. QED
        BY <4>1, <4>2
    <3>2. shelf'[b].text[f] = shelf[b].text[f]
      <4>1. CASE b # r.book
        BY <1>2, <4>1
      <4>2. CASE b = r.book
        <5>1. f \notin DOMAIN r.before.text
          BY <1>1, <2>4, <4>2, PendingFacts
        <5>2. QED
          BY <1>2, <4>2, <5>1 DEF Patched
      <4>3. QED
        BY <4>1, <4>2
    <3> HIDE DEF P, A, B, h, n, i
    <3>3. P \subseteq TextPending(b, f)'
      BY <2>2, <3>1
    <3>4. Way(TextPending(b, f)', TextAfter(b, f)', TextBefore(b, f)', shelf[b].text[f], h)
      BY <2>1, <2>2, <3>1, <3>3, WayStays
    <3>5. QED
      BY <3>2, <3>4 DEF h
  <2>5. QED
    BY <2>3, <2>4
<1>4. ASSUME NEW b \in Books
      PROVE  Way(TagsPending(b)', TagsAfter(b)', TagsBefore(b)', shelf'[b].tags, hand[b].tags)
  <2> DEFINE P == TagsPending(b)
             A == TagsAfter(b)
             B == TagsBefore(b)
             h == hand[b].tags
  <2>1. Way(P, A, B, shelf[b].tags, h) /\ NoReturn(P, A, B, h)
    BY DEF WayInv, NoValueReturns
  <2> DEFINE Q == TagsPending(b)'
             A2 == TagsAfter(b)'
             B2 == TagsBefore(b)'
             s == shelf[b].tags
             t == shelf'[b].tags
  <2>2. P \ {i} \subseteq Q /\ \A j \in P \ {i} : A2[j] = A[j] /\ B2[j] = B[j]
    BY PendingStays
  <2>3. CASE b = r.book /\ r.after.tags # {}
    <3>1. shelf[b].tags = UNION r.after.tags /\ r.before.tags # {}
          /\ i \in P /\ A[i] = UNION r.after.tags /\ B[i] = UNION r.before.tags
      <4>1. Patched(shelf[b], r.after).tags = UNION r.after.tags
        BY <2>3 DEF Patched
      <4>2. QED
        BY <1>1, <2>3, <4>1, PendingFacts
    <3>2. shelf'[b].tags = B[i]
      BY <1>2, <2>3, <3>1 DEF Patched
    <3>3. n \in Nat /\ P \in SUBSET (1 .. n)
      BY PendingIndices
    <3>4. i \in P /\ s = A[i] /\ t = B[i] /\ Way(P, A, B, s, h) /\ NoReturn(P, A, B, h)
      BY <2>1, <3>1, <3>2
    <3> HIDE DEF P, A, B, h, n, i, Q, A2, B2, s, t
    <3>5. Way(Q, A2, B2, t, h)
      BY <2>2, <3>3, <3>4, WayRestored
    <3>6. QED
      BY <3>5 DEF Q, A2, B2, t, h
  <2>4. CASE b # r.book \/ r.after.tags = {}
    <3>1. i \notin P
      <4>1. b # r.book => i \notin P
        BY DEF TagsPending, Pending
      <4>2. b = r.book => i \notin P
        BY <1>1, <2>4, PendingFacts
      <4>3. QED
        BY <4>1, <4>2
    <3>2. shelf'[b].tags = shelf[b].tags
      <4>1. CASE b # r.book
        BY <1>2, <4>1
      <4>2. CASE b = r.book
        <5>1. r.before.tags = {}
          BY <1>1, <2>4, <4>2, PendingFacts
        <5>2. QED
          BY <1>2, <4>2, <5>1 DEF Patched
      <4>3. QED
        BY <4>1, <4>2
    <3> HIDE DEF P, A, B, h, n, i
    <3>3. P \subseteq TagsPending(b)'
      BY <2>2, <3>1
    <3>4. Way(TagsPending(b)', TagsAfter(b)', TagsBefore(b)', shelf[b].tags, h)
      BY <2>1, <2>2, <3>1, <3>3, WayStays
    <3>5. QED
      BY <3>2, <3>4 DEF h
  <2>5. QED
    BY <2>3, <2>4
<1>5. QED
  BY <1>1, <1>3, <1>4 DEF WayInv

\* People type, and what they type needs no way back.
LEMMA EditWay ==
  ASSUME Inv, WayInv, [Next]_vars, ~ (\E v \in Reverters : PutsBack(v)),
         NEW b \in Books, NEW p, Edit(b, p)
  PROVE  WayInv'
<1>1. /\ shelf \in [Books -> Content] /\ hand \in [Books -> Content]
      /\ shelf' = [shelf EXCEPT ![b] = Patched(shelf[b], p)]
      /\ hand' = [hand EXCEPT ![b] = Patched(hand[b], p)]
  BY DEF Edit, Inv, TypeOK
<1>2. ASSUME NEW c \in Books, NEW f \in Fields
      PROVE  Way(TextPending(c, f)', TextAfter(c, f)', TextBefore(c, f)',
                 shelf'[c].text[f], hand'[c].text[f])
  <2>1. CASE c = b /\ f \in DOMAIN p.text
    <3>1. shelf'[c].text[f] = p.text[f] /\ hand'[c].text[f] = p.text[f]
      BY <1>1, <2>1 DEF Patched
    <3>2. QED
      BY <3>1, WayTyped
  <2>2. CASE ~ (c = b /\ f \in DOMAIN p.text)
    <3>1. shelf'[c].text[f] = shelf[c].text[f] /\ hand'[c].text[f] = hand[c].text[f]
      BY <1>1, <2>2 DEF Patched
    <3>2. QED
      BY <3>1, StillAWay DEF WayInv
  <2>3. QED
    BY <2>1, <2>2
<1>3. ASSUME NEW c \in Books
      PROVE  Way(TagsPending(c)', TagsAfter(c)', TagsBefore(c)', shelf'[c].tags, hand'[c].tags)
  <2>1. CASE c = b /\ p.tags # {}
    <3>1. shelf'[c].tags = UNION p.tags /\ hand'[c].tags = UNION p.tags
      BY <1>1, <2>1 DEF Patched
    <3>2. QED
      BY <3>1, WayTyped
  <2>2. CASE ~ (c = b /\ p.tags # {})
    <3>1. shelf'[c].tags = shelf[c].tags /\ hand'[c].tags = hand[c].tags
      BY <1>1, <2>2 DEF Patched
    <3>2. QED
      BY <3>1, StillAWay DEF WayInv
  <2>3. QED
    BY <2>1, <2>2
<1>4. QED
  BY <1>2, <1>3 DEF WayInv

\* A revert puts back alone.
LEMMA AlonePutsBack ==
  ASSUME Inv, CareInv, HeldInv, NEW v \in Reverters, PutsBack(v)
  PROVE  /\ \A u \in Reverters : PutsBack(u) => u = v
         /\ \A w \in Workers : ~Busy(w)
<1>1. \A u \in Reverters : PutsBack(u) => Restoring(u)
  BY DEF PutsBack, AtRestore, Restoring
<1>2. QED
  BY <1>1 DEF CareInv, HeldInv, HoldingInv

LEMMA NextWay ==
  ASSUME Inv, CareInv, HeldInv, WayInv, NoValueReturns, [Next]_vars
  PROVE  WayInv'
<1>1. ASSUME NEW v \in Reverters, PutsBack(v) PROVE WayInv'
  BY <1>1, AlonePutsBack, PutsBackWay
<1>2. CASE ~ (\E v \in Reverters : PutsBack(v))
  <2>1. CASE Quiet \/ \E w \in Workers, b \in Books : Records(w, b)
    BY <1>2, <2>1, SameBooksWay DEF Quiet, Records
  <2>2. CASE \E w \in Workers : Lands(w)
    BY <1>2, <2>2, LandsWay
  <2>3. CASE \E b \in Books : \E p \in OneField \cup OneTag(b) : Edit(b, p)
    BY <1>2, <2>3, EditWay
  <2>4. QED
    BY <1>2, <2>1, <2>2, <2>3, KindsOfStep
<1>3. QED
  BY <1>1, <1>2

\* As long as people keep out of the program's way, nobody forces a revert and
\* no value comes back, every applied change records how to put it back: from
\* what any book says, at any moment of any applies, reverts, failures and
\* crashes, pending revisions lead back to what people last made it say
\* (applyPatch, core/revisions.ts; runRevertTask, core/revert.ts).
THEOREM WayBackHolds ==
  ASSUME Careful, Forces \subseteq {FALSE}
  PROVE  Spec /\ []NoValueReturns => []WayBack
<1>1. Init => WayInv
  BY InitWay
<1>2. Inv /\ CareInv /\ HeldInv /\ NoValueReturns /\ WayInv /\ [Next]_vars => WayInv'
  BY NextWay
<1>3. WayInv => WayBack
  BY DEF WayInv, WayBack
<1>4. QED
  BY <1>1, <1>2, <1>3, Invariance, CareHolds, HeldHolds, PTL DEF Spec

--------------------------------------------------------------------------------
\* A field a patch sets said what its plan was decided against, and a tag it
\* adds or takes away is one its plan decided about.
LEMMA PatchDecides ==
  ASSUME NEW p, NEW c, NEW may
  PROVE  /\ \A f \in DOMAIN PatchFor(p, c, may).text : p.change[f].from = c.text[f]
         /\ PatchFor(p, c, may).tags # {} =>
              \A t : (t \in UNION PatchFor(p, c, may).tags) # (t \in c.tags)
                       => t \in p.added \cup p.removed
<1>1. ASSUME NEW f \in DOMAIN PatchFor(p, c, may).text PROVE p.change[f].from = c.text[f]
  <2>1. f \in Keep(p, c, may)
    BY <1>1 DEF PatchFor
  <2>2. QED
    BY <2>1 DEF Keep, Outdated
<1>2. ASSUME PatchFor(p, c, may).tags # {}, NEW t,
             (t \in UNION PatchFor(p, c, may).tags) # (t \in c.tags)
      PROVE  t \in p.added \cup p.removed
  <2>1. PatchFor(p, c, may).tags = {NextTags(p, c)}
    BY <1>2 DEF PatchFor
  <2>2. UNION PatchFor(p, c, may).tags = NextTags(p, c)
    BY <2>1
  <2>3. QED
    BY <1>2, <2>2 DEF NextTags
<1>3. QED
  BY <1>1, <1>2

\* What HandEditsSurvive asks of one step and one book.
TextSurvives(b) ==
  \A f \in Fields :
    shelf'[b].text[f] # shelf[b].text[f] /\ shelf[b].text[f] = hand[b].text[f]
      => \E w \in Workers : /\ Writing(w, b)
                            /\ PlanOf(w, b).change[f].from = shelf[b].text[f]

TagsSurvive(b) ==
  \A t \in Tags :
    (t \in shelf'[b].tags) # (t \in shelf[b].tags)
      => \/ \E w \in Workers : /\ Writing(w, b)
                               /\ t \in PlanOf(w, b).added \cup PlanOf(w, b).removed
         \/ ~ (\E w \in Workers : Busy(w)) /\ shelf[b].tags # hand[b].tags

LEMMA LandsSurvive ==
  ASSUME Inv, CareInv, NEW w \in Workers, Lands(w), NEW b \in Books
  PROVE  TextSurvives(b) /\ TagsSurvive(b)
<1> DEFINE r == revisions[apply[w].revision]
           p == PlanOf(w, b)
           patch == PatchFor(p, shelf[b], apply[w].mayReplace)
<1>1. /\ apply[w].revision \in DOMAIN revisions /\ shelf \in [Books -> Content]
      /\ shelf' = [shelf EXCEPT ![r.book] = Patched(shelf[r.book], r.after)]
  BY BusyFacts DEF Lands, Land, Busy, Inv, TypeOK
<1>2. CASE b # r.book
  <2>1. shelf'[b] = shelf[b]
    BY <1>1, <1>2
  <2>2. QED
    BY <2>1 DEF TextSurvives, TagsSurvive
<1>3. CASE b = r.book
  <2>1. Writing(w, b)
    BY <1>3 DEF Lands, Writing
  <2>2. r.after = patch
    BY <1>3 DEF CareInv, Fresh, Lands, PlanOf
  <2>3. shelf'[b] = Patched(shelf[b], patch)
    BY <1>1, <1>3, <2>2
  <2>4. /\ \A f \in DOMAIN patch.text : p.change[f].from = shelf[b].text[f]
        /\ patch.tags # {} =>
             \A t : (t \in UNION patch.tags) # (t \in shelf[b].tags) => t \in p.added \cup p.removed
    BY PatchDecides
  <2> HIDE DEF p, patch
  <2>5. ASSUME NEW f \in Fields, shelf'[b].text[f] # shelf[b].text[f]
        PROVE  p.change[f].from = shelf[b].text[f]
    <3>1. f \in DOMAIN patch.text
      BY <2>3, <2>5 DEF Patched
    <3>2. QED
      BY <2>4, <3>1
  <2>6. ASSUME NEW t \in Tags, (t \in shelf'[b].tags) # (t \in shelf[b].tags)
        PROVE  t \in p.added \cup p.removed
    <3>1. patch.tags # {} /\ shelf'[b].tags = UNION patch.tags
      BY <2>3, <2>6 DEF Patched
    <3>2. QED
      BY <2>4, <2>6, <3>1
  <2>7. TextSurvives(b)
    BY <2>1, <2>5 DEF TextSurvives, p
  <2>8. TagsSurvive(b)
    BY <2>1, <2>6 DEF TagsSurvive, p
  <2>9. QED
    BY <2>7, <2>8
<1>4. QED
  BY <1>2, <1>3

LEMMA PutsBackSurvives ==
  ASSUME Inv, CareInv, HeldInv, NoValueReturns, NEW v \in Reverters, PutsBack(v), NEW b \in Books
  PROVE  TextSurvives(b) /\ TagsSurvive(b)
<1> DEFINE i == Newest(v)
           r == revisions[i]
<1>1. /\ i \in revert[v].chosen /\ i \in DOMAIN revisions /\ ~r.reverted
      /\ Patched(shelf[r.book], r.after) = shelf[r.book]
  BY NewestChosen DEF PutsBack, AtRestore, HeldInv, HoldingInv, Holding
<1>2. /\ shelf \in [Books -> Content]
      /\ shelf' = [shelf EXCEPT ![r.book] = Patched(shelf[r.book], r.before)]
  BY DEF PutsBack, PutBack, Inv, TypeOK
<1>3. ~ (\E w \in Workers : Busy(w))
  BY AlonePutsBack
<1>4. CASE b # r.book
  <2>1. shelf'[b] = shelf[b]
    BY <1>2, <1>4
  <2>2. QED
    BY <2>1 DEF TextSurvives, TagsSurvive
<1>5. CASE b = r.book
  <2>1. /\ shelf'[b] = Patched(shelf[b], r.before) /\ Patched(shelf[b], r.after) = shelf[b]
        /\ \A f \in Fields : \A k \in TextPending(b, f) : TextAfter(b, f)[k] # hand[b].text[f]
        /\ \A k \in TagsPending(b) : TagsAfter(b)[k] # hand[b].tags
    BY <1>1, <1>2, <1>5 DEF NoValueReturns, NoReturn
  <2>2. ASSUME NEW f \in Fields, shelf'[b].text[f] # shelf[b].text[f]
        PROVE  shelf[b].text[f] # hand[b].text[f]
    <3>1. f \in DOMAIN r.before.text
      BY <2>1, <2>2 DEF Patched
    <3>2. f \in DOMAIN r.after.text /\ i \in TextPending(b, f) /\ TextAfter(b, f)[i] = r.after.text[f]
      BY <1>1, <1>5, <3>1, PendingFacts
    <3>3. Patched(shelf[b], r.after).text[f] = r.after.text[f]
      BY <3>2 DEF Patched
    <3>4. QED
      BY <2>1, <3>2, <3>3
  <2>3. ASSUME shelf'[b].tags # shelf[b].tags
        PROVE  shelf[b].tags # hand[b].tags
    <3>1. r.before.tags # {}
      BY <2>1, <2>3 DEF Patched
    <3>2. r.after.tags # {} /\ i \in TagsPending(b) /\ TagsAfter(b)[i] = UNION r.after.tags
      BY <1>1, <1>5, <3>1, PendingFacts
    <3>3. Patched(shelf[b], r.after).tags = UNION r.after.tags
      BY <3>2 DEF Patched
    <3>4. QED
      BY <2>1, <3>2, <3>3
  <2>4. TextSurvives(b)
    BY <2>2 DEF TextSurvives
  <2>5. TagsSurvive(b)
    BY <1>3, <2>3 DEF TagsSurvive
  <2>6. QED
    BY <2>4, <2>5
<1>6. QED
  BY <1>4, <1>5

LEMMA NextSurvives ==
  ASSUME Inv, CareInv, HeldInv, NoValueReturns, [Next]_vars, Program, NEW b \in Books
  PROVE  TextSurvives(b) /\ TagsSurvive(b)
<1>1. CASE Quiet \/ \E w \in Workers, c \in Books : Records(w, c)
  <2>1. shelf' = shelf
    BY <1>1 DEF Quiet, Records
  <2>2. QED
    BY <2>1 DEF TextSurvives, TagsSurvive
<1>2. CASE \E c \in Books : \E p \in OneField \cup OneTag(c) : Edit(c, p)
  <2>1. edits' = edits + 1 /\ edits \in Nat
    BY <1>2, ConstantFacts DEF Edit, Inv, TypeOK
  <2>2. QED
    BY <2>1 DEF Program
<1>3. QED
  BY <1>1, <1>2, KindsOfStep, LandsSurvive, PutsBackSurvives

\* Under the same conditions, a value somebody gave a book is replaced only by an
\* apply whose plan was decided against that very value, a tag only by a rating
\* that decided about it, and a revert puts back what an apply had changed and
\* never what people last wrote (decideMetadata, decideRate, core/apply.ts;
\* changedSince, core/revert.ts).
THEOREM HandEditsSurviveHolds ==
  ASSUME Careful, Forces \subseteq {FALSE}
  PROVE  Spec /\ []NoValueReturns => HandEditsSurvive
<1> DEFINE Step == \A b \in Books : Program => TextSurvives(b) /\ TagsSurvive(b)
<1>1. Inv /\ CareInv /\ HeldInv /\ NoValueReturns /\ [Next]_vars => [Step]_vars
  BY NextSurvives
<1>2. Step <=> \A b \in Books : Program =>
        /\ \A f \in Fields :
             shelf'[b].text[f] # shelf[b].text[f] /\ shelf[b].text[f] = hand[b].text[f]
               => \E w \in Workers : /\ Writing(w, b)
                                     /\ PlanOf(w, b).change[f].from = shelf[b].text[f]
        /\ \A t \in Tags :
             (t \in shelf'[b].tags) # (t \in shelf[b].tags)
               => \/ \E w \in Workers : /\ Writing(w, b)
                                        /\ t \in PlanOf(w, b).added \cup PlanOf(w, b).removed
                  \/ ~ (\E w \in Workers : Busy(w)) /\ shelf[b].tags # hand[b].tags
  BY DEF TextSurvives, TagsSurvive
<1>3. QED
  BY <1>1, <1>2, Invariance, CareHolds, HeldHolds, PTL DEF Spec, HandEditsSurvive

================================================================================

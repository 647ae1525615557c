------------------------------ MODULE SweepProofs -------------------------------
(***************************************************************************)
(* Proofs about Sweep, for every library, every set of values and tags,    *)
(* every number of workers and every number of upsets: what rate,          *)
(* metadata and normalize overwrite, what their undo records claim, and    *)
(* what their reports say.                                                 *)
(***************************************************************************)
EXTENDS Sweep, FiniteSetTheorems, WellFoundedInduction, TLAPS

\* The elements of a list.
Listed(list) == {list[k] : k \in DOMAIN list}

\* Of a verdict, something may be written.
IsDue(r, b) == b \in Judged(r) /\ Writable(r, b) # Nothing

\* The books this run has changed.
Wrote == {l.book : l \in landed}

\* A run that has its listing: each book has one place in it, and what is
\* judged was judged by the rules.
Underway(r) ==
  /\ IsRun(r) /\ r.kind \in Kinds
  /\ \A i, j \in DOMAIN r.items : r.items[i] = r.items[j] => i = j
  /\ \A b \in Books : \E i \in DOMAIN r.items : r.items[i] = b
  /\ \A b \in Judged(r) : r.verdicts[b] \in Verdicts(r, b)

\* A book not yet written says what was read, or another hand changed it since.
Mirrors(r, changed) ==
  \A b \in Books \ Wrote, s \in Parts :
    <<b, s>> \in changed \/ shelf[b][s] = r.seen[b].says[s]

\* Every place was passed over, is judged, or is still some worker's to judge.
Reached(r) ==
  \A i \in DOMAIN r.items :
    r.items[i] \in PassedOver(r) \cup Judged(r) \/ i \in r.open \cup r.busy

\* No book was left out.
Accounted(r) == Books \subseteq PassedOver(r) \cup Judged(r)

\* Before the write loop is exactly what is due and not yet written.
LeftToWrite(r) ==
  \A i \in DOMAIN r.items :
    i \in r.todo <=> r.real /\ IsDue(r, r.items[i]) /\ r.items[i] \notin r.written

EarlyInv ==
  /\ run.phase # "idle" => run.kind \in Kinds
  /\ run.phase \in {"idle", "listing"} => run.items = <<>>
  /\ run.phase \in {"idle", "listing", "expanding"} => Judged(run) = {}
  /\ run.phase \in {"idle", "listing", "expanding", "judging"} =>
       run.written = {} /\ landed = {}

WorkInv ==
  run.phase \in {"expanding", "judging", "sending", "sent"} =>
    Underway(run) /\ Mirrors(run, moved)

JudgeInv == run.phase = "judging" /\ ~run.stopped => Reached(run)

\* The task's own list of written books is right, but for an answer under way.
WriteInv ==
  run.phase \in {"sending", "sent"} =>
    /\ run.todo # {} /\ LeftToWrite(run)
    /\ run.written \subseteq Judged(run)
    /\ Wrote = run.written \cup (IF run.phase = "sent" THEN {Target(run)} ELSE {})
    /\ ~run.stopped => Accounted(run)

\* The record of the write under way is the last one.
RecordInv ==
  /\ revisions \in Seq(Listed(revisions))
  /\ run.phase = "sending" =>
       LET v == revisions[Len(revisions)]  b == Target(run) IN
       /\ Len(revisions) \in DOMAIN revisions /\ v.book = b
       /\ v.before = InversePatch(run.seen[b], Writable(run, b))

Inv ==
  /\ TypeOK /\ EarlyInv /\ WorkInv /\ JudgeInv /\ WriteInv /\ RecordInv
  /\ UndoTellsTheTruth /\ ReportIsWhatHappened

--------------------------------------------------------------------------------
(***************************************************************************)
(* Places of a list.                                                       *)
(***************************************************************************)
\* A set of numbers has a smallest: of the intervals 0 .. n that end in it, one
\* includes no other.
LEMMA MinIsLeast ==
  ASSUME NEW T \in SUBSET Nat, T # {}
  PROVE  Min(T) \in T /\ \A n \in T : Min(T) <= n
<1> DEFINE Upto == {0 .. n : n \in T}
<1>1. Upto \subseteq FiniteSubsetsOf(Nat)
  <2>1. ASSUME NEW n \in T PROVE 0 .. n \subseteq Nat /\ IsFiniteSet(0 .. n)
    BY FS_Interval
  <2>2. QED
    BY <2>1 DEF FiniteSubsetsOf
<1>2. PICK x \in Upto : \A y \in Upto : ~ (<<y, x>> \in StrictSubsetOrdering(Nat))
  <2>1. IsWellFoundedOn(StrictSubsetOrdering(Nat), FiniteSubsetsOf(Nat))
    BY FS_StrictSubsetOrderingWellFounded
  <2>2. Upto # {}
    OBVIOUS
  <2> HIDE DEF Upto
  <2>3. QED
    BY <1>1, <2>1, <2>2, WFMin
<1>3. PICK m \in T : x = 0 .. m
  OBVIOUS
<1>4. ASSUME NEW n \in T PROVE m <= n
  <2>1. 0 .. n \in Upto
    OBVIOUS
  <2>2. ~ (0 .. n \subseteq 0 .. m /\ 0 .. n # 0 .. m)
    <3> DEFINE A == 0 .. n  B == 0 .. m
    <3>1. A \in SUBSET Nat /\ B \in SUBSET Nat
      OBVIOUS
    <3>2. ~ (<<A, B>> \in StrictSubsetOrdering(Nat))
      BY <1>2, <1>3, <2>1
    <3> HIDE DEF A, B
    <3>3. ~ (A \subseteq B /\ A # B)
      BY <3>1, <3>2 DEF StrictSubsetOrdering
    <3>4. QED
      BY <3>3 DEF A, B
  <2>3. CASE n < m
    <3>1. 0 .. n \subseteq 0 .. m /\ m \in 0 .. m /\ m \notin 0 .. n
      BY <2>3
    <3>2. QED
      BY <2>2, <3>1
  <2>4. QED
    BY <2>3
<1>5. \E k \in T : \A n \in T : k <= n
  BY <1>4
<1>6. QED
  BY <1>5 DEF Min

\* As many workers as there are take the first places there are: at least one.
LEMMA FirstTakes ==
  ASSUME NEW T \in SUBSET Nat, NEW n \in Nat \ {0}
  PROVE  First(T, n) \subseteq T /\ (First(T, n) = {} => T = {})
<1>1. ASSUME T # {} PROVE Min(T) \in First(T, n)
  <2>1. {j \in T : j < Min(T)} = {}
    <3>1. Min(T) \in Nat /\ \A j \in T : j \in Nat /\ Min(T) <= j
      BY <1>1, MinIsLeast
    <3>2. \A j \in T : ~ (j < Min(T))
      BY <3>1
    <3>3. QED
      BY <3>2
  <2>2. Cardinality({j \in T : j < Min(T)}) = 0
    BY <2>1, FS_EmptySet
  <2>3. QED
    BY <1>1, <2>2, MinIsLeast DEF First
<1>2. QED
  BY <1>1 DEF First

\* The listing names every book, once.
LEMMA Listing ==
  ASSUME NEW S, IsFiniteSet(S)
  PROVE  LET list == SetToSeq(S) IN
         /\ list \in Seq(S)
         /\ \A i, j \in DOMAIN list : list[i] = list[j] => i = j
         /\ \A b \in S : \E i \in DOMAIN list : list[i] = b
<1> DEFINE n == Cardinality(S)
           list == SetToSeq(S)
<1>1. n \in Nat /\ ExistsBijection(1 .. n, S)
  BY FS_CardinalityType
<1>2. \E f \in [1 .. n -> S] : IsInjective(f)
  BY <1>1 DEF ExistsBijection, Bijection, Injection
<1>3. list \in [1 .. n -> S] /\ IsInjective(list)
  BY <1>2 DEF SetToSeq
<1>4. list \in Seq(S)
  BY <1>1, <1>3
<1>5. list \in Injection(1 .. n, S)
  BY <1>3 DEF Injection
<1>6. IsFiniteSet(1 .. n) /\ Cardinality(1 .. n) = n
  BY <1>1, FS_Interval
<1>7. list \in Surjection(1 .. n, S)
  BY <1>5, <1>6, FS_Injection
<1> HIDE DEF list
<1>8. /\ \A i, j \in DOMAIN list : list[i] = list[j] => i = j
      /\ \A b \in S : \E i \in DOMAIN list : list[i] = b
  BY <1>3, <1>7 DEF IsInjective, Surjection
<1>9. QED
  BY <1>4, <1>8 DEF list

\* A list that grows keeps what it held.
LEMMA Grown ==
  ASSUME NEW list, list \in Seq(Listed(list)), NEW e
  PROVE  LET more == Append(list, e) IN
         /\ more \in Seq(Listed(more)) /\ Len(more) \in DOMAIN more
         /\ DOMAIN more = DOMAIN list \cup {Len(more)} /\ more[Len(more)] = e
         /\ \A k \in DOMAIN list : more[k] = list[k] /\ k \in DOMAIN more
<1> DEFINE more == Append(list, e)
           All == Listed(list) \cup {e}
<1>1. list \in Seq(All)
  OBVIOUS
<1>2. /\ Len(list) \in Nat /\ DOMAIN list = 1 .. Len(list)
      /\ more \in Seq(All) /\ Len(more) = Len(list) + 1 /\ DOMAIN more = 1 .. Len(list) + 1
      /\ more[Len(more)] = e /\ \A k \in DOMAIN list : more[k] = list[k]
  BY <1>1
<1> HIDE DEF more
<1>3. more \in Seq(Listed(more))
  BY <1>2 DEF Listed
<1>4. DOMAIN more = DOMAIN list \cup {Len(more)}
  BY <1>2
<1>5. QED
  BY <1>2, <1>3, <1>4 DEF more

--------------------------------------------------------------------------------
(***************************************************************************)
(* Verdicts and patches.                                                   *)
(***************************************************************************)
\* What is judged of a book is a patch of it.
LEMMA VerdictsArePatches ==
  ASSUME NEW r, IsRun(r), r.kind \in Kinds, NEW b \in Books, NEW v \in Verdicts(r, b)
  PROVE  IsPatch(v)
<1> DEFINE reading == r.seen[b]
<1>1. reading.says \in Item
  BY DEF IsRun, Reading
<1>2. reading.says["tags"] \subseteq Values["tags"]
  BY <1>1 DEF Item
<1> HIDE DEF reading
<1>3. ASSUME NEW w, IsPatch(w) PROVE IsPatch(Proposed(reading, w))
  BY <1>3 DEF IsPatch, Proposed
<1>4. ASSUME NEW w \in RateVerdicts(reading) PROVE IsPatch(w)
  BY <1>2, SweepAssumption DEF IsPatch, RateVerdicts, Parts
<1>5. ASSUME NEW w \in MetadataVerdicts(reading, r.force) PROVE IsPatch(w)
  BY DEF IsPatch, MetadataVerdicts, Nothing, Parts
<1>6. ASSUME NEW w \in NormalizeVerdicts(reading) PROVE IsPatch(w)
  <2>1. PICK parts \in SUBSET {"names", "tags"}, people \in SUBSET Values["names"] :
          w = [s \in parts |-> IF s = "names" THEN people
                               ELSE reading.says["tags"] \cup {Work}]
    BY DEF NormalizeVerdicts
  <2>2. QED
    BY <1>2, <2>1, SweepAssumption DEF IsPatch, Parts
<1>7. r.kind \in {"rate", "metadata", "normalize"}
  BY SweepAssumption
<1>8. CASE r.kind = "rate"
  BY <1>3, <1>4, <1>8 DEF Verdicts, reading
<1>9. CASE r.kind = "metadata"
  BY <1>3, <1>5, <1>9 DEF Verdicts, reading
<1>10. CASE r.kind = "normalize"
  BY <1>3, <1>6, <1>10 DEF Verdicts, reading
<1>11. QED
  BY <1>7, <1>8, <1>9, <1>10

\* What of a verdict is written is part of it, and is a patch with an inverse.
LEMMA PatchesAreSound ==
  ASSUME NEW r, IsRun(r), NEW b \in Judged(r)
  PROVE  /\ b \in Books
         /\ IsPatch(r.verdicts[b]) /\ IsPatch(Writable(r, b))
         /\ IsPatch(InversePatch(r.seen[b], Writable(r, b)))
         /\ r.verdicts[b] = Nothing => Writable(r, b) = Nothing
<1> DEFINE v == r.verdicts[b]
           w == Writable(r, b)
<1>1. b \in Books /\ IsPatch(v)
  BY DEF IsRun, Judged
<1>2. r.seen[b].says \in Item
  BY <1>1 DEF IsRun, Reading
<1>3. w = v \/ w = [s \in {s \in DOMAIN v : Additive(r.seen[b], s)} |-> v[s]]
  BY DEF Writable
<1> HIDE DEF v, w
<1>4. IsPatch(w)
  BY <1>1, <1>3 DEF IsPatch
<1>5. IsPatch(InversePatch(r.seen[b], w))
  <2>1. \A s \in DOMAIN w : s \in Parts
    BY <1>4 DEF IsPatch
  <2>2. \A s \in Parts : r.seen[b].says[s] \subseteq Values[s]
    BY <1>2 DEF Item, Parts
  <2>3. QED
    BY <2>1, <2>2 DEF IsPatch, InversePatch
<1>6. v = Nothing => w = Nothing
  BY <1>3 DEF Nothing
<1>7. QED
  BY <1>1, <1>4, <1>5, <1>6 DEF v, w

\* Two states of a run that agree on what it was told, read and judged.
Alike(p, r) ==
  /\ p.kind = r.kind /\ p.force = r.force /\ p.mayReplace = r.mayReplace
  /\ p.seen = r.seen /\ p.verdicts = r.verdicts /\ p.items = r.items

LEMMA AlikeJudgeAlike ==
  ASSUME NEW p, NEW r, Alike(p, r)
  PROVE  /\ Judged(p) = Judged(r) /\ PassedOver(p) = PassedOver(r)
         /\ \A b : /\ Verdicts(p, b) = Verdicts(r, b)
                   /\ Writable(p, b) = Writable(r, b) /\ IsDue(p, b) = IsDue(r, b)
         /\ p.todo = r.todo => Target(p) = Target(r)
<1>1. Judged(p) = Judged(r) /\ PassedOver(p) = PassedOver(r)
  BY DEF Alike, Judged, PassedOver
<1>2. ASSUME NEW b PROVE Verdicts(p, b) = Verdicts(r, b) /\ Writable(p, b) = Writable(r, b)
  BY DEF Alike, Verdicts, Writable
<1>3. p.todo = r.todo => Target(p) = Target(r)
  BY DEF Alike, Target, Turn
<1>4. QED
  BY <1>1, <1>2, <1>3 DEF IsDue

LEMMA AlikeMirror ==
  ASSUME NEW p, NEW r, Alike(p, r), IsRun(p)
  PROVE  /\ Underway(r) => Underway(p)
         /\ \A changed : Mirrors(r, changed) => Mirrors(p, changed)
         /\ Accounted(r) => Accounted(p)
<1>1. Underway(r) => Underway(p)
  BY AlikeJudgeAlike DEF Underway, Alike
<1>2. QED
  BY <1>1, AlikeJudgeAlike DEF Mirrors, Accounted, Alike

--------------------------------------------------------------------------------
(***************************************************************************)
(* What follows an await: the run goes on from its locals r.               *)
(***************************************************************************)
\* The step leaves the books and the writes alone.
Aside ==
  /\ UNCHANGED <<shelf, allow, landed>>
  /\ moved' \subseteq Books \X Parts /\ upsets' \in 0 .. MaxUpsets

LEMMA StillTrue ==
  ASSUME TypeOK, UndoTellsTheTruth, Aside, IsRun(run'),
         UNCHANGED <<report, revisions>>
  PROVE  TypeOK' /\ UndoTellsTheTruth' /\ Wrote' = Wrote
<1>1. TypeOK'
  BY DEF TypeOK, Aside
<1>2. UndoTellsTheTruth' /\ Wrote' = Wrote
  BY DEF UndoTellsTheTruth, Aside, Wrote
<1>3. QED
  BY <1>1, <1>2

\* The locals a step leaves behind are well formed, field by field.
LEMMA FieldsOfRun ==
  ASSUME NEW r, IsRun(r)
  PROVE  DOMAIN r = {"phase", "kind", "real", "force", "mayReplace", "abort", "seen",
                     "unread", "items", "open", "busy", "verdicts", "stopped", "todo",
                     "written"}
BY DEF IsRun, Idle

\* All that the write loop relies on when it looks at its next book.
Continuing(r, changed) ==
  /\ Underway(r) /\ Mirrors(r, changed) /\ LeftToWrite(r)
  /\ r.written \subseteq Judged(r) /\ Wrote = r.written
  /\ ~r.stopped => Accounted(r)

\* A run that ends here reports what happened.
LEMMA ReturnKeeps ==
  ASSUME TypeOK, RecordInv, UndoTellsTheTruth, Aside,
         NEW r, Continuing(r, moved'), r.todo = {} \/ r.abort, Return(r)
  PROVE  Inv'
<1> DEFINE p == [r EXCEPT !.phase = "returned", !.stopped = @ \/ r.abort]
<1>1. IsRun(r) /\ r.kind \in Kinds
  BY DEF Continuing, Underway
<1>2. /\ p.phase = "returned" /\ p.stopped = (r.stopped \/ r.abort)
      /\ Alike(p, r) /\ p.written = r.written
  BY <1>1, FieldsOfRun DEF Alike
<1>3. IsRun(p)
  BY <1>1, FieldsOfRun DEF IsRun
<1>4. run' = p /\ UNCHANGED revisions
  BY DEF Return
<1> HIDE DEF p
<1>5. \A b \in DOMAIN report' : IsRow(report'[b])
  <2>1. ASSUME NEW b \in Judged(r) PROVE IsRow(RowOf(r, b))
    <3>1. IsPatch(r.verdicts[b]) /\ IsPatch(Nothing)
      BY <1>1, PatchesAreSound DEF IsPatch, Nothing
    <3>2. r.real \in BOOLEAN
      BY <1>1 DEF IsRun
    <3>3. QED
      BY <3>1, <3>2 DEF IsRow, RowOf
  <2>2. IsRow(Skipped)
    BY DEF IsRow, Skipped, IsPatch, Nothing
  <2>3. QED
    BY <2>1, <2>2 DEF Return
<1>6. DOMAIN report' \subseteq Books
  BY <1>1 DEF Return, Judged, PassedOver, IsRun
<1>7. TypeOK'
  BY <1>3, <1>4, <1>5, <1>6 DEF TypeOK, Aside
<1>8. UndoTellsTheTruth'
  BY <1>4 DEF UndoTellsTheTruth, Aside
<1>9. RecordInv'
  BY <1>2, <1>4 DEF RecordInv
<1>10. EarlyInv' /\ WorkInv' /\ JudgeInv' /\ WriteInv'
  BY <1>1, <1>2, <1>4 DEF EarlyInv, WorkInv, JudgeInv, WriteInv, Alike
<1>11. ReportIsWhatHappened'
  <2> DEFINE wrote(b) == \E l \in landed : l.book = b
  <2>1. \A b : wrote(b) <=> b \in r.written
    BY DEF Continuing, Wrote
  <2>2. ASSUME NEW b \in Books, b \notin DOMAIN report' PROVE p.stopped /\ b \notin r.written
    <3>1. b \notin Judged(r) \cup PassedOver(r)
      BY <2>2 DEF Return
    <3>2. QED
      BY <3>1, <1>2 DEF Continuing, Accounted
  <2>3. ASSUME NEW b \in Books, b \in Judged(r)
        PROVE  /\ report'[b].plan # Nothing => b \notin r.written
               /\ report'[b].status = "action" /\ report'[b].plan = Nothing => b \in r.written
               /\ report'[b].unwritten => p.stopped /\ report'[b].plan # Nothing
    <3>1. report'[b] = RowOf(r, b)
      BY <2>3 DEF Return
    <3>2. report'[b].plan # Nothing => b \notin r.written
      BY <3>1 DEF RowOf
    <3>3. report'[b].status = "action" /\ report'[b].plan = Nothing => b \in r.written
      BY <3>1 DEF RowOf
    <3>4. ASSUME report'[b].unwritten PROVE p.stopped /\ report'[b].plan # Nothing
      <4> r.real \in BOOLEAN /\ r.abort \in BOOLEAN /\ r.stopped \in BOOLEAN
        BY <1>1 DEF IsRun
      <4>1. r.real /\ Writable(r, b) # Nothing /\ b \notin r.written
        <5>1. report'[b].unwritten =
                (r.real /\ Writable(r, b) # Nothing /\ b \notin r.written)
          BY <3>1 DEF RowOf
        <5>2. QED
          BY <3>4, <5>1, Zenon
      <4>2. r.verdicts[b] # Nothing
        BY <4>1, <2>3, <1>1, PatchesAreSound
      <4>3. PICK i \in DOMAIN r.items : r.items[i] = b
        BY DEF Continuing, Underway
      <4>4. i \in r.todo
        BY <2>3, <4>1, <4>3 DEF Continuing, LeftToWrite, IsDue
      <4>5. r.abort
        BY <4>4
      <4>6. p.stopped
        BY <1>2, <4>5, Zenon
      <4>7. QED
        BY <3>1, <4>1, <4>2, <4>6 DEF RowOf
    <3>5. QED
      BY <3>2, <3>3, <3>4
  <2>4. ASSUME NEW b \in Books, b \in PassedOver(r) \ Judged(r)
        PROVE  report'[b] = Skipped /\ b \notin r.written
    BY <2>4 DEF Return, Continuing
  <2>5. DOMAIN report' = Judged(r) \cup PassedOver(r)
    BY DEF Return
  <2>6. landed' = landed
    BY DEF Aside
  <2> HIDE DEF wrote
  <2>7. ASSUME NEW b \in Books
        PROVE  IF b \notin DOMAIN report' THEN run'.stopped /\ ~wrote(b)
               ELSE /\ report'[b].plan # Nothing => ~wrote(b)
                    /\ report'[b].status = "action" /\ report'[b].plan = Nothing => wrote(b)
                    /\ report'[b].unwritten => run'.stopped /\ report'[b].plan # Nothing
    <3>1. CASE b \notin DOMAIN report'
      BY <1>4, <2>1, <2>2, <3>1
    <3>2. CASE b \in Judged(r)
      BY <1>4, <2>1, <2>3, <2>5, <3>2
    <3>3. CASE b \in PassedOver(r) \ Judged(r)
      BY <2>1, <2>4, <2>5, <3>3 DEF Skipped
    <3>4. QED
      BY <2>5, <3>1, <3>2, <3>3
  <2>8. QED
    BY <2>6, <2>7 DEF ReportIsWhatHappened, wrote
<1>12. QED
  BY <1>7, <1>8, <1>9, <1>10, <1>11 DEF Inv

\* A run that goes on puts the undo record of its next book on record first.
LEMMA RecordKeeps ==
  ASSUME TypeOK, RecordInv, UndoTellsTheTruth, ReportIsWhatHappened, Aside,
         NEW r, Continuing(r, moved'), r.todo # {}, Record(r, Target(r))
  PROVE  Inv'
<1> DEFINE p == [r EXCEPT !.phase = "sending"]
           b == Target(r)
           v == [book |-> b, before |-> InversePatch(r.seen[b], Writable(r, b)),
                 after |-> Writable(r, b)]
<1>1. Underway(r) /\ IsRun(r) /\ r.kind \in Kinds
  BY DEF Continuing, Underway
<1>2. p.phase = "sending" /\ Alike(p, r) /\ p.todo = r.todo /\ p.real = r.real
      /\ p.written = r.written /\ p.stopped = r.stopped
  BY <1>1, FieldsOfRun DEF Alike
<1>3. IsRun(p)
  BY <1>1, FieldsOfRun DEF IsRun
<1>4. run' = p /\ revisions' = Append(revisions, v) /\ report' = report
  BY DEF Record
<1> HIDE DEF p
<1>5. Turn(r) \in r.todo /\ Turn(r) \in DOMAIN r.items
  <2>1. r.todo \subseteq DOMAIN r.items /\ DOMAIN r.items \subseteq Nat
    BY <1>1 DEF IsRun
  <2>2. QED
    BY <2>1, MinIsLeast DEF Turn
<1>6. r.real /\ b \in Judged(r) /\ b \notin r.written
  BY <1>5 DEF Continuing, LeftToWrite, Target, IsDue
<1>7. IsRevision(v)
  BY <1>1, <1>6, PatchesAreSound DEF IsRevision
<1> HIDE DEF v
<1>8. /\ revisions' \in Seq(Listed(revisions')) /\ Len(revisions') \in DOMAIN revisions'
      /\ DOMAIN revisions' = DOMAIN revisions \cup {Len(revisions')}
      /\ revisions'[Len(revisions')] = v
      /\ \A k \in DOMAIN revisions : revisions'[k] = revisions[k] /\ k \in DOMAIN revisions'
  BY <1>4, Grown DEF RecordInv
<1>9. TypeOK'
  <2>1. \A k \in DOMAIN revisions' : IsRevision(revisions'[k])
    BY <1>7, <1>8 DEF TypeOK
  <2>2. QED
    BY <1>3, <1>4, <2>1 DEF TypeOK, Aside
<1>10. UndoTellsTheTruth'
  <2>1. ASSUME NEW l \in landed, NEW k \in DOMAIN revisions
        PROVE  revisions'[k] = revisions[k] /\ k \in DOMAIN revisions'
    BY <1>8
  <2>2. landed' = landed
    BY DEF Aside
  <2>3. QED
    BY <2>1, <2>2 DEF UndoTellsTheTruth
<1>11. RecordInv'
  <2>1. Target(p) = b /\ Writable(p, b) = Writable(r, b) /\ p.seen = r.seen
    BY <1>2, AlikeJudgeAlike DEF Alike
  <2>2. v.book = b /\ v.before = InversePatch(r.seen[b], Writable(r, b))
    BY DEF v
  <2> HIDE DEF b
  <2>3. QED
    BY <1>2, <1>4, <1>8, <2>1, <2>2 DEF RecordInv
<1>12. EarlyInv' /\ JudgeInv'
  BY <1>1, <1>2, <1>4 DEF EarlyInv, JudgeInv, Alike
<1>13. WorkInv'
  <2>1. Underway(p) /\ Mirrors(p, moved')
    BY <1>2, <1>3, AlikeMirror DEF Continuing
  <2>2. Mirrors(p, moved)'
    BY <2>1, <1>4 DEF Mirrors, Aside, Wrote
  <2>3. Underway(run)' /\ Mirrors(run, moved)'
    BY <1>4, <2>1, <2>2 DEF Mirrors, Aside, Wrote
  <2>4. QED
    BY <2>3 DEF WorkInv
<1>14. WriteInv'
  <2>1. LeftToWrite(p)
    BY <1>2, AlikeJudgeAlike DEF Continuing, LeftToWrite, Alike
  <2>2. p.written \subseteq Judged(p) /\ (~p.stopped => Accounted(p))
    BY <1>2, <1>3, AlikeMirror, AlikeJudgeAlike DEF Continuing
  <2>3. Wrote' = p.written
    BY <1>2 DEF Continuing, Wrote, Aside
  <2>4. QED
    BY <1>2, <1>4, <2>1, <2>2, <2>3 DEF WriteInv
<1>15. ReportIsWhatHappened'
  BY <1>2, <1>4 DEF ReportIsWhatHappened
<1>16. QED
  BY <1>9, <1>10, <1>11, <1>12, <1>13, <1>14, <1>15 DEF Inv

LEMMA ContinueKeeps ==
  ASSUME Inv, Aside, NEW r, Continuing(r, moved'), Continue(r)
  PROVE  Inv'
<1>1. CASE r.todo = {} \/ r.abort
  BY <1>1, ReturnKeeps DEF Continue, Inv
<1>2. CASE ~ (r.todo = {} \/ r.abort)
  BY <1>2, RecordKeeps DEF Continue, Inv
<1>3. QED
  BY <1>1, <1>2

\* All that the map relies on when one of its workers is done.
Mapping(r, changed) ==
  /\ Underway(r) /\ Mirrors(r, changed)
  /\ r.written = {} /\ landed = {}
  /\ ~r.stopped => Reached(r)

\* The map that resolves has left nobody out, and what is due is to be written.
LEMMA SettleKeeps ==
  ASSUME Inv, Aside, NEW r, Mapping(r, moved'), ~r.stopped => Accounted(r), Settle(r)
  PROVE  Inv'
<1> DEFINE due(b) == b \in Judged(r) /\ Writable(r, b) # Nothing
           places == {i \in DOMAIN r.items : r.real /\ due(r.items[i])}
           q == [r EXCEPT !.todo = places]
<1>1. IsRun(r) /\ Underway(r)
  BY DEF Mapping, Underway
<1>2. Alike(q, r) /\ q.todo = places /\ q.real = r.real /\ q.written = {}
      /\ q.stopped = r.stopped
  BY <1>1, FieldsOfRun DEF Alike, Mapping
<1>3. places \subseteq DOMAIN r.items
  OBVIOUS
<1>4. Continue(q)
  BY DEF Settle
<1> HIDE DEF places
<1>5. IsRun(q)
  BY <1>1, <1>3, FieldsOfRun DEF IsRun
<1> HIDE DEF q
<1>6. Underway(q) /\ Mirrors(q, moved') /\ (~q.stopped => Accounted(q))
  BY <1>1, <1>2, <1>5, AlikeMirror DEF Mapping
<1>7. LeftToWrite(q)
  BY <1>2, AlikeJudgeAlike DEF LeftToWrite, IsDue, Alike, places
<1>8. Wrote = {}
  BY DEF Wrote, Mapping
<1>9. Continuing(q, moved')
  BY <1>2, <1>6, <1>7, <1>8 DEF Continuing
<1>10. QED
  BY <1>4, <1>9, ContinueKeeps

LEMMA JoinKeeps ==
  ASSUME Inv, Aside, NEW r, Mapping(r, moved'), r.phase = "judging",
         r.busy = {} /\ ~r.stopped => Accounted(r), JoinOr(r)
  PROVE  Inv'
<1>1. CASE r.busy = {}
  BY <1>1, SettleKeeps DEF JoinOr
<1>2. CASE r.busy # {}
  <2>1. run' = r /\ UNCHANGED <<report, revisions>>
    BY <1>2 DEF JoinOr
  <2>2. IsRun(run') /\ Underway(r) /\ Mirrors(r, moved') /\ r.kind \in Kinds
    BY <2>1 DEF Mapping, Underway
  <2>3. TypeOK' /\ UndoTellsTheTruth' /\ Wrote' = Wrote
    BY <2>1, <2>2, StillTrue DEF Inv
  <2>4. Underway(run)' /\ Mirrors(run, moved)'
    BY <2>1, <2>2, <2>3 DEF Mirrors, Aside
  <2>5. EarlyInv' /\ WorkInv' /\ JudgeInv' /\ WriteInv'
    BY <2>1, <2>2, <2>4 DEF EarlyInv, WorkInv, JudgeInv, WriteInv, Mapping, Aside
  <2>6. RecordInv' /\ ReportIsWhatHappened'
    BY <2>1 DEF RecordInv, ReportIsWhatHappened, Inv
  <2>7. QED
    BY <2>3, <2>5, <2>6 DEF Inv
<1>3. QED
  BY <1>1, <1>2

\* Workers that claim leave no book behind: they stop claiming when there is
\* none left, or when the run was stopped, which it then says.
LEMMA ClaimKeeps ==
  ASSUME Inv, Aside, NEW r, NEW n \in Nat \ {0}, Mapping(r, moved'), Claim(r, n)
  PROVE  Inv'
<1>1. IsRun(r) /\ Underway(r)
  BY DEF Mapping, Underway
<1>2. CASE r.abort
  <2> DEFINE p == [r EXCEPT !.phase = "judging", !.stopped = TRUE]
  <2>1. p.phase = "judging" /\ p.stopped = TRUE /\ Alike(p, r) /\ p.written = r.written
    BY <1>1, FieldsOfRun DEF Alike
  <2>2. IsRun(p)
    BY <1>1, FieldsOfRun DEF IsRun
  <2>3. JoinOr(p)
    BY <1>2 DEF Claim
  <2> HIDE DEF p
  <2>4. Mapping(p, moved')
    BY <2>1, <2>2, AlikeMirror DEF Mapping
  <2>5. QED
    BY <2>1, <2>3, <2>4, JoinKeeps
<1>3. CASE ~r.abort
  <2> DEFINE p == Claimed(r, n)
             first == First(r.open, n)
  <2>1. /\ p.phase = "judging" /\ p.busy = r.busy \cup first /\ p.open = r.open \ first
        /\ p.stopped = r.stopped /\ Alike(p, r) /\ p.written = r.written
    BY <1>1, FieldsOfRun DEF Alike, Claimed
  <2>2. first \subseteq r.open /\ (first = {} => r.open = {})
    <3>1. r.open \in SUBSET Nat
      BY <1>1 DEF IsRun
    <3>2. QED
      BY <3>1, FirstTakes
  <2>3. IsRun(p)
    <3> HIDE DEF first
    <3>1. p = [r EXCEPT !.phase = "judging", !.busy = @ \cup first, !.open = @ \ first]
      BY DEF Claimed, first
    <3> HIDE DEF p
    <3>2. QED
      BY <1>1, <2>2, <3>1, FieldsOfRun DEF IsRun
  <2>4. JoinOr(p)
    BY <1>3 DEF Claim
  <2> HIDE DEF p, first
  <2>5. ~r.stopped => Reached(p)
    BY <2>1, <2>2, AlikeJudgeAlike DEF Mapping, Reached, Alike
  <2>6. Mapping(p, moved')
    BY <2>1, <2>3, <2>5, AlikeMirror DEF Mapping
  <2>7. p.busy = {} /\ ~p.stopped => Accounted(p)
    <3>1. SUFFICES ASSUME p.busy = {}, ~p.stopped, NEW b \in Books
                   PROVE  b \in PassedOver(p) \cup Judged(p)
      BY DEF Accounted
    <3>2. p.open = {}
      BY <2>1, <2>2, <3>1
    <3>3. PICK i \in DOMAIN p.items : p.items[i] = b
      BY <2>6 DEF Mapping, Underway
    <3>4. QED
      BY <2>1, <2>5, <3>1, <3>2, <3>3 DEF Reached
  <2>8. QED
    BY <2>1, <2>4, <2>6, <2>7, JoinKeeps
<1>4. QED
  BY <1>2, <1>3

LEMMA StartMapKeeps ==
  ASSUME Inv, Aside, NEW r, Underway(r), Mirrors(r, moved'),
         r.written = {}, landed = {}, StartMap(r)
  PROVE  Inv'
<1> DEFINE places == {i \in DOMAIN r.items : r.items[i] \notin PassedOver(r)}
           q == [r EXCEPT !.open = places]
<1>1. IsRun(r)
  BY DEF Underway
<1>2. Alike(q, r) /\ q.written = {} /\ q.open = places
  BY <1>1, FieldsOfRun DEF Alike
<1>3. places \subseteq DOMAIN r.items
  OBVIOUS
<1>4. Claim(q, Concurrency)
  BY DEF StartMap
<1> HIDE DEF places
<1>5. IsRun(q)
  BY <1>1, <1>3, FieldsOfRun DEF IsRun
<1> HIDE DEF q
<1>6. Underway(q) /\ Mirrors(q, moved')
  BY <1>2, <1>5, AlikeMirror
<1>7. Reached(q)
  BY <1>2, AlikeJudgeAlike DEF Reached, Alike, places
<1>8. Mapping(q, moved')
  BY <1>2, <1>6, <1>7 DEF Mapping
<1>9. QED
  BY <1>4, <1>8, ClaimKeeps, SweepAssumption

\* A run that throws reports nothing and leaves its records.
LEMMA ThrowKeeps ==
  ASSUME Inv, Aside, run' = [run EXCEPT !.phase = "threw"], UNCHANGED <<report, revisions>>,
         run.kind \in Kinds
  PROVE  Inv'
<1>1. IsRun(run)
  BY DEF Inv, TypeOK
<1>2. IsRun(run') /\ run'.phase = "threw" /\ run'.kind = run.kind
  BY <1>1, FieldsOfRun DEF IsRun
<1>3. TypeOK' /\ UndoTellsTheTruth'
  BY <1>2, StillTrue DEF Inv
<1>4. EarlyInv' /\ WorkInv' /\ JudgeInv' /\ WriteInv'
  BY <1>2 DEF EarlyInv, WorkInv, JudgeInv, WriteInv
<1>5. RecordInv' /\ ReportIsWhatHappened'
  BY <1>2 DEF RecordInv, ReportIsWhatHappened, Inv
<1>6. QED
  BY <1>3, <1>4, <1>5 DEF Inv

--------------------------------------------------------------------------------
(***************************************************************************)
(* One lemma per action.                                                   *)
(***************************************************************************)
LEMMA InitKeeps == Init => Inv
<1> SUFFICES ASSUME Init PROVE Inv
  OBVIOUS
<1>1. IsRun(run) /\ run.phase = "idle" /\ run.items = <<>> /\ Judged(run) = {}
      /\ run.written = {}
  BY DEF Init, IsRun, Idle, NoReading, Reading, Item, Parts, Judged, IsPatch, Nothing
<1>2. TypeOK
  BY <1>1, SweepAssumption DEF Init, TypeOK
<1>3. EarlyInv /\ WorkInv /\ JudgeInv /\ WriteInv /\ ReportIsWhatHappened
  BY <1>1 DEF Init, EarlyInv, WorkInv, JudgeInv, WriteInv, ReportIsWhatHappened
<1>4. RecordInv /\ UndoTellsTheTruth
  BY <1>1 DEF Init, RecordInv, UndoTellsTheTruth
<1>5. QED
  BY <1>2, <1>3, <1>4 DEF Inv

LEMMA StartKeeps ==
  ASSUME Inv, NEW kind \in Kinds, NEW real \in BOOLEAN, NEW force \in BOOLEAN,
         Start(kind, real, force)
  PROVE  Inv'
<1> DEFINE told == force /\ kind # "normalize"
           p == [Idle EXCEPT !.phase = "listing", !.kind = kind, !.real = real,
                   !.force = told, !.mayReplace = allow]
<1>1. run' = p /\ run.phase = "idle" /\ allow \in BOOLEAN /\ told \in BOOLEAN
  BY DEF Start, Inv, TypeOK
<1>2. UNCHANGED <<shelf, allow, report, revisions, moved, landed, upsets>>
  BY DEF Start
<1> HIDE DEF told
<1>3. IsRun(p)
  BY <1>1 DEF IsRun, Idle, NoReading, Reading, Item, Parts
<1>4. p.phase = "listing" /\ p.kind = kind /\ p.items = <<>> /\ p.written = {}
      /\ Judged(p) = {}
  BY DEF Idle, Judged
<1> HIDE DEF p
<1>5. landed = {}
  BY <1>1 DEF Inv, EarlyInv
<1>6. Aside
  BY <1>2 DEF Aside, Inv, TypeOK
<1>7. TypeOK' /\ UndoTellsTheTruth'
  BY <1>1, <1>2, <1>3, <1>6, StillTrue DEF Inv
<1>8. EarlyInv' /\ WorkInv' /\ JudgeInv' /\ WriteInv' /\ ReportIsWhatHappened'
  BY <1>1, <1>2, <1>4, <1>5
     DEF EarlyInv, WorkInv, JudgeInv, WriteInv, ReportIsWhatHappened
<1>9. RecordInv'
  BY <1>1, <1>2, <1>4 DEF RecordInv, Inv
<1>10. QED
  BY <1>7, <1>8, <1>9 DEF Inv

\* The listing: what the run has read is what the server says.
LEMMA ListKeeps ==
  ASSUME Inv, List
  PROVE  Inv'
<1> DEFINE readings == [b \in Books |-> [says |-> shelf[b], full |-> FALSE]]
           list == SetToSeq(Books)
           r == [run EXCEPT !.seen = readings, !.items = list, !.unread = Books]
<1>1. IsRun(run) /\ run.phase = "listing" /\ run.kind \in Kinds /\ run.items = <<>>
      /\ Judged(run) = {} /\ run.written = {} /\ landed = {}
  BY DEF List, Inv, TypeOK, EarlyInv
<1>2. Aside
  BY DEF Aside, List, Inv, TypeOK
<1>3. readings \in [Books -> Reading]
  BY DEF Inv, TypeOK, Reading
<1>4. /\ list \in Seq(Books) /\ \A i, j \in DOMAIN list : list[i] = list[j] => i = j
      /\ \A b \in Books : \E i \in DOMAIN list : list[i] = b
  BY Listing, SweepAssumption
<1>5. /\ r.kind = run.kind /\ r.items = list /\ Judged(r) = {} /\ r.written = {}
      /\ r.seen = readings /\ r.abort = run.abort
  BY <1>1, FieldsOfRun DEF Judged
<1>6. run.open = {} /\ run.busy = {} /\ run.todo = {}
  BY <1>1 DEF IsRun
<1>7. CASE run.abort
  <2>1. Throw
    BY <1>5, <1>7 DEF List
  <2>2. QED
    BY <1>1, <1>2, <2>1, ThrowKeeps DEF Throw
<1>8. CASE ~run.abort /\ run.kind = "normalize"
  <2> DEFINE p == [r EXCEPT !.phase = "expanding"]
  <2>1. run' = p /\ UNCHANGED <<report, revisions>>
    BY <1>5, <1>8 DEF List
  <2>2. /\ p.phase = "expanding" /\ p.kind = run.kind /\ p.items = list /\ Judged(p) = {}
        /\ p.written = {} /\ p.seen = readings
    BY <1>1, FieldsOfRun DEF Judged
  <2> HIDE DEF list, readings
  <2>3. IsRun(p)
    BY <1>1, <1>3, <1>4, <1>6, FieldsOfRun DEF IsRun, Judged
  <2> HIDE DEF p
  <2>4. Underway(p)
    BY <1>1, <1>4, <2>2, <2>3 DEF Underway
  <2>5. Mirrors(run, moved)'
    BY <1>2, <2>1, <2>2 DEF Mirrors, Aside, readings
  <2>6. TypeOK' /\ UndoTellsTheTruth'
    BY <1>2, <2>1, <2>3, StillTrue DEF Inv
  <2>7. landed' = {}
    BY <1>1, <1>2 DEF Aside
  <2>8. EarlyInv' /\ WorkInv' /\ JudgeInv' /\ WriteInv'
    BY <1>1, <2>1, <2>2, <2>4, <2>5, <2>7 DEF EarlyInv, WorkInv, JudgeInv, WriteInv
  <2>9. RecordInv' /\ ReportIsWhatHappened'
    BY <2>1, <2>2 DEF RecordInv, ReportIsWhatHappened, Inv
  <2>10. QED
    BY <2>6, <2>8, <2>9 DEF Inv
<1>9. CASE ~run.abort /\ run.kind # "normalize"
  <2>1. StartMap(r)
    BY <1>5, <1>9 DEF List
  <2> HIDE DEF list, readings
  <2>2. IsRun(r)
    BY <1>1, <1>3, <1>4, <1>6, FieldsOfRun DEF IsRun, Judged
  <2> HIDE DEF r
  <2>3. Underway(r)
    BY <1>1, <1>4, <1>5, <2>2 DEF Underway
  <2>4. Mirrors(r, moved')
    BY <1>5 DEF Mirrors, readings
  <2>5. QED
    BY <1>1, <1>2, <1>5, <2>1, <2>3, <2>4, StartMapKeeps
<1>10. QED
  BY <1>7, <1>8, <1>9

\* A book read, in full or not at all: the last one to be answered starts the map.
LEMMA AfterExpandKeeps ==
  ASSUME Inv, Aside, NEW r, IsRun(r), Underway(r), Mirrors(r, moved'), Judged(r) = {},
         r.phase = "expanding", r.written = {}, landed = {}, AfterExpand(r)
  PROVE  Inv'
<1>1. CASE r.unread = {}
  BY <1>1, StartMapKeeps DEF AfterExpand
<1>2. CASE r.unread # {}
  <2>1. run' = r /\ UNCHANGED <<report, revisions>>
    BY <1>2 DEF AfterExpand
  <2>2. TypeOK' /\ UndoTellsTheTruth' /\ Wrote' = Wrote
    BY <2>1, StillTrue DEF Inv
  <2>3. Mirrors(run, moved)'
    BY <2>1, <2>2 DEF Mirrors, Aside
  <2>4. EarlyInv' /\ WorkInv' /\ JudgeInv' /\ WriteInv'
    BY <2>1, <2>3 DEF EarlyInv, WorkInv, JudgeInv, WriteInv, Underway, Aside
  <2>5. RecordInv' /\ ReportIsWhatHappened'
    BY <2>1 DEF RecordInv, ReportIsWhatHappened, Inv
  <2>6. QED
    BY <2>2, <2>4, <2>5 DEF Inv
<1>3. QED
  BY <1>1, <1>2

\* What is true of a run while it reads its books in full.
LEMMA Expanding ==
  ASSUME Inv, run.phase = "expanding"
  PROVE  /\ IsRun(run) /\ Underway(run) /\ Mirrors(run, moved) /\ Judged(run) = {}
         /\ run.written = {} /\ landed = {} /\ run.kind \in Kinds
BY DEF Inv, TypeOK, EarlyInv, WorkInv

LEMMA ExpandKeeps ==
  ASSUME Inv, NEW b \in Books, Expand(b)
  PROVE  Inv'
<1> DEFINE full == [says |-> shelf[b], full |-> TRUE]
           r == [run EXCEPT !.unread = @ \ {b}, !.seen[b] = full]
<1>1. run.phase = "expanding"
  BY DEF Expand
<1>2. /\ IsRun(run) /\ Underway(run) /\ Mirrors(run, moved) /\ Judged(run) = {}
      /\ run.written = {} /\ landed = {}
  BY <1>1, Expanding
<1>3. Aside
  BY DEF Expand, Aside, Inv, TypeOK
<1>4. full \in Reading
  BY DEF Inv, TypeOK, Reading
<1>5. /\ r.phase = "expanding" /\ r.kind = run.kind /\ r.items = run.items
      /\ Judged(r) = {} /\ r.written = {} /\ r.seen = [run.seen EXCEPT ![b] = full]
  BY <1>1, <1>2, FieldsOfRun DEF Judged
<1>6. AfterExpand(r) /\ moved' = {m \in moved : m[1] # b}
  BY DEF Expand
<1> HIDE DEF full
<1>7. IsRun(r)
  BY <1>2, <1>4, FieldsOfRun DEF IsRun
<1> HIDE DEF r
<1>8. Underway(r)
  BY <1>2, <1>5, <1>7 DEF Underway
<1>9. Mirrors(r, moved')
  <2>1. run.seen \in [Books -> Reading]
    BY <1>2 DEF IsRun
  <2>2. SUFFICES ASSUME NEW c \in Books \ Wrote, NEW s \in Parts
                 PROVE  <<c, s>> \in moved' \/ shelf[c][s] = r.seen[c].says[s]
    BY DEF Mirrors
  <2>3. CASE c = b
    BY <1>5, <2>1, <2>3 DEF full
  <2>4. CASE c # b
    BY <1>2, <1>5, <1>6, <2>1, <2>4 DEF Mirrors
  <2>5. QED
    BY <2>3, <2>4
<1>10. QED
  BY <1>2, <1>3, <1>5, <1>6, <1>7, <1>8, <1>9, AfterExpandKeeps

LEMMA ExpandFailsKeeps ==
  ASSUME Inv, NEW b \in Books, ExpandFails(b)
  PROVE  Inv'
<1> DEFINE r == [run EXCEPT !.unread = @ \ {b}]
<1>1. run.phase = "expanding"
  BY DEF ExpandFails
<1>2. /\ IsRun(run) /\ Underway(run) /\ Mirrors(run, moved) /\ Judged(run) = {}
      /\ run.written = {} /\ landed = {}
  BY <1>1, Expanding
<1>3. Aside /\ moved' = moved
  BY SweepAssumption DEF ExpandFails, Aside, Inv, TypeOK, Upset
<1>4. Alike(r, run) /\ r.phase = "expanding" /\ r.written = {}
  BY <1>1, <1>2, FieldsOfRun DEF Alike
<1>5. AfterExpand(r)
  BY DEF ExpandFails
<1>6. IsRun(r)
  BY <1>2, FieldsOfRun DEF IsRun
<1> HIDE DEF r
<1>7. Underway(r) /\ Mirrors(r, moved') /\ Judged(r) = {}
  BY <1>2, <1>3, <1>4, <1>6, AlikeMirror, AlikeJudgeAlike
<1>8. QED
  BY <1>2, <1>3, <1>4, <1>5, <1>6, <1>7, AfterExpandKeeps

LEMMA ExpandAbortedKeeps ==
  ASSUME Inv, ExpandAborted
  PROVE  Inv'
<1>1. Aside
  BY DEF ExpandAborted, Aside, Inv, TypeOK
<1>2. run.kind \in Kinds
  BY Expanding DEF ExpandAborted
<1>3. QED
  BY <1>1, <1>2, ThrowKeeps DEF ExpandAborted, Throw

\* What is true of a run while its workers judge.
LEMMA Judging ==
  ASSUME Inv, run.phase = "judging"
  PROVE  /\ IsRun(run) /\ Mapping(run, moved)
         /\ \A i \in run.busy : i \in DOMAIN run.items /\ run.items[i] \in Books
<1>1. IsRun(run) /\ Mapping(run, moved)
  BY DEF Inv, TypeOK, EarlyInv, WorkInv, JudgeInv, Mapping
<1>2. QED
  BY <1>1 DEF IsRun

LEMMA JudgeKeeps ==
  ASSUME Inv, NEW i \in run.busy, Judge(i)
  PROVE  Inv'
<1> DEFINE b == run.items[i]
<1>1. run.phase = "judging"
  BY DEF Judge
<1>2. IsRun(run) /\ Mapping(run, moved) /\ i \in DOMAIN run.items /\ b \in Books
  BY <1>1, Judging
<1>3. Underway(run) /\ run.kind \in Kinds
  BY <1>2 DEF Mapping, Underway
<1>4. PICK v \in Verdicts(run, b) :
        Claim([run EXCEPT !.busy = @ \ {i}, !.verdicts = Noted(@, b, v)], 1)
  BY DEF Judge
<1>5. IsPatch(v)
  BY <1>2, <1>3, VerdictsArePatches
<1>6. Aside /\ moved' = moved
  BY DEF Judge, Aside, Inv, TypeOK
<1> DEFINE noted == Noted(run.verdicts, b, v)
           r == [run EXCEPT !.busy = @ \ {i}, !.verdicts = noted]
<1>7. Claim(r, 1)
  BY <1>4
<1>8. /\ DOMAIN noted = {b} \cup Judged(run) /\ noted[b] = v
      /\ \A c \in Judged(run) \ {b} : noted[c] = run.verdicts[c]
  BY DEF Noted, Judged
<1> HIDE DEF noted
<1>9. /\ r.phase = "judging" /\ r.kind = run.kind /\ r.force = run.force
      /\ r.seen = run.seen /\ r.items = run.items /\ r.open = run.open
      /\ r.busy = run.busy \ {i} /\ Judged(r) = {b} \cup Judged(run) /\ r.verdicts = noted
      /\ r.written = run.written /\ r.stopped = run.stopped
  BY <1>1, <1>2, <1>8, FieldsOfRun DEF Judged
<1>10. IsRun(r)
  <2>1. DOMAIN noted \subseteq Books /\ \A c \in DOMAIN noted : IsPatch(noted[c])
    BY <1>2, <1>5, <1>8 DEF IsRun, Judged
  <2>2. QED
    BY <1>2, <2>1, FieldsOfRun DEF IsRun
<1> HIDE DEF r
<1>11. Underway(r)
  <2>1. \A c : Verdicts(r, c) = Verdicts(run, c)
    BY <1>9 DEF Verdicts
  <2>2. ASSUME NEW c \in Judged(r) PROVE r.verdicts[c] \in Verdicts(r, c)
    BY <1>3, <1>8, <1>9, <2>1 DEF Underway
  <2>3. QED
    BY <1>3, <1>9, <1>10, <2>2 DEF Underway
<1>12. Mirrors(r, moved') /\ r.written = {} /\ landed = {}
  BY <1>2, <1>6, <1>9 DEF Mapping, Mirrors
<1>13. ~r.stopped => Reached(r)
  <2>1. PassedOver(r) = PassedOver(run)
    BY <1>9 DEF PassedOver
  <2> HIDE DEF b
  <2>2. b = run.items[i]
    BY DEF b
  <2>3. QED
    BY <1>2, <1>9, <2>1, <2>2 DEF Mapping, Reached
<1>14. Mapping(r, moved')
  BY <1>11, <1>12, <1>13 DEF Mapping
<1>15. QED
  BY <1>6, <1>7, <1>14, ClaimKeeps

LEMMA JudgeAbortedKeeps ==
  ASSUME Inv, NEW i \in run.busy, JudgeAborted(i)
  PROVE  Inv'
<1> DEFINE r == [run EXCEPT !.busy = @ \ {i}, !.stopped = TRUE]
<1>1. run.phase = "judging" /\ JoinOr(r)
  BY DEF JudgeAborted
<1>2. IsRun(run) /\ Mapping(run, moved)
  BY <1>1, Judging
<1>3. Aside /\ moved' = moved
  BY DEF JudgeAborted, Aside, Inv, TypeOK
<1>4. Alike(r, run) /\ r.phase = "judging" /\ r.written = run.written /\ r.stopped = TRUE
  BY <1>1, <1>2, FieldsOfRun DEF Alike
<1>5. IsRun(r)
  BY <1>2, FieldsOfRun DEF IsRun
<1> HIDE DEF r
<1>6. Mapping(r, moved')
  BY <1>2, <1>3, <1>4, <1>5, AlikeMirror DEF Mapping
<1>7. QED
  BY <1>1, <1>3, <1>4, <1>6, JoinKeeps

\* What is true of a run while it writes: the next book is due, is not written,
\* and has its own place.
LEMMA Writing ==
  ASSUME Inv, run.phase \in {"sending", "sent"}
  PROVE  /\ IsRun(run) /\ Underway(run) /\ run.kind \in Kinds
         /\ Turn(run) \in run.todo /\ Turn(run) \in DOMAIN run.items
         /\ Target(run) \in Judged(run) \ run.written /\ Target(run) \in Books
         /\ run.phase = "sending" => Target(run) \notin Wrote
<1>1. IsRun(run) /\ Underway(run) /\ WriteInv /\ run.kind \in Kinds
  BY DEF Inv, TypeOK, WorkInv, Underway
<1>2. run.todo \subseteq DOMAIN run.items /\ DOMAIN run.items \subseteq Nat /\ run.todo # {}
  BY <1>1 DEF IsRun, WriteInv
<1>3. Turn(run) \in run.todo
  BY <1>2, MinIsLeast DEF Turn
<1>4. Target(run) \in Judged(run) \ run.written
  BY <1>1, <1>2, <1>3 DEF WriteInv, LeftToWrite, IsDue, Target
<1>5. Target(run) \in Books
  BY <1>1, <1>4 DEF IsRun, Judged
<1>6. QED
  BY <1>1, <1>2, <1>3, <1>4, <1>5 DEF WriteInv

\* The request reaches the server: what it replaces is what its record says, in
\* every part nobody else has changed.
LEMMA LandKeeps ==
  ASSUME Inv, Land
  PROVE  Inv'
<1> DEFINE b == Target(run)
           patch == Writable(run, b)
           says == [s \in Parts |-> IF s \in DOMAIN patch THEN patch[s] ELSE shelf[b][s]]
           l == [book |-> b, was |-> shelf[b],
                 stale |-> {s \in Parts : <<b, s>> \in moved}, full |-> run.seen[b].full]
           p == [run EXCEPT !.phase = "sent"]
<1>1. run.phase = "sending"
  BY DEF Land
<1>2. /\ IsRun(run) /\ Underway(run) /\ run.kind \in Kinds
      /\ b \in Judged(run) \ run.written /\ b \in Books /\ b \notin Wrote
  BY <1>1, Writing
<1>3. /\ landed' = landed \cup {l} /\ run' = p
      /\ UNCHANGED <<allow, report, revisions, moved, upsets>>
  BY DEF Land
<1>4. shelf' = [shelf EXCEPT ![b] = says]
  BY DEF Land
<1>5. IsPatch(patch)
  BY <1>2, PatchesAreSound
<1> HIDE DEF patch
<1>6. says \in Item
  <2>1. shelf[b] \in Item
    BY <1>2 DEF Inv, TypeOK
  <2>2. shelf[b]["tags"] \subseteq Values["tags"] /\ shelf[b]["blurb"] \subseteq Values["blurb"]
        /\ shelf[b]["names"] \subseteq Values["names"]
    BY <2>1 DEF Item
  <2>3. \A s \in Parts : says[s] \subseteq Values[s]
    BY <1>5, <2>2 DEF IsPatch, Parts
  <2> USE DEF says
  <2>4. DOMAIN says = Parts /\ says = [s \in Parts |-> says[s]]
    OBVIOUS
  <2> HIDE DEF says
  <2>5. QED
    BY <2>3, <2>4 DEF Item, Parts
<1>7. l \in Landing
  BY <1>2 DEF Inv, TypeOK, Landing, IsRun, Reading
<1>8. /\ Alike(p, run) /\ p.phase = "sent" /\ p.todo = run.todo /\ p.written = run.written
      /\ p.stopped = run.stopped /\ p.real = run.real
  BY <1>2, FieldsOfRun DEF Alike
<1>9. IsRun(p)
  BY <1>2, FieldsOfRun DEF IsRun
<1> HIDE DEF says, p
<1>10. TypeOK'
  BY <1>3, <1>4, <1>6, <1>7, <1>9 DEF Inv, TypeOK
<1>11. Wrote' = Wrote \cup {b}
  <2>1. l.book = b
    OBVIOUS
  <2> HIDE DEF l, b
  <2>2. QED
    BY <1>3, <2>1 DEF Wrote
<1>12. UndoTellsTheTruth'
  <2> DEFINE k == Len(revisions)
  <2>1. /\ k \in DOMAIN revisions /\ revisions[k].book = b
        /\ revisions[k].before = InversePatch(run.seen[b], patch)
    BY <1>1 DEF Inv, RecordInv, patch
  <2>2. ASSUME NEW s \in DOMAIN revisions[k].before
        PROVE  \/ s \in l.stale
               \/ s = "names" /\ ~l.full
               \/ revisions[k].before[s] = l.was[s]
    <3>1. s \in DOMAIN patch /\ s \in Parts
      BY <1>5, <2>1, <2>2 DEF InversePatch, IsPatch
    <3>2. <<b, s>> \in moved \/ shelf[b][s] = run.seen[b].says[s]
      BY <1>1, <1>2, <3>1 DEF Inv, WorkInv, Mirrors
    <3>3. run.seen[b].full \in BOOLEAN
      BY <1>2 DEF IsRun, Reading
    <3>4. CASE <<b, s>> \in moved
      BY <3>1, <3>4
    <3>5. CASE s = "names" /\ ~run.seen[b].full
      BY <3>5
    <3>6. CASE shelf[b][s] = run.seen[b].says[s] /\ ~ (s = "names" /\ ~run.seen[b].full)
      BY <2>1, <3>1, <3>6 DEF InversePatch
    <3>7. QED
      BY <3>2, <3>4, <3>5, <3>6
  <2> HIDE DEF l, k
  <2>3. l.book = b
    BY DEF l
  <2>4. QED
    BY <1>3, <2>1, <2>2, <2>3 DEF Inv, UndoTellsTheTruth
<1>13. WorkInv'
  <2>1. Underway(p)
    BY <1>2, <1>8, <1>9, AlikeMirror
  <2>2. Mirrors(run, moved)'
    <3>1. ASSUME NEW c \in Books \ Wrote', NEW s \in Parts
          PROVE  <<c, s>> \in moved' \/ shelf'[c][s] = run'.seen[c].says[s]
      <4>1. c # b /\ c \in Books \ Wrote
        BY <1>11
      <4>2. shelf'[c] = shelf[c]
        BY <1>4, <4>1 DEF Inv, TypeOK
      <4>3. QED
        BY <1>1, <1>3, <1>8, <4>1, <4>2 DEF Inv, WorkInv, Mirrors, Alike
    <3>2. QED
      BY <3>1 DEF Mirrors
  <2>3. QED
    BY <1>3, <2>1, <2>2 DEF WorkInv
<1>14. WriteInv'
  <2>1. WriteInv
    BY DEF Inv
  <2>2. LeftToWrite(p)
    BY <1>1, <1>8, <2>1, AlikeJudgeAlike DEF WriteInv, LeftToWrite, Alike
  <2>3. Judged(p) = Judged(run) /\ Target(p) = b /\ (Accounted(run) => Accounted(p))
    BY <1>8, <1>9, AlikeJudgeAlike, AlikeMirror
  <2>4. Wrote = run.written
    BY <1>1, <2>1 DEF WriteInv
  <2>5. Wrote' = p.written \cup {Target(p)}
    BY <1>8, <1>11, <2>3, <2>4
  <2>6. QED
    BY <1>1, <1>3, <1>8, <2>1, <2>2, <2>3, <2>5 DEF WriteInv
<1>15. EarlyInv' /\ JudgeInv' /\ ReportIsWhatHappened'
  BY <1>2, <1>3, <1>8 DEF EarlyInv, JudgeInv, ReportIsWhatHappened, Alike
<1>16. RecordInv'
  BY <1>3, <1>8 DEF Inv, RecordInv
<1>17. QED
  BY <1>10, <1>12, <1>13, <1>14, <1>15, <1>16 DEF Inv

LEMMA AnsweredKeeps ==
  ASSUME Inv, Answered
  PROVE  Inv'
<1> DEFINE b == Target(run)
           t == Turn(run)
           r == [run EXCEPT !.todo = @ \ {t}, !.written = @ \cup {b}]
<1>1. run.phase = "sent" /\ Continue(r)
  BY DEF Answered
<1>2. /\ IsRun(run) /\ Underway(run) /\ t \in run.todo /\ t \in DOMAIN run.items
      /\ b \in Judged(run) \ run.written /\ b \in Books /\ b = run.items[t]
  BY <1>1, Writing DEF Target
<1>3. Aside /\ moved' = moved
  BY DEF Answered, Aside, Inv, TypeOK
<1> HIDE DEF b, t
<1>4. /\ Alike(r, run) /\ r.todo = run.todo \ {t} /\ r.written = run.written \cup {b}
      /\ r.real = run.real /\ r.stopped = run.stopped
  BY <1>2, FieldsOfRun DEF Alike
<1>5. IsRun(r)
  BY <1>2, FieldsOfRun DEF IsRun
<1> HIDE DEF r
<1>6. WriteInv /\ Mirrors(run, moved)
  BY <1>1 DEF Inv, WorkInv
<1>7. LeftToWrite(r)
  <2>1. \A i \in DOMAIN run.items : run.items[i] = b <=> i = t
    BY <1>2 DEF Underway
  <2>2. LeftToWrite(run)
    BY <1>1, <1>6 DEF WriteInv
  <2>3. QED
    BY <1>4, <2>1, <2>2, AlikeJudgeAlike DEF LeftToWrite, Alike
<1>8. Underway(r) /\ Mirrors(r, moved') /\ Judged(r) = Judged(run)
      /\ (Accounted(run) => Accounted(r))
  BY <1>2, <1>3, <1>4, <1>5, <1>6, AlikeMirror, AlikeJudgeAlike
<1>9. r.written \subseteq Judged(r) /\ Wrote = r.written
  BY <1>1, <1>2, <1>4, <1>6, <1>8 DEF WriteInv, b
<1>10. Continuing(r, moved')
  BY <1>1, <1>4, <1>6, <1>7, <1>8, <1>9 DEF Continuing, WriteInv
<1>11. QED
  BY <1>1, <1>3, <1>10, ContinueKeeps

--------------------------------------------------------------------------------
LEMMA RequestFailsKeeps ==
  ASSUME Inv, RequestFails
  PROVE  Inv'
<1>1. Aside
  BY SweepAssumption DEF RequestFails, Aside, Inv, TypeOK, Upset
<1>2. run.kind \in Kinds
  BY DEF RequestFails, Inv, EarlyInv
<1>3. QED
  BY <1>1, <1>2, ThrowKeeps DEF RequestFails, Throw

LEMMA CrashKeeps ==
  ASSUME Inv, Crash
  PROVE  Inv'
<1>1. Aside
  BY SweepAssumption DEF Crash, Aside, Inv, TypeOK, Upset
<1>2. run.kind \in Kinds
  BY DEF Crash, Ended, Inv, EarlyInv
<1>3. QED
  BY <1>1, <1>2, ThrowKeeps DEF Crash

LEMMA StopKeeps ==
  ASSUME Inv, Stop
  PROVE  Inv'
<1> DEFINE p == [run EXCEPT !.abort = TRUE]
<1>1. IsRun(run) /\ run' = p
      /\ UNCHANGED <<shelf, allow, report, revisions, moved, landed, upsets>>
  BY DEF Stop, Inv, TypeOK
<1>2. Aside
  BY <1>1 DEF Aside, Inv, TypeOK
<1>3. /\ Alike(p, run) /\ p.phase = run.phase /\ p.todo = run.todo
      /\ p.written = run.written /\ p.stopped = run.stopped /\ p.real = run.real
      /\ p.open = run.open /\ p.busy = run.busy
  BY <1>1, FieldsOfRun DEF Alike
<1>4. IsRun(p)
  BY <1>1, FieldsOfRun DEF IsRun
<1> HIDE DEF p
<1>5. TypeOK' /\ UndoTellsTheTruth' /\ Wrote' = Wrote
  BY <1>1, <1>2, <1>4, StillTrue DEF Inv
<1>6. WorkInv'
  <2>1. Underway(run) => Underway(p)
    BY <1>3, <1>4, AlikeMirror
  <2>2. Mirrors(run, moved) => Mirrors(run, moved)'
    <3>1. run'.seen = run.seen /\ shelf' = shelf /\ moved' = moved
      BY <1>1, <1>3 DEF Alike
    <3>2. QED
      BY <1>5, <3>1 DEF Mirrors
  <2>3. QED
    BY <1>1, <1>3, <2>1, <2>2 DEF Inv, WorkInv
<1>7. EarlyInv'
  BY <1>1, <1>3, AlikeJudgeAlike DEF Inv, EarlyInv, Alike
<1>8. JudgeInv'
  BY <1>1, <1>3, AlikeJudgeAlike DEF Inv, JudgeInv, Reached, Alike
<1>9. WriteInv'
  <2>1. LeftToWrite(run) => LeftToWrite(p)
    BY <1>3, AlikeJudgeAlike DEF LeftToWrite, Alike
  <2>2. Judged(p) = Judged(run) /\ Target(p) = Target(run)
        /\ (Accounted(run) => Accounted(p))
    BY <1>3, <1>4, AlikeJudgeAlike, AlikeMirror
  <2>3. QED
    BY <1>1, <1>3, <1>5, <2>1, <2>2 DEF Inv, WriteInv
<1>10. RecordInv'
  BY <1>1, <1>3, AlikeJudgeAlike DEF Inv, RecordInv, Alike
<1>11. ReportIsWhatHappened'
  BY <1>1, <1>3 DEF Stop, Ended, ReportIsWhatHappened
<1>12. QED
  BY <1>5, <1>6, <1>7, <1>8, <1>9, <1>10, <1>11 DEF Inv

\* Other hands: what they change is no longer what the run read, and is known
\* to have moved.
LEMMA EditKeeps ==
  ASSUME Inv, NEW b \in Books, NEW s \in Parts, Edit(b, s)
  PROVE  Inv'
<1>1. PICK v \in Values[s] : shelf' = [shelf EXCEPT ![b][s] =
        IF v \in @ THEN @ \ {v} ELSE IF s = "blurb" THEN {v} ELSE @ \cup {v}]
  BY DEF Edit
<1>2. moved' = moved \cup {<<b, s>>} /\ upsets' \in 0 .. MaxUpsets
      /\ UNCHANGED <<allow, run, report, revisions, landed>>
  BY SweepAssumption DEF Edit, Upset, Inv, TypeOK
<1>3. shelf \in [Books -> Item]
  BY DEF Inv, TypeOK
<1> DEFINE new == IF v \in shelf[b][s] THEN shelf[b][s] \ {v}
                  ELSE IF s = "blurb" THEN {v} ELSE shelf[b][s] \cup {v}
<1>4. shelf' = [shelf EXCEPT ![b] = [shelf[b] EXCEPT ![s] = new]]
  BY <1>1
<1>5. shelf[b][s] \subseteq Values[s] /\ s \in {"tags", "blurb", "names"}
  BY <1>3 DEF Item, Parts
<1>6. new \subseteq Values[s]
  BY <1>5
<1> HIDE DEF new
<1>7. [shelf[b] EXCEPT ![s] = new] \in Item
  BY <1>3, <1>5, <1>6 DEF Item
<1>8. shelf' \in [Books -> Item]
  BY <1>3, <1>4, <1>7
<1>9. \A c \in Books, t \in Parts : <<c, t>> # <<b, s>> => shelf'[c][t] = shelf[c][t]
  BY <1>3, <1>4 DEF Item, Parts
<1>10. TypeOK'
  BY <1>2, <1>8 DEF Inv, TypeOK
<1>11. Mirrors(run, moved) => Mirrors(run, moved)'
  BY <1>2, <1>9 DEF Mirrors, Wrote
<1>12. WorkInv'
  BY <1>2, <1>11 DEF Inv, WorkInv
<1>13. Wrote' = Wrote
  BY <1>2 DEF Wrote
<1>14. EarlyInv' /\ JudgeInv' /\ WriteInv' /\ RecordInv'
  BY <1>2, <1>13 DEF Inv, EarlyInv, JudgeInv, WriteInv, RecordInv
<1>15. UndoTellsTheTruth' /\ ReportIsWhatHappened'
  BY <1>2 DEF Inv, UndoTellsTheTruth, ReportIsWhatHappened
<1>16. QED
  BY <1>10, <1>12, <1>14, <1>15 DEF Inv

\* A step that leaves the run and the books alone.
LEMMA StandingStillKeeps ==
  ASSUME Inv, UNCHANGED <<shelf, run, report, revisions, moved, landed>>,
         allow' \in BOOLEAN, upsets' \in 0 .. MaxUpsets
  PROVE  Inv'
<1>1. TypeOK' /\ Wrote' = Wrote
  BY DEF Inv, TypeOK, Wrote
<1>2. Mirrors(run, moved)' = Mirrors(run, moved)
  BY <1>1 DEF Mirrors
<1>3. EarlyInv' /\ WorkInv' /\ JudgeInv' /\ WriteInv' /\ RecordInv'
  BY <1>1, <1>2 DEF Inv, EarlyInv, WorkInv, JudgeInv, WriteInv, RecordInv
<1>4. UndoTellsTheTruth' /\ ReportIsWhatHappened'
  BY DEF Inv, UndoTellsTheTruth, ReportIsWhatHappened
<1>5. QED
  BY <1>1, <1>3, <1>4 DEF Inv

LEMMA NextKeeps ==
  ASSUME Inv, [Next]_vars
  PROVE  Inv'
<1>1. CASE UNCHANGED vars
  BY <1>1, StandingStillKeeps DEF vars, Inv, TypeOK
<1>2. CASE FlipSwitch
  BY <1>2, StandingStillKeeps, SweepAssumption DEF FlipSwitch, Upset, Inv, TypeOK
<1>3. CASE Step
  BY <1>3, ListKeeps, ExpandKeeps, ExpandAbortedKeeps, JudgeKeeps, JudgeAbortedKeeps,
     LandKeeps, AnsweredKeeps DEF Step
<1>4. QED
  BY <1>1, <1>2, <1>3, StartKeeps, ExpandFailsKeeps, RequestFailsKeeps, CrashKeeps,
     StopKeeps, EditKeeps DEF Next

LEMMA Invariance == Spec => []Inv
BY InitKeeps, NextKeeps, PTL DEF Spec

--------------------------------------------------------------------------------
(***************************************************************************)
(* The theorems.                                                           *)
(***************************************************************************)
\* Types: what is read, judged, written, recorded and reported keeps its shape,
\* and the places of the listing that are claimed or due are places of it.
THEOREM TypeCorrect == Spec => []TypeOK
<1>1. Inv => TypeOK
  BY DEF Inv
<1>2. QED
  BY <1>1, Invariance, PTL

\* applyPatch records the undo first: whatever is crashed, stopped, refused or
\* edited, each write that reached the server can be put back as it was, but for
\* what other hands changed since the reading and author lists not read in full.
THEOREM UndoTellsTheTruthHolds == Spec => []UndoTellsTheTruth
<1>1. Inv => UndoTellsTheTruth
  BY DEF Inv
<1>2. QED
  BY <1>1, Invariance, PTL

\* reportItems: a run that returned accounts for every book of the library.
THEOREM ReportIsWhatHappenedHolds == Spec => []ReportIsWhatHappened
<1>1. Inv => ReportIsWhatHappened
  BY DEF Inv
<1>2. QED
  BY <1>1, Invariance, PTL

\* What a write takes from a part nobody moved, the command was let take.
LEMMA LandTakes ==
  ASSUME Inv, Land, NEW s \in Parts
  PROVE  \/ <<Target(run), s>> \in moved
         \/ CASE run.kind = "rate" -> Lost(Target(run), s) \subseteq Butler
              [] run.kind = "metadata" -> run.force \/ Lost(Target(run), s) = {}
              [] run.kind = "normalize" ->
                   \/ run.mayReplace
                   \/ Lost(Target(run), s) = {}
                   \/ s = "names" /\ ~run.seen[Target(run)].full
<1> DEFINE b == Target(run)
           reading == run.seen[b]
           v == run.verdicts[b]
           patch == Writable(run, b)
<1> SUFFICES ASSUME <<b, s>> \notin moved
             PROVE  CASE run.kind = "rate" -> Lost(b, s) \subseteq Butler
                      [] run.kind = "metadata" -> run.force \/ Lost(b, s) = {}
                      [] run.kind = "normalize" ->
                           \/ run.mayReplace
                           \/ Lost(b, s) = {}
                           \/ s = "names" /\ ~reading.full
  OBVIOUS
<1>1. run.phase = "sending"
  BY DEF Land
<1>2. /\ IsRun(run) /\ Underway(run) /\ run.kind \in Kinds
      /\ b \in Judged(run) /\ b \in Books /\ b \notin Wrote
  BY <1>1, Writing
<1>3. shelf[b][s] = reading.says[s]
  BY <1>1, <1>2 DEF Inv, WorkInv, Mirrors
<1>4. shelf'[b][s] = IF s \in DOMAIN patch THEN patch[s] ELSE shelf[b][s]
  BY <1>2 DEF Land, Inv, TypeOK
<1>5. Lost(b, s) = IF s \in DOMAIN patch THEN reading.says[s] \ patch[s] ELSE {}
  BY <1>3, <1>4 DEF Lost
<1>6. v \in Verdicts(run, b)
  BY <1>2 DEF Underway
<1>7. run.kind \in {"rate", "metadata", "normalize"}
  BY <1>2, SweepAssumption
<1>8. patch = v \/ patch = [t \in {t \in DOMAIN v : Additive(reading, t)} |-> v[t]]
  BY DEF Writable
<1>9. run.kind # "normalize" \/ run.mayReplace => patch = v
  BY DEF Writable
<1>10. run.kind = "normalize" /\ ~run.mayReplace /\ s \in DOMAIN patch =>
         Additive(reading, s) /\ s \in DOMAIN v /\ patch[s] = v[s]
  BY DEF Writable
<1> HIDE DEF b, reading, v, patch
<1> USE DEF reading
<1>11. CASE run.kind = "rate"
  <2>1. PICK w \in RateVerdicts(reading) : v = Proposed(reading, w)
    BY <1>6, <1>11 DEF Verdicts
  <2>2. PICK generated \in SUBSET Butler :
          w = [t \in {"tags"} |-> (reading.says["tags"] \ Butler) \cup generated]
    BY DEF RateVerdicts
  <2>3. s \in DOMAIN v => s = "tags" /\ v[s] = (reading.says["tags"] \ Butler) \cup generated
    BY <2>1, <2>2 DEF Proposed
  <2>4. QED
    BY <1>5, <1>9, <1>11, <2>3
<1>12. CASE run.kind = "metadata"
  <2>1. PICK w \in MetadataVerdicts(reading, run.force) : v = Proposed(reading, w)
    BY <1>6, <1>12 DEF Verdicts
  <2>2. CASE run.force
    BY <1>12, <2>2
  <2>3. CASE ~run.force
    <3>1. s \in DOMAIN v => s = "blurb" /\ reading.says["blurb"] = {}
      BY <2>1, <2>3 DEF Proposed, MetadataVerdicts, Nothing
    <3>2. QED
      BY <1>5, <1>9, <1>12, <3>1
  <2>4. QED
    BY <2>2, <2>3
<1>13. CASE run.kind = "normalize"
  <2>1. PICK w \in NormalizeVerdicts(reading) : v = Proposed(reading, w)
    BY <1>6, <1>13 DEF Verdicts
  <2>2. PICK parts \in SUBSET {"names", "tags"}, people \in SUBSET Values["names"] :
          w = [t \in parts |-> IF t = "names" THEN people
                               ELSE reading.says["tags"] \cup {Work}]
    BY DEF NormalizeVerdicts
  <2>3. s \in DOMAIN v => s \in {"names", "tags"} /\ v[s] = w[s] /\ s \in parts
    BY <2>1, <2>2 DEF Proposed
  <2>4. CASE run.mayReplace \/ s \notin DOMAIN patch
    BY <1>5, <1>13, <2>4
  <2>5. CASE ~run.mayReplace /\ s \in DOMAIN patch
    <3>1. Additive(reading, s) /\ patch[s] = w[s] /\ s \in parts /\ s \in {"names", "tags"}
      BY <1>10, <1>13, <2>3, <2>5
    <3>2. CASE s = "tags"
      BY <1>5, <1>13, <2>2, <3>1, <3>2
    <3>3. CASE s = "names"
      <4>1. Current(reading, s) = {}
        BY <3>1, <3>3 DEF Additive
      <4>2. ~reading.full \/ reading.says[s] = {}
        BY <4>1 DEF Current
      <4>3. QED
        BY <1>5, <1>13, <3>3, <4>2
    <3>4. QED
      BY <3>1, <3>2, <3>3
  <2>6. QED
    BY <2>4, <2>5
<1>14. QED
  BY <1>7, <1>11, <1>12, <1>13

\* rate, metadata and normalize: no write takes away what the command may not,
\* unless it came after the reading.
THEOREM TakesOnlyWhatCameLaterHolds == Spec => TakesOnlyWhatCameLater
<1> DEFINE A == Land =>
       LET r == run  b == Target(r) IN
       \A s \in Parts :
         \/ <<b, s>> \in moved
         \/ CASE r.kind = "rate" -> Lost(b, s) \subseteq Butler
              [] r.kind = "metadata" -> r.force \/ Lost(b, s) = {}
              [] r.kind = "normalize" ->
                   \/ r.mayReplace
                   \/ Lost(b, s) = {}
                   \/ s = "names" /\ ~r.seen[b].full
<1>1. Inv => A
  BY LandTakes
<1>2. TakesOnlyWhatCameLater <=> [][A]_vars
  BY DEF TakesOnlyWhatCameLater
<1> HIDE DEF A
<1>3. QED
  BY <1>1, <1>2, Invariance, PTL

================================================================================

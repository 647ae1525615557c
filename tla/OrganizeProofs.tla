----------------------------- MODULE OrganizeProofs ------------------------------
(***************************************************************************)
(* Proofs, for any books, folders, mounts and templates, any faults and    *)
(* files of other hands: a run of Organize that returns has told           *)
(* AudiobookShelf of every move it made; the disk is sound at every step;  *)
(* and the report of a run is what happened to the disk.                   *)
(***************************************************************************)
EXTENDS Organize, SequenceTheorems, FiniteSetTheorems, TLAPS

Fields == {"phase", "kind", "single", "noScan", "abort", "todo", "plans", "rows", "due",
           "copied", "dir", "depth", "touched"}
IsRun(r) == DOMAIN r = Fields /\ DOMAIN r.rows = Books

\* A book moved, its library not asked yet to scan.
Owed(r, b, moved) == b \in moved /\ r.rows[b] = "moved"

\* What the loop has moved it remembers the library of, up to the scan of it;
\* at the end nothing is owed, unless the run was told not to scan.
RunInv ==
  /\ IsRun(run)
  /\ run.phase \in Working => \A b \in Books : Owed(run, b, untold) => Library[b] \in run.touched
  /\ run.phase = "scanning" => ~run.noScan
  /\ run.phase = "returned" /\ ~run.noScan => \A b \in Books : ~Owed(run, b, untold)

LEMMA IdleRun == IsRun(Idle) /\ Idle.phase = "idle"
BY DEF IsRun, Idle, Fields, NoRows

LEMMA InitRun == Init => RunInv
<1>1. Init => run = Idle
  BY DEF Init
<1>2. QED
  BY <1>1, IdleRun DEF RunInv, Working

--------------------------------------------------------------------------------
\* A run that begins has moved nothing.
LEMMA ListedRun ==
  ASSUME NEW r, IsRun(r), NEW unread
  PROVE  /\ IsRun(Listed(r, unread))
         /\ Listed(r, unread).phase = r.phase
         /\ \A b \in Books : Listed(r, unread).rows[b] # "moved"
<1> DEFINE l == Listed(r, unread)
<1>1. DOMAIN l = DOMAIN r /\ l.phase = r.phase
  BY DEF Listed, IsRun, Fields
<1>2. l.rows = [b \in Books |-> CodeOf(r, b, Layout[b \notin unread][b], server[b])]
  BY DEF Listed, IsRun, Fields
<1>3. \A b \in Books : CodeOf(r, b, Layout[b \notin unread][b], server[b]) # "moved"
  BY DEF CodeOf
<1>4. QED
  BY <1>1, <1>2, <1>3 DEF IsRun

LEMMA StartRun ==
  ASSUME NEW kind, Start(kind) PROVE RunInv'
<1>1. PICK single \in BOOLEAN, noScan \in BOOLEAN, unread \in SUBSET Books :
        LET r == [Idle EXCEPT !.kind = kind, !.single = single, !.noScan = noScan, !.phase = "next"] IN
        run' = IF kind = "apply" THEN [r EXCEPT !.plans = kept, !.todo = SetToSeq(DOMAIN kept)]
               ELSE Listed(r, unread)
  BY DEF Start
<1> DEFINE r == [Idle EXCEPT !.kind = kind, !.single = single, !.noScan = noScan, !.phase = "next"]
<1>2. IsRun(r) /\ r.phase = "next" /\ \A b \in Books : r.rows[b] # "moved"
  BY IdleRun DEF IsRun, Idle, Fields, NoRows
<1> HIDE DEF r
<1>3. CASE kind = "apply"
  <2>1. run' = [r EXCEPT !.plans = kept, !.todo = SetToSeq(DOMAIN kept)]
    BY <1>1, <1>3 DEF r
  <2>2. DOMAIN run' = Fields /\ run'.phase = "next" /\ run'.rows = r.rows
    BY <1>2, <2>1 DEF IsRun, Fields
  <2>3. QED
    BY <1>2, <2>2 DEF RunInv, IsRun, Owed
<1>4. CASE kind # "apply"
  <2>1. run' = Listed(r, unread)
    BY <1>1, <1>4 DEF r
  <2>2. IsRun(run)' /\ run'.phase = "next" /\ \A b \in Books : run'.rows[b] # "moved"
    BY <1>2, <2>1, ListedRun DEF IsRun
  <2>3. QED
    BY <2>2 DEF RunInv, Owed
<1>5. QED
  BY <1>3, <1>4

--------------------------------------------------------------------------------
(***************************************************************************)
(* The steps of a run.                                                     *)
(***************************************************************************)
\* A step that moves nothing and asks for no scan.
LEMMA GoesOn ==
  ASSUME RunInv, UNCHANGED untold, IsRun(run)', run'.rows = run.rows, run'.noScan = run.noScan,
         run'.touched = run.touched,
         \/ run'.phase = run.phase
         \/ run.phase \in Working /\ run'.phase \in Working \ {"scanning"}
         \/ run'.phase = "threw"
  PROVE  RunInv'
BY DEF RunInv, Owed, Working

\* Past the loop.
LEMMA EndRun ==
  ASSUME NEW r, IsRun(r), \A b \in Books : Owed(r, b, untold) => Library[b] \in r.touched,
         End(r), UNCHANGED untold
  PROVE  RunInv'
<1>1. CASE r.touched = {} \/ r.noScan
  <2>1. run' = [r EXCEPT !.phase = "returned", !.todo = <<>>]
    BY <1>1 DEF End, Finish
  <2>2. /\ DOMAIN run' = Fields /\ run'.rows = r.rows /\ run'.noScan = r.noScan
        /\ run'.phase = "returned"
    BY <2>1 DEF IsRun, Fields
  <2>3. QED
    BY <1>1, <2>2 DEF RunInv, IsRun, Owed, Working
<1>2. CASE ~(r.touched = {} \/ r.noScan)
  <2>1. run' = [r EXCEPT !.phase = "scanning", !.todo = <<>>]
    BY <1>2 DEF End
  <2>2. /\ DOMAIN run' = Fields /\ run'.rows = r.rows /\ run'.noScan = r.noScan
        /\ run'.phase = "scanning" /\ run'.touched = r.touched
    BY <2>1 DEF IsRun, Fields
  <2>3. QED
    BY <1>2, <2>2 DEF RunInv, IsRun, Owed, Working
<1>3. QED
  BY <1>1, <1>2

\* A book passed over is not a book moved.
LEMMA SkipRun ==
  ASSUME NEW r, IsRun(r), NEW code, NEW s, s = Skip(r, code)
  PROVE  /\ IsRun(s) /\ s.phase = "next" /\ s.noScan = r.noScan /\ s.touched = r.touched
         /\ \A b \in Books : s.rows[b] = r.rows[b] \/ (b = Head(r.todo) /\ s.rows[b] = code)
<1>1. /\ DOMAIN s = Fields /\ s.phase = "next" /\ s.noScan = r.noScan /\ s.touched = r.touched
      /\ s.rows = [r.rows EXCEPT ![Head(r.todo)] = code]
  BY DEF Skip, IsRun, Fields
<1>2. QED
  BY <1>1 DEF IsRun

LEMMA MarkedRun ==
  ASSUME NEW r, IsRun(r)
  PROVE  /\ IsRun(Marked(r)) /\ Marked(r).noScan = r.noScan /\ Marked(r).touched = r.touched
         /\ \A b \in Books : Marked(r).rows[b] \in {r.rows[b], "not-reached"}
<1>1. /\ DOMAIN Marked(r) = Fields /\ Marked(r).noScan = r.noScan /\ Marked(r).touched = r.touched
      /\ Marked(r).rows = [b \in Books |-> IF b \in ToSet(r.todo) THEN "not-reached" ELSE r.rows[b]]
  BY DEF Marked, IsRun, Fields
<1>2. QED
  BY <1>1 DEF IsRun

LEMMA NextPlanStep == ASSUME RunInv, NextPlan PROVE RunInv'
<1>1. run.phase = "next" /\ UNCHANGED untold /\ IsRun(run)
      /\ \A b \in Books : Owed(run, b, untold) => Library[b] \in run.touched
  BY DEF NextPlan, RunInv, Working
<1>2. CASE run.todo = <<>> \/ run.kind = "plan"
  <2>1. End(run)
    BY <1>2 DEF NextPlan
  <2>2. QED
    BY <1>1, <2>1, EndRun
<1>3. CASE ~(run.todo = <<>> \/ run.kind = "plan") /\ run.abort
  <2>1. End(Marked(run))
    BY <1>3 DEF NextPlan
  <2>2. \A b \in Books : Owed(Marked(run), b, untold) => Library[b] \in Marked(run).touched
    BY <1>1, MarkedRun DEF Owed
  <2>3. QED
    BY <1>1, <2>1, <2>2, MarkedRun, EndRun
<1>4. CASE ~(run.todo = <<>> \/ run.kind = "plan") /\ ~run.abort
  <2>1. \/ \E code \in {"changed-since", "blocked", "missing"} : run' = Skip(run, code)
        \/ run' = [run EXCEPT !.phase = "checked"]
    BY <1>4 DEF NextPlan
  <2>2. ASSUME NEW code \in {"changed-since", "blocked", "missing"}, run' = Skip(run, code)
        PROVE  RunInv'
    <3>1. /\ IsRun(run)' /\ run'.phase = "next" /\ run'.touched = run.touched
          /\ \A b \in Books : run'.rows[b] \in {run.rows[b], code}
      BY <1>1, <2>2, SkipRun DEF IsRun
    <3>2. QED
      BY <1>1, <3>1 DEF RunInv, Owed
  <2>3. CASE run' = [run EXCEPT !.phase = "checked"]
    <3>1. /\ DOMAIN run' = Fields /\ run'.rows = run.rows /\ run'.noScan = run.noScan
          /\ run'.touched = run.touched /\ run'.phase = "checked"
      BY <1>1, <2>3 DEF IsRun, Fields
    <3>2. QED
      BY <1>1, <3>1, GoesOn DEF IsRun, Working
  <2>4. QED
    BY <2>1, <2>2, <2>3
<1>5. QED
  BY <1>2, <1>3, <1>4

\* The book tidied up after is the one now owed a scan.
LEMMA PruneOneStep == ASSUME RunInv, PruneOne PROVE RunInv'
<1> DEFINE h == Head(run.todo)
<1>1. run.phase = "pruning" /\ IsRun(run)
      /\ \A b \in Books : Owed(run, b, untold) => Library[b] \in run.touched
  BY DEF PruneOne, RunInv, Working
<1>2. \/ run' = [run EXCEPT !.dir = Parent(run.dir), !.depth = run.depth + 1] /\ UNCHANGED untold
      \/ run' = Moved(run) /\ untold' = untold \cup {h}
  BY DEF PruneOne
<1>3. CASE run' = [run EXCEPT !.dir = Parent(run.dir), !.depth = run.depth + 1] /\ UNCHANGED untold
  <2>1. /\ DOMAIN run' = Fields /\ run'.rows = run.rows /\ run'.noScan = run.noScan
        /\ run'.touched = run.touched /\ run'.phase = run.phase
    BY <1>1, <1>3 DEF IsRun, Fields
  <2>2. QED
    BY <1>1, <1>3, <2>1, GoesOn DEF IsRun
<1>4. CASE run' = Moved(run) /\ untold' = untold \cup {h}
  <2>1. PICK s : s = Skip(run, "moved")
    OBVIOUS
  <2>2. /\ IsRun(s) /\ s.phase = "next" /\ s.touched = run.touched
        /\ \A b \in Books : s.rows[b] = run.rows[b] \/ b = h
    BY <1>1, <2>1, SkipRun
  <2>3. run' = [s EXCEPT !.touched = s.touched \cup {Library[h]}, !.dir = Nowhere, !.depth = 0]
    BY <1>4, <2>1 DEF Moved
  <2>4. /\ DOMAIN run' = Fields /\ run'.rows = s.rows /\ run'.phase = "next"
        /\ run'.touched = run.touched \cup {Library[h]}
    BY <2>2, <2>3 DEF IsRun, Fields
  <2>5. QED
    BY <1>1, <1>4, <2>2, <2>4 DEF RunInv, IsRun, Owed
<1>5. QED
  BY <1>2, <1>3, <1>4

\* A library is forgotten once it has been asked to scan.
LEMMA RequestScanStep == ASSUME RunInv, RequestScan PROVE RunInv'
<1>1. run.phase = "scanning" /\ IsRun(run) /\ ~run.noScan
      /\ \A b \in Books : Owed(run, b, untold) => Library[b] \in run.touched
  BY DEF RequestScan, RunInv, Working
<1>2. PICK lib \in run.touched :
        /\ untold' = {b \in untold : Library[b] # lib}
        /\ IF run.touched = {lib} THEN Finish([run EXCEPT !.touched = {}])
           ELSE run' = [run EXCEPT !.touched = run.touched \ {lib}] /\ UNCHANGED kept
  BY DEF RequestScan
<1>3. CASE run.touched = {lib}
  <2>1. PICK s : s = [run EXCEPT !.touched = {}]
    OBVIOUS
  <2>2. DOMAIN s = Fields /\ s.rows = run.rows
    BY <1>1, <2>1 DEF IsRun, Fields
  <2>3. run' = [s EXCEPT !.phase = "returned", !.todo = <<>>]
    BY <1>2, <1>3, <2>1 DEF Finish
  <2>4. DOMAIN run' = Fields /\ run'.rows = run.rows /\ run'.phase = "returned"
    BY <2>2, <2>3 DEF Fields
  <2>5. \A b \in Books : ~Owed(run', b, untold')
    BY <1>1, <1>2, <1>3, <2>4 DEF Owed
  <2>6. QED
    BY <1>1, <2>4, <2>5 DEF RunInv, IsRun, Owed, Working
<1>4. CASE run.touched # {lib}
  <2>1. run' = [run EXCEPT !.touched = run.touched \ {lib}]
    BY <1>2, <1>4
  <2>2. /\ DOMAIN run' = Fields /\ run'.rows = run.rows /\ run'.phase = "scanning"
        /\ run'.touched = run.touched \ {lib} /\ ~run'.noScan
    BY <1>1, <2>1 DEF IsRun, Fields
  <2>3. \A b \in Books : Owed(run', b, untold') => Library[b] \in run'.touched
    BY <1>1, <1>2, <2>2 DEF Owed
  <2>4. QED
    BY <1>1, <2>2, <2>3 DEF RunInv, IsRun, Owed
<1>5. QED
  BY <1>3, <1>4

\* The calls to the filesystem between the two.
LEMMA CallStep ==
  ASSUME RunInv, MakeFolders \/ Rename \/ Copy \/ CopyEnds \/ Delete \/ Fail \/ Stop PROVE RunInv'
<1>1. IsRun(run) /\ UNCHANGED untold /\ run.phase \in Working
  BY DEF RunInv, MakeFolders, Rename, Copy, CopyEnds, Delete, Fail, Stop, Working
<1>2. \/ \E phase \in {"made", "removing", "threw"} : run' = [run EXCEPT !.phase = phase]
      \/ run' = [run EXCEPT !.phase = "copying", !.due = Under(disk, Now.from)]
      \/ \E q : run' = [run EXCEPT !.copied = run.copied \cup {q}]
      \/ run' = Prune(run)
      \/ run' = [run EXCEPT !.abort = TRUE]
      \/ run' = run
  BY DEF MakeFolders, Rename, Copy, CopyEnds, Delete, Fail, Stop, Throw
<1>3. /\ DOMAIN run' = Fields /\ run'.rows = run.rows /\ run'.noScan = run.noScan
      /\ run'.touched = run.touched
      /\ run'.phase = run.phase \/ run'.phase \in {"made", "removing", "threw", "copying", "pruning"}
  BY <1>1, <1>2 DEF IsRun, Fields, Prune
<1>4. QED
  BY <1>1, <1>3, GoesOn DEF IsRun, Working

LEMMA NextRun == ASSUME RunInv, [Next]_vars PROVE RunInv'
<1>1. CASE Crash
  <2>1. run' = Idle
    BY <1>1 DEF Crash
  <2>2. QED
    BY <2>1, IdleRun DEF RunInv, Working, IsRun
<1>2. ASSUME Scan \/ UNCHANGED vars \/ \E s \in DOMAIN Strangers : Arrive(s)
      PROVE  RunInv'
  <2>1. UNCHANGED <<run, untold>>
    BY <1>2 DEF Scan, vars, Arrive
  <2>2. QED
    BY <2>1 DEF RunInv, IsRun, Owed
<1>3. QED
  BY <1>1, <1>2, StartRun, NextPlanStep, PruneOneStep, RequestScanStep, CallStep DEF Next, Step

--------------------------------------------------------------------------------
\* AudiobookShelf is not left pointing at paths that moved: when runOrganizeTask, or
\* an apply of a stored plan, returns, stopped or not, the library of every book it
\* moved has been asked to scan after the move.
THEOREM ServerTold == Spec => []ServerIsTold
<1>1. RunInv /\ [Next]_vars => RunInv'
  BY NextRun
<1>2. RunInv => ServerIsTold
  BY DEF RunInv, ServerIsTold, Owed
<1>3. QED
  BY InitRun, <1>1, <1>2, PTL DEF Spec

--------------------------------------------------------------------------------
(***************************************************************************)
(* Paths.                                                                  *)
(***************************************************************************)
\* A path is its parts.
LEMMA PathParts ==
  ASSUME NEW p \in Path
  PROVE  /\ Len(p) \in Nat /\ (p # Nowhere <=> Len(p) >= 1)
         /\ \A i \in 1 .. Len(p) : p[i] \in STRING
         /\ \A q \in Path : p = q <=> Len(p) = Len(q) /\ \A i \in 1 .. Len(p) : p[i] = q[i]
<1>1. Len(p) \in Nat /\ \A i \in 1 .. Len(p) : p[i] \in STRING
  BY DEF Path
<1>2. p # Nowhere <=> Len(p) >= 1
  BY EmptySeq DEF Path, Nowhere
<1>3. \A q \in Path : p = q <=> Len(p) = Len(q) /\ \A i \in 1 .. Len(p) : p[i] = q[i]
  BY SeqEqual DEF Path
<1>4. QED
  BY <1>1, <1>2, <1>3

\* The part of a path from one place to another.
LEMMA Cut ==
  ASSUME NEW p \in Path, NEW m \in Nat \ {0}, NEW n \in Nat, n <= Len(p)
  PROVE  /\ SubSeq(p, m, n) \in Path
         /\ Len(SubSeq(p, m, n)) = IF m <= n THEN n - m + 1 ELSE 0
         /\ \A i \in 1 .. n - m + 1 : SubSeq(p, m, n)[i] = p[m + i - 1]
<1>1. \A i \in m .. n : p[i] \in STRING
  BY PathParts
<1>2. QED
  BY <1>1, SubSeqProperties DEF Path

\* The first parts of a path.
LEMMA CutFirst ==
  ASSUME NEW p \in Path, NEW n \in Nat, n <= Len(p)
  PROVE  /\ SubSeq(p, 1, n) \in Path /\ Len(SubSeq(p, 1, n)) = n
         /\ \A i \in 1 .. n : SubSeq(p, 1, n)[i] = p[i]
<1> DEFINE s == SubSeq(p, 1, n)
<1>1. s \in Path /\ Len(s) = (IF 1 <= n THEN n - 1 + 1 ELSE 0)
      /\ \A i \in 1 .. n - 1 + 1 : s[i] = p[1 + i - 1]
  BY Cut
<1> HIDE DEF s
<1>2. Len(s) = n /\ \A i \in 1 .. n : i \in 1 .. n - 1 + 1 /\ 1 + i - 1 = i
  BY <1>1
<1>3. QED
  BY <1>1, <1>2 DEF s

\* To lie under a path is to begin with it.
LEMMA PrefixParts ==
  ASSUME NEW p \in Path, NEW q \in Path
  PROVE  IsPrefix(p, q) <=> Len(p) <= Len(q) /\ \A i \in 1 .. Len(p) : p[i] = q[i]
<1>1. Len(p) \in Nat /\ Len(q) \in Nat
  BY PathParts
<1>2. CASE Len(p) <= Len(q)
  <2> DEFINE s == SubSeq(p, 1, Len(p))
             t == SubSeq(q, 1, Len(p))
  <2>1. /\ s \in Path /\ Len(s) = Len(p) /\ \A i \in 1 .. Len(p) : s[i] = p[i]
    BY <1>1, CutFirst
  <2>2. /\ t \in Path /\ Len(t) = Len(p) /\ \A i \in 1 .. Len(p) : t[i] = q[i]
    BY <1>1, <1>2, CutFirst
  <2>3. IsPrefix(p, q) <=> s = t
    BY <1>2 DEF IsPrefix
  <2> HIDE DEF s, t
  <2>4. s = t <=> \A i \in 1 .. Len(p) : s[i] = t[i]
    BY <2>1, <2>2, PathParts
  <2>5. QED
    BY <1>2, <2>1, <2>2, <2>3, <2>4
<1>3. CASE ~(Len(p) <= Len(q))
  BY <1>3 DEF IsPrefix
<1>4. QED
  BY <1>2, <1>3

\* Lying under a path is an order, and what a path lies under is a line.
LEMMA PrefixOrder ==
  ASSUME NEW p \in Path, NEW q \in Path
  PROVE  /\ IsPrefix(p, p)
         /\ IsPrefix(p, q) /\ IsPrefix(q, p) => p = q
         /\ \A r \in Path : IsPrefix(p, q) /\ IsPrefix(q, r) => IsPrefix(p, r)
         /\ \A r \in Path : IsPrefix(p, r) /\ IsPrefix(q, r) => IsPrefix(p, q) \/ IsPrefix(q, p)
<1>1. IsPrefix(p, p)
  BY PrefixParts, PathParts
<1>2. IsPrefix(p, q) /\ IsPrefix(q, p) => p = q
  BY PrefixParts, PathParts
<1>3. ASSUME NEW r \in Path, IsPrefix(p, q), IsPrefix(q, r) PROVE IsPrefix(p, r)
  <2>1. Len(p) \in Nat /\ Len(q) \in Nat /\ Len(r) \in Nat
    BY PathParts
  <2>2. /\ Len(p) <= Len(q) /\ \A i \in 1 .. Len(p) : p[i] = q[i]
        /\ Len(q) <= Len(r) /\ \A i \in 1 .. Len(q) : q[i] = r[i]
    BY <1>3, PrefixParts
  <2>3. Len(p) <= Len(r) /\ \A i \in 1 .. Len(p) : p[i] = r[i]
    BY <2>1, <2>2
  <2>4. QED
    BY <2>3, PrefixParts
<1>4. ASSUME NEW r \in Path, IsPrefix(p, r), IsPrefix(q, r)
      PROVE  IsPrefix(p, q) \/ IsPrefix(q, p)
  <2>1. Len(p) \in Nat /\ Len(q) \in Nat
    BY PathParts
  <2>2. (\A i \in 1 .. Len(p) : p[i] = r[i]) /\ (\A i \in 1 .. Len(q) : q[i] = r[i])
    BY <1>4, PrefixParts
  <2>3. CASE Len(p) <= Len(q)
    <3>1. \A i \in 1 .. Len(p) : p[i] = q[i]
      BY <2>1, <2>2, <2>3
    <3>2. QED
      BY <2>3, <3>1, PrefixParts
  <2>4. CASE Len(q) <= Len(p)
    <3>1. \A i \in 1 .. Len(q) : q[i] = p[i]
      BY <2>1, <2>2, <2>4
    <3>2. QED
      BY <2>4, <3>1, PrefixParts
  <2>5. QED
    BY <2>1, <2>3, <2>4
<1>5. QED
  BY <1>1, <1>2, <1>3, <1>4

\* The folders a path is in are what it lies under.
LEMMA AncestorsOf ==
  ASSUME NEW p \in Path
  PROVE  \A q : q \in Ancestors(p) <=> q \in Path /\ q # Nowhere /\ IsPrefix(q, p) /\ q # p
<1>1. Len(p) \in Nat
  BY PathParts
<1>2. ASSUME NEW q, q \in Ancestors(p)
      PROVE  q \in Path /\ q # Nowhere /\ IsPrefix(q, p) /\ q # p
  <2>1. PICK i \in 1 .. Len(p) - 1 : q = SubSeq(p, 1, i)
    BY <1>2 DEF Ancestors
  <2>2. i \in Nat /\ i >= 1 /\ i < Len(p)
    BY <1>1
  <2>3. q \in Path /\ Len(q) = i /\ \A k \in 1 .. i : q[k] = p[k]
    BY <2>1, <2>2, CutFirst
  <2>4. Len(q) <= Len(p) /\ Len(q) # Len(p) /\ Len(q) >= 1
    BY <1>1, <2>2, <2>3
  <2>5. QED
    BY <2>3, <2>4, PrefixParts, PathParts
<1>3. ASSUME NEW q \in Path, q # Nowhere, IsPrefix(q, p), q # p
      PROVE  q \in Ancestors(p)
  <2>1. Len(q) \in Nat /\ Len(q) >= 1 /\ Len(q) <= Len(p) /\ \A i \in 1 .. Len(q) : q[i] = p[i]
    BY <1>3, PathParts, PrefixParts
  <2>2. Len(q) # Len(p)
    BY <1>3, <2>1, PathParts
  <2> DEFINE s == SubSeq(p, 1, Len(q))
  <2>3. s \in Path /\ Len(s) = Len(q) /\ \A i \in 1 .. Len(q) : s[i] = p[i]
    BY <2>1, CutFirst
  <2> HIDE DEF s
  <2>4. q = s
    BY <2>1, <2>3, PathParts
  <2>5. Len(q) \in 1 .. Len(p) - 1
    BY <1>1, <2>1, <2>2
  <2>6. QED
    BY <2>4, <2>5 DEF Ancestors, s
<1>4. QED
  BY <1>2, <1>3

\* A name in a folder lies under what the folder lies under, and itself.
LEMMA InFolder ==
  ASSUME NEW p \in Path, NEW n \in STRING
  PROVE  LET f == Append(p, n) IN
         /\ f \in Path /\ f # Nowhere /\ f # p /\ Parent(f) = p /\ Last(f) = n /\ IsPrefix(p, f)
         /\ \A q \in Path : IsPrefix(q, f) <=> q = f \/ IsPrefix(q, p)
<1> DEFINE f == Append(p, n)
<1>1. Len(p) \in Nat
  BY PathParts
<1>2. /\ f \in Path /\ Len(f) = Len(p) + 1 /\ f[Len(p) + 1] = n
      /\ \A i \in 1 .. Len(p) : f[i] = p[i]
  <2>1. p \in Seq(STRING) /\ n \in STRING
    BY DEF Path
  <2>2. f \in Seq(STRING) /\ Len(f) = Len(p) + 1
    BY <2>1, AppendProperties
  <2>3. f[Len(p) + 1] = n
    BY <2>1, AppendProperties, Zenon
  <2>4. ASSUME NEW i \in 1 .. Len(p) PROVE f[i] = p[i]
    BY <2>1, AppendProperties
  <2>5. QED
    BY <2>2, <2>3, <2>4 DEF Path
<1> HIDE DEF f
<1>3. f # Nowhere /\ f # p /\ IsPrefix(p, f)
  BY <1>1, <1>2, PathParts, PrefixParts
<1>4. Parent(f) = p
  <2> DEFINE s == SubSeq(f, 1, Len(p))
  <2>1. s \in Path /\ Len(s) = Len(p) /\ \A i \in 1 .. Len(p) : s[i] = f[i]
    BY <1>1, <1>2, CutFirst
  <2>2. Parent(f) = SubSeq(f, 1, Len(f) - 1) /\ Len(f) - 1 = Len(p)
    BY <1>1, <1>2 DEF Parent, Front
  <2>3. Parent(f) = s
    BY <2>2
  <2> HIDE DEF s
  <2>4. s = p
    BY <1>2, <2>1, PathParts
  <2>5. QED
    BY <2>3, <2>4
<1>5. Last(f) = n
  BY <1>2 DEF Last
<1>6. ASSUME NEW q \in Path, IsPrefix(q, f), q # f PROVE IsPrefix(q, p)
  <2>1. Len(q) \in Nat /\ Len(q) <= Len(p) + 1 /\ \A i \in 1 .. Len(q) : q[i] = f[i]
    BY <1>2, <1>6, PathParts, PrefixParts
  <2>2. Len(q) # Len(p) + 1
    BY <1>2, <1>6, <2>1, PathParts
  <2>3. Len(q) <= Len(p) /\ \A i \in 1 .. Len(q) : q[i] = p[i]
    BY <1>1, <1>2, <2>1, <2>2
  <2>4. QED
    BY <2>3, PrefixParts
<1>7. \A q \in Path : q = f \/ IsPrefix(q, p) => IsPrefix(q, f)
  BY <1>2, <1>3, PrefixOrder
<1>8. QED
  BY <1>2, <1>3, <1>4, <1>5, <1>6, <1>7 DEF f

\* What a path is in is its last ancestor.
LEMMA ParentOf ==
  ASSUME NEW p \in Path, p # Nowhere
  PROVE  /\ Parent(p) \in Path /\ IsPrefix(Parent(p), p) /\ Parent(p) # p
         /\ Last(p) \in STRING /\ p = Append(Parent(p), Last(p))
<1>1. Len(p) \in Nat /\ Len(p) >= 1
  BY PathParts
<1> DEFINE s == Parent(p)
<1>2. s \in Path /\ Len(s) = Len(p) - 1 /\ \A i \in 1 .. Len(p) - 1 : s[i] = p[i]
  <2>1. Len(p) - 1 \in Nat /\ Len(p) - 1 <= Len(p)
    BY <1>1
  <2>2. QED
    BY <2>1, CutFirst DEF Parent, Front
<1>3. Last(p) \in STRING /\ Last(p) = p[Len(p)]
  BY <1>1, PathParts DEF Last
<1> HIDE DEF s
<1>4. IsPrefix(s, p) /\ s # p
  BY <1>1, <1>2, PrefixParts, PathParts
<1> DEFINE f == Append(s, Last(p))
<1>5. /\ f \in Path /\ Len(f) = Len(s) + 1 /\ f[Len(s) + 1] = Last(p)
      /\ \A i \in 1 .. Len(s) : f[i] = s[i]
  BY <1>2, <1>3, AppendProperties DEF Path
<1> HIDE DEF f
<1>6. p = f
  <2>1. Len(f) = Len(p) /\ \A i \in 1 .. Len(p) : p[i] = f[i]
    BY <1>1, <1>2, <1>3, <1>5
  <2>2. QED
    BY <1>5, <2>1, PathParts
<1>7. QED
  BY <1>2, <1>3, <1>4, <1>6 DEF s, f

\* What lies under one path, seen under another.
LEMMA Rebased ==
  ASSUME NEW from \in Path, NEW to \in Path, NEW q \in Path, IsPrefix(from, q)
  PROVE  LET r == Rebase(q, from, to) IN
         /\ r \in Path /\ IsPrefix(to, r)
         /\ Len(r) = Len(to) + (Len(q) - Len(from))
         /\ \A i \in 1 .. Len(to) : r[i] = to[i]
         /\ \A i \in Len(from) + 1 .. Len(q) : r[i - Len(from) + Len(to)] = q[i]
<1> DEFINE r == Rebase(q, from, to)
           s == SubSeq(q, Len(from) + 1, Len(q))
           k == Len(q) - Len(from)
<1>1. Len(from) \in Nat /\ Len(q) \in Nat /\ Len(from) <= Len(q) /\ Len(to) \in Nat
  BY PathParts, PrefixParts
<1>2. /\ s \in Path
      /\ Len(s) = IF Len(from) + 1 <= Len(q) THEN Len(q) - (Len(from) + 1) + 1 ELSE 0
      /\ \A i \in 1 .. Len(q) - (Len(from) + 1) + 1 : s[i] = q[Len(from) + 1 + i - 1]
  <2>1. Len(from) + 1 \in Nat \ {0}
    BY <1>1
  <2>2. QED
    BY <1>1, <2>1, Cut
<1>3. r = to \o s
  BY DEF Rebase
<1> HIDE DEF r, s
<1>4. k \in Nat /\ Len(s) = k /\ \A i \in 1 .. k : s[i] = q[Len(from) + i]
  <2>1. k \in Nat /\ Len(s) = k
    BY <1>1, <1>2
  <2>2. ASSUME NEW i \in 1 .. k PROVE s[i] = q[Len(from) + i]
    <3>1. i \in 1 .. Len(q) - (Len(from) + 1) + 1 /\ Len(from) + 1 + i - 1 = Len(from) + i
      BY <1>1, <2>1
    <3>2. QED
      BY <1>2, <3>1
  <2>3. QED
    BY <2>1, <2>2
<1> HIDE DEF k
<1>5. /\ r \in Path /\ Len(r) = Len(to) + k
      /\ \A i \in 1 .. Len(to) + k : r[i] = IF i <= Len(to) THEN to[i] ELSE s[i - Len(to)]
  BY <1>2, <1>3, <1>4, ConcatProperties DEF Path
<1>6. \A i \in 1 .. Len(to) : r[i] = to[i]
  BY <1>1, <1>4, <1>5
<1>7. IsPrefix(to, r)
  <2>1. Len(to) <= Len(r)
    BY <1>1, <1>4, <1>5
  <2>2. QED
    BY <1>5, <1>6, <2>1, PrefixParts
<1>8. ASSUME NEW i \in Len(from) + 1 .. Len(q) PROVE r[i - Len(from) + Len(to)] = q[i]
  <2> DEFINE j == i - Len(from)
             h == j + Len(to)
  <2>1. j \in 1 .. k /\ Len(from) + j = i
    BY <1>1 DEF k
  <2>2. s[j] = q[i]
    BY <1>4, <2>1
  <2>3. h \in 1 .. Len(to) + k /\ ~(h <= Len(to)) /\ h - Len(to) = j
    BY <1>1, <1>4, <2>1
  <2> HIDE DEF j, h
  <2>4. r[h] = s[j]
    BY <1>5, <2>3
  <2>5. QED
    BY <2>2, <2>4 DEF h, j
<1>9. QED
  BY <1>5, <1>6, <1>7, <1>8 DEF r, k

\* There and back again.
LEMMA RebasedBack ==
  ASSUME NEW from \in Path, NEW to \in Path, NEW q \in Path, IsPrefix(from, q)
  PROVE  Rebase(Rebase(q, from, to), to, from) = q
<1> DEFINE r == Rebase(q, from, to)
           b == Rebase(r, to, from)
<1>1. /\ r \in Path /\ IsPrefix(to, r)
      /\ Len(r) = Len(to) + (Len(q) - Len(from))
      /\ \A i \in Len(from) + 1 .. Len(q) : r[i - Len(from) + Len(to)] = q[i]
  BY Rebased
<1> HIDE DEF r
<1>2. /\ b \in Path
      /\ Len(b) = Len(from) + (Len(r) - Len(to))
      /\ \A i \in 1 .. Len(from) : b[i] = from[i]
      /\ \A i \in Len(to) + 1 .. Len(r) : b[i - Len(to) + Len(from)] = r[i]
  BY <1>1, Rebased
<1> HIDE DEF b
<1>3. /\ Len(from) \in Nat /\ Len(q) \in Nat /\ Len(from) <= Len(q) /\ Len(to) \in Nat
      /\ \A i \in 1 .. Len(from) : from[i] = q[i]
  BY PathParts, PrefixParts
<1>4. Len(b) = Len(q)
  BY <1>1, <1>2, <1>3
<1>5. ASSUME NEW i \in 1 .. Len(q) PROVE b[i] = q[i]
  <2>1. CASE i <= Len(from)
    BY <1>2, <1>3, <2>1
  <2>2. CASE i > Len(from)
    <3> DEFINE j == i - Len(from) + Len(to)
    <3>1. i \in Len(from) + 1 .. Len(q) /\ j \in Len(to) + 1 .. Len(r)
          /\ j - Len(to) + Len(from) = i
      BY <1>1, <1>3, <2>2
    <3>2. r[j] = q[i]
      BY <1>1, <3>1
    <3> HIDE DEF j
    <3>3. b[j - Len(to) + Len(from)] = r[j]
      BY <1>2, <3>1
    <3>4. QED
      BY <3>1, <3>2, <3>3
  <2>3. QED
    BY <1>3, <2>1, <2>2
<1>6. b = q
  BY <1>2, <1>4, <1>5, PathParts
<1>7. QED
  BY <1>6 DEF b, r

\* What lay under what still does.
LEMMA RebasedOrder ==
  ASSUME NEW from \in Path, NEW to \in Path, NEW p \in Path, NEW q \in Path,
         IsPrefix(from, p), IsPrefix(p, q)
  PROVE  IsPrefix(Rebase(p, from, to), Rebase(q, from, to))
<1> DEFINE r == Rebase(p, from, to)
           s == Rebase(q, from, to)
<1>0. IsPrefix(from, q)
  BY PrefixOrder
<1>1. /\ r \in Path
      /\ Len(r) = Len(to) + (Len(p) - Len(from))
      /\ \A i \in 1 .. Len(to) : r[i] = to[i]
      /\ \A i \in Len(from) + 1 .. Len(p) : r[i - Len(from) + Len(to)] = p[i]
  BY Rebased
<1>2. /\ s \in Path
      /\ Len(s) = Len(to) + (Len(q) - Len(from))
      /\ \A i \in 1 .. Len(to) : s[i] = to[i]
      /\ \A i \in Len(from) + 1 .. Len(q) : s[i - Len(from) + Len(to)] = q[i]
  BY <1>0, Rebased
<1> HIDE DEF r, s
<1>3. /\ Len(from) \in Nat /\ Len(p) \in Nat /\ Len(q) \in Nat /\ Len(to) \in Nat
      /\ Len(from) <= Len(p) /\ Len(p) <= Len(q) /\ \A i \in 1 .. Len(p) : p[i] = q[i]
  BY PathParts, PrefixParts
<1>4. Len(r) <= Len(s)
  BY <1>1, <1>2, <1>3
<1>5. ASSUME NEW i \in 1 .. Len(r) PROVE r[i] = s[i]
  <2>1. CASE i <= Len(to)
    BY <1>1, <1>2, <1>3, <2>1
  <2>2. CASE i > Len(to)
    <3> DEFINE j == i - Len(to) + Len(from)
    <3>1. j \in Len(from) + 1 .. Len(p) /\ j \in Len(from) + 1 .. Len(q) /\ j \in 1 .. Len(p)
          /\ j - Len(from) + Len(to) = i
      BY <1>1, <1>3, <2>2
    <3> HIDE DEF j
    <3>2. r[j - Len(from) + Len(to)] = p[j] /\ s[j - Len(from) + Len(to)] = q[j] /\ p[j] = q[j]
      BY <1>1, <1>2, <1>3, <3>1
    <3>3. QED
      BY <3>1, <3>2
  <2>3. QED
    BY <1>1, <1>3, <2>1, <2>2
<1>6. QED
  BY <1>1, <1>2, <1>4, <1>5, PrefixParts DEF r, s

\* The folder itself, and the names in it.
LEMMA RebasedNames ==
  ASSUME NEW from \in Path, NEW to \in Path
  PROVE  /\ Rebase(from, from, to) = to
         /\ \A p \in Path, n \in STRING : IsPrefix(from, p) =>
              Rebase(Append(p, n), from, to) = Append(Rebase(p, from, to), n)
<1>1. Rebase(from, from, to) = to
  <2> DEFINE r == Rebase(from, from, to)
  <2>1. /\ r \in Path /\ Len(r) = Len(to) + (Len(from) - Len(from))
        /\ \A i \in 1 .. Len(to) : r[i] = to[i]
    BY PrefixOrder, Rebased
  <2> HIDE DEF r
  <2>2. Len(r) = Len(to)
    BY <2>1, PathParts
  <2>3. r = to
    BY <2>1, <2>2, PathParts
  <2>4. QED
    BY <2>3 DEF r
<1>2. ASSUME NEW p \in Path, NEW n \in STRING, IsPrefix(from, p)
      PROVE  Rebase(Append(p, n), from, to) = Append(Rebase(p, from, to), n)
  <2> DEFINE f == Append(p, n)
             r == Rebase(p, from, to)
             s == Rebase(f, from, to)
  <2>1. f \in Path /\ f # Nowhere /\ Parent(f) = p /\ Last(f) = n /\ IsPrefix(p, f)
    BY InFolder
  <2>2. IsPrefix(from, f)
    BY <1>2, <2>1, PrefixOrder
  <2> HIDE DEF f
  <2>3. r \in Path /\ s \in Path /\ IsPrefix(r, s)
        /\ Len(r) = Len(to) + (Len(p) - Len(from))
        /\ Len(s) = Len(to) + (Len(f) - Len(from))
        /\ \A i \in Len(from) + 1 .. Len(f) : s[i - Len(from) + Len(to)] = f[i]
    BY <1>2, <2>1, <2>2, Rebased, RebasedOrder
  <2> HIDE DEF r, s
  <2>4. /\ Len(from) \in Nat /\ Len(p) \in Nat /\ Len(f) \in Nat /\ Len(to) \in Nat
        /\ Len(from) <= Len(p)
    BY <1>2, <2>1, PathParts, PrefixParts
  <2>5. Len(f) = Len(p) + 1 /\ f[Len(f)] = n
    <3>1. Len(Append(p, n)) = Len(p) + 1
      BY AppendProperties DEF Path
    <3>2. QED
      BY <2>1, <3>1 DEF f, Last
  <2>6. Len(s) = Len(r) + 1
    BY <2>3, <2>4, <2>5
  <2>7. s[Len(s)] = n
    <3>1. Len(f) \in Len(from) + 1 .. Len(f) /\ Len(f) - Len(from) + Len(to) = Len(s)
      BY <2>3, <2>4, <2>5
    <3>2. QED
      BY <2>3, <2>5, <3>1
  <2>8. s # Nowhere /\ Last(s) = n
    <3>1. Len(r) \in Nat /\ Len(s) \in Nat
      BY <2>3, PathParts
    <3>2. Len(s) >= 1
      BY <2>6, <3>1
    <3>3. QED
      BY <2>3, <2>7, <3>2, PathParts DEF Last
  <2>9. /\ Parent(s) \in Path /\ IsPrefix(Parent(s), s) /\ s = Append(Parent(s), n)
    BY <2>3, <2>8, ParentOf
  <2>10. Parent(s) = r
    <3> DEFINE t == Parent(s)
    <3>1. t \in Path /\ s = Append(t, n)
      BY <2>9
    <3> HIDE DEF t
    <3>2. Len(Append(t, n)) = Len(t) + 1
      BY <3>1, AppendProperties DEF Path
    <3>3. Len(t) = Len(r) /\ Len(r) \in Nat
      <4>1. Len(t) \in Nat /\ Len(r) \in Nat
        BY <2>3, <3>1, PathParts
      <4>2. QED
        BY <2>6, <3>1, <3>2, <4>1
    <3>4. IsPrefix(t, s)
      BY <2>9 DEF t
    <3>5. /\ \A i \in 1 .. Len(r) : r[i] = s[i]
          /\ \A i \in 1 .. Len(t) : t[i] = s[i]
      BY <2>3, <3>1, <3>4, PrefixParts
    <3>6. \A i \in 1 .. Len(t) : t[i] = r[i]
      BY <3>3, <3>5
    <3>7. t = r
      BY <2>3, <3>1, <3>3, <3>6, PathParts
    <3>8. QED
      BY <3>7 DEF t
  <2>11. QED
    BY <2>9, <2>10 DEF f, r, s
<1>3. QED
  BY <1>1, <1>2

--------------------------------------------------------------------------------
(***************************************************************************)
(* Disks.                                                                  *)
(***************************************************************************)
\* Below a folder AudiobookShelf watches.
Watched(p) == \E r \in Roots : IsStrictPrefix(r, p)

\* What is below a watched folder is neither one nor holds one.
LEMMA BelowRoots ==
  ASSUME NEW p \in Path, Watched(p)
  PROVE  /\ p # Nowhere /\ p \notin Roots /\ \A r \in Roots : ~IsPrefix(p, r)
         /\ \A q \in Path : IsPrefix(p, q) => Watched(q)
         /\ Parent(p) \in Path \ {Nowhere} /\ (Parent(p) \in Roots \/ Watched(Parent(p)))
<1>1. PICK r \in Roots : IsPrefix(r, p) /\ r # p
  BY DEF Watched, IsStrictPrefix
<1>2. Roots \subseteq Path /\ Nowhere \notin Roots /\ \A s, t \in Roots : IsPrefix(s, t) => s = t
  BY OrganizeAssumption
<1>3. \A s \in Roots : ~IsPrefix(p, s)
  <2>1. SUFFICES ASSUME NEW s \in Roots, IsPrefix(p, s) PROVE FALSE
    OBVIOUS
  <2>2. IsPrefix(r, s)
    BY <1>1, <1>2, <2>1, PrefixOrder
  <2>3. r = s
    BY <1>2, <2>2
  <2>4. QED
    BY <1>1, <1>2, <2>1, <2>3, PrefixOrder
<1>4. p \notin Roots
  BY <1>3, PrefixOrder
<1>5. \A q \in Path : IsPrefix(q, Nowhere) => q = Nowhere
  <2>1. Nowhere \in Path /\ Len(Nowhere) = 0
    BY EmptySeq DEF Path, Nowhere
  <2>2. QED
    BY <2>1, PrefixParts, PathParts
<1>6. p # Nowhere
  BY <1>1, <1>2, <1>5
<1>7. ASSUME NEW q \in Path, IsPrefix(p, q) PROVE Watched(q)
  <2>1. IsPrefix(r, q)
    BY <1>1, <1>2, <1>7, PrefixOrder
  <2>2. r # q
    BY <1>3, <1>7
  <2>3. QED
    BY <2>1, <2>2 DEF Watched, IsStrictPrefix
<1>8. Parent(p) \in Path /\ Last(p) \in STRING /\ p = Append(Parent(p), Last(p))
  BY <1>6, ParentOf
<1>9. IsPrefix(r, Parent(p))
  <2>1. \A q \in Path : IsPrefix(q, Append(Parent(p), Last(p)))
                          => q = Append(Parent(p), Last(p)) \/ IsPrefix(q, Parent(p))
    BY <1>8, InFolder
  <2>2. QED
    BY <1>1, <1>2, <1>8, <2>1
<1>10. Parent(p) # Nowhere
  BY <1>2, <1>5, <1>9
<1>11. Parent(p) \in Roots \/ Watched(Parent(p))
  BY <1>9 DEF Watched, IsStrictPrefix
<1>12. QED
  BY <1>3, <1>4, <1>6, <1>7, <1>8, <1>10, <1>11

\* Nothing on the disk is without the folders it is in.
Tree(d) ==
  \A p \in DOMAIN d : /\ p \in Path \ {Nowhere}
                      /\ \A q \in Ancestors(p) : q \in DOMAIN d /\ d[q] = Folder

LEMMA TreeFolders ==
  ASSUME NEW d, Tree(d), NEW p \in DOMAIN d
  PROVE  /\ p \in Path /\ p # Nowhere
         /\ \A q \in Path \ {Nowhere} : IsPrefix(q, p) /\ q # p => q \in DOMAIN d /\ d[q] = Folder
         /\ \A q \in Path, n \in STRING : p = Append(q, n) /\ q # Nowhere =>
              q \in DOMAIN d /\ d[q] = Folder
<1>1. p \in Path /\ p # Nowhere /\ \A q \in Ancestors(p) : q \in DOMAIN d /\ d[q] = Folder
  BY DEF Tree
<1>2. \A q \in Path \ {Nowhere} : IsPrefix(q, p) /\ q # p => q \in DOMAIN d /\ d[q] = Folder
  BY <1>1, AncestorsOf
<1>3. \A q \in Path, n \in STRING : p = Append(q, n) => IsPrefix(q, p) /\ q # p
  BY InFolder
<1>4. QED
  BY <1>1, <1>2, <1>3

\* The folders of a path made.
LEMMA FoldersMade ==
  ASSUME NEW d, Tree(d), NEW p \in Path, CanMake(d, p), NEW e, e = WithFolders(d, p)
  PROVE  /\ Tree(e)
         /\ DOMAIN e = Ancestors(p) \cup DOMAIN d
         /\ \A q \in DOMAIN d : e[q] = d[q]
         /\ \A q \in DOMAIN e \ DOMAIN d : e[q] = Folder
         /\ \A q \in Ancestors(p) : e[q] = Folder
<1>1. /\ DOMAIN e = Ancestors(p) \cup DOMAIN d
      /\ \A q \in DOMAIN d : e[q] = d[q]
      /\ \A q \in DOMAIN e \ DOMAIN d : e[q] = Folder
  BY DEF WithFolders
<1>2. \A q \in Ancestors(p) : e[q] = Folder
  BY <1>1 DEF CanMake
<1>3. ASSUME NEW q \in DOMAIN e
      PROVE  /\ q \in Path \ {Nowhere}
             /\ \A a \in Ancestors(q) : a \in DOMAIN e /\ e[a] = Folder
  <2>1. CASE q \in DOMAIN d
    BY <1>1, <2>1 DEF Tree
  <2>2. CASE q \in Ancestors(p)
    <3>1. q \in Path /\ q # Nowhere /\ IsPrefix(q, p) /\ q # p
      BY <2>2, AncestorsOf
    <3>2. ASSUME NEW a \in Ancestors(q) PROVE a \in Ancestors(p)
      <4>1. a \in Path /\ a # Nowhere /\ IsPrefix(a, q) /\ a # q
        BY <3>1, <3>2, AncestorsOf
      <4>2. IsPrefix(a, p) /\ a # p
        BY <3>1, <4>1, PrefixOrder
      <4>3. QED
        BY <4>1, <4>2, AncestorsOf
    <3>3. QED
      BY <1>1, <1>2, <3>1, <3>2
  <2>3. QED
    BY <1>1, <2>1, <2>2
<1>4. Tree(e)
  BY <1>3 DEF Tree
<1>5. QED
  BY <1>1, <1>2, <1>4

\* Something put where its folders are, in no folder's place.
LEMMA PutThere ==
  ASSUME NEW d, Tree(d), NEW p \in Path, p # Nowhere, NEW what, NEW e, e = Put(d, p, what),
         \A q \in Ancestors(p) : q \in DOMAIN d /\ d[q] = Folder,
         p \in DOMAIN d /\ d[p] = Folder => what = Folder
  PROVE  /\ Tree(e)
         /\ DOMAIN e = DOMAIN d \cup {p} /\ e[p] = what
         /\ \A q \in DOMAIN d : q # p => e[q] = d[q]
<1>1. /\ DOMAIN e = DOMAIN d \cup {p} /\ e[p] = what
      /\ \A q \in DOMAIN d : q # p => e[q] = d[q]
  BY DEF Put
<1>2. ASSUME NEW q \in DOMAIN e, NEW a \in Ancestors(q) PROVE a \in DOMAIN e /\ e[a] = Folder
  <2>1. a \in DOMAIN d /\ d[a] = Folder
    BY <1>1, <1>2 DEF Tree
  <2>2. QED
    BY <1>1, <2>1
<1>3. \A q \in DOMAIN e : q \in Path \ {Nowhere}
  BY <1>1 DEF Tree
<1>4. Tree(e)
  BY <1>2, <1>3 DEF Tree
<1>5. QED
  BY <1>1, <1>4

\* Something with nothing in it taken away.
LEMMA TakenAway ==
  ASSUME NEW d, Tree(d), NEW p \in DOMAIN d, Inside(d, p) = {}, NEW e, e = Without(d, p)
  PROVE  /\ Tree(e)
         /\ DOMAIN e = DOMAIN d \ {p} /\ \A q \in DOMAIN e : e[q] = d[q]
<1>1. DOMAIN e = DOMAIN d \ {p} /\ \A q \in DOMAIN e : e[q] = d[q]
  BY DEF Without
<1>2. ASSUME NEW q \in DOMAIN e, NEW a \in Ancestors(q) PROVE a \in DOMAIN e /\ e[a] = Folder
  <2>1. a \in DOMAIN d /\ d[a] = Folder /\ q \in DOMAIN d /\ q \in Path /\ q # p
    BY <1>1, <1>2 DEF Tree
  <2>2. IsPrefix(a, q)
    BY <1>2, <2>1, AncestorsOf
  <2>3. a # p
    BY <2>1, <2>2 DEF Inside, Under
  <2>4. QED
    BY <1>1, <2>1, <2>3
<1>3. \A q \in DOMAIN e : q \in Path \ {Nowhere}
  BY <1>1 DEF Tree
<1>4. Tree(e)
  BY <1>2, <1>3 DEF Tree
<1>5. QED
  BY <1>1, <1>4

\* A folder or a file renamed, with what is in it.
LEMMA RenamedThere ==
  ASSUME NEW d, Tree(d), NEW from \in DOMAIN d, NEW to \in Path, to # Nowhere,
         ~IsPrefix(from, to), ~IsPrefix(to, from), CanRename(d, from, to),
         \A q \in Ancestors(to) : q \in DOMAIN d /\ d[q] = Folder,
         NEW e, e = Renamed(d, from, to)
  PROVE  /\ Tree(e)
         /\ \A q \in DOMAIN d : IsPrefix(to, q) => q = to
         /\ \A q \in DOMAIN d : ~IsPrefix(from, q) /\ ~IsPrefix(to, q) =>
              q \in DOMAIN e /\ e[q] = d[q]
         /\ \A q \in DOMAIN d : IsPrefix(from, q) =>
              Rebase(q, from, to) \in DOMAIN e /\ e[Rebase(q, from, to)] = d[q]
         /\ \A q \in DOMAIN e :
              \/ q \in DOMAIN d /\ ~IsPrefix(from, q) /\ ~IsPrefix(to, q)
              \/ \E x \in DOMAIN d : IsPrefix(from, x) /\ q = Rebase(x, from, to)
<1> DEFINE rest == DOMAIN d \ (Under(d, from) \cup Under(d, to))
           new == {Rebase(q, from, to) : q \in Under(d, from)}
<1>1. /\ DOMAIN e = rest \cup new
      /\ \A q \in DOMAIN e : e[q] = IF q \in rest THEN d[q] ELSE d[Rebase(q, to, from)]
  BY DEF Renamed
<1>2. from \in Path /\ from # Nowhere /\ \A q \in DOMAIN d : q \in Path /\ q # Nowhere
  BY DEF Tree
<1>3. \A q : q \in rest <=> q \in DOMAIN d /\ ~IsPrefix(from, q) /\ ~IsPrefix(to, q)
  BY DEF Under
<1>4. ASSUME NEW q \in DOMAIN d, IsPrefix(from, q)
      PROVE  /\ Rebase(q, from, to) \in Path \ {Nowhere} /\ IsPrefix(to, Rebase(q, from, to))
             /\ Rebase(q, from, to) \in new /\ Rebase(q, from, to) \notin rest
             /\ Rebase(Rebase(q, from, to), to, from) = q
  <2>1. q \in Path
    BY <1>2
  <2>2. Rebase(q, from, to) \in Path /\ IsPrefix(to, Rebase(q, from, to))
    BY <1>2, <1>4, <2>1, Rebased
  <2>3. Rebase(Rebase(q, from, to), to, from) = q
    BY <1>2, <1>4, <2>1, RebasedBack
  <2>4. Rebase(q, from, to) # Nowhere
    <3>1. Len(Rebase(q, from, to)) >= Len(to) /\ Len(to) >= 1
      BY <2>2, PathParts, PrefixParts
    <3>2. Len(Nowhere) = 0
      BY DEF Nowhere
    <3>3. QED
      BY <3>1, <3>2, PathParts
  <2>5. QED
    BY <1>3, <1>4, <2>2, <2>3, <2>4 DEF Under
<1> HIDE DEF rest, new
<1>5. \A q \in DOMAIN d : IsPrefix(from, q) =>
        Rebase(q, from, to) \in DOMAIN e /\ e[Rebase(q, from, to)] = d[q]
  BY <1>1, <1>4
<1>6. \A q \in DOMAIN d : ~IsPrefix(from, q) /\ ~IsPrefix(to, q) => q \in DOMAIN e /\ e[q] = d[q]
  BY <1>1, <1>3
<1>7. \A q \in DOMAIN e :
        \/ q \in DOMAIN d /\ ~IsPrefix(from, q) /\ ~IsPrefix(to, q)
        \/ \E x \in DOMAIN d : IsPrefix(from, x) /\ q = Rebase(x, from, to)
  BY <1>1, <1>3 DEF new, Under
<1>8. ASSUME NEW q \in DOMAIN d, IsPrefix(to, q) PROVE q = to
  <2>1. SUFFICES ASSUME q # to PROVE FALSE
    OBVIOUS
  <2>2. to \in DOMAIN d /\ d[to] = Folder
    BY <1>2, <1>8, <2>1, TreeFolders
  <2>3. Inside(d, to) # {}
    BY <1>8, <2>1 DEF Inside, Under
  <2>4. QED
    BY <2>2, <2>3 DEF CanRename
<1>9. ASSUME NEW q \in DOMAIN e, NEW a \in Ancestors(q) PROVE a \in DOMAIN e /\ e[a] = Folder
  <2>1. CASE q \in DOMAIN d /\ ~IsPrefix(from, q) /\ ~IsPrefix(to, q)
    <3>1. a \in DOMAIN d /\ d[a] = Folder
      BY <1>9, <2>1 DEF Tree
    <3>2. a \in Path /\ IsPrefix(a, q)
      BY <1>2, <1>9, <2>1, AncestorsOf
    <3>3. ~IsPrefix(from, a) /\ ~IsPrefix(to, a)
      BY <1>2, <2>1, <3>2, PrefixOrder
    <3>4. QED
      BY <1>6, <3>1, <3>3
  <2>2. ASSUME NEW x \in DOMAIN d, IsPrefix(from, x), q = Rebase(x, from, to)
        PROVE  a \in DOMAIN e /\ e[a] = Folder
    <3>1. q \in Path /\ IsPrefix(to, q) /\ Rebase(q, to, from) = x /\ x \in Path
      BY <1>2, <1>4, <2>2
    <3>2. a \in Path /\ a # Nowhere /\ IsPrefix(a, q) /\ a # q
      BY <1>9, <3>1, AncestorsOf
    <3>3. CASE IsPrefix(to, a)
      <4> DEFINE y == Rebase(a, to, from)
      <4>1. y \in Path /\ IsPrefix(from, y) /\ Rebase(y, from, to) = a
        BY <1>2, <3>2, <3>3, Rebased, RebasedBack
      <4>2. IsPrefix(y, x)
        BY <1>2, <3>1, <3>2, <3>3, RebasedOrder
      <4> HIDE DEF y
      <4>3. y # x
        BY <2>2, <3>2, <4>1
      <4>4. y # Nowhere
        <5>1. Len(y) >= Len(from) /\ Len(from) >= 1 /\ Len(Nowhere) = 0
          BY <1>2, <4>1, PathParts, PrefixParts DEF Nowhere
        <5>2. QED
          BY <1>2, <4>1, <5>1, PathParts
      <4>5. y \in DOMAIN d /\ d[y] = Folder
        BY <4>1, <4>2, <4>3, <4>4, TreeFolders
      <4>6. QED
        BY <1>5, <4>1, <4>5
    <3>4. CASE ~IsPrefix(to, a)
      <4>1. IsPrefix(a, to) /\ a # to
        BY <3>1, <3>2, <3>4, PrefixOrder
      <4>2. a \in DOMAIN d /\ d[a] = Folder
        BY <3>2, <4>1, AncestorsOf
      <4>3. ~IsPrefix(from, a)
        BY <1>2, <3>2, <4>1, PrefixOrder
      <4>4. QED
        BY <1>6, <3>4, <4>2, <4>3
    <3>5. QED
      BY <3>3, <3>4
  <2>3. QED
    BY <1>7, <2>1, <2>2
<1>10. \A q \in DOMAIN e : q \in Path \ {Nowhere}
  BY <1>2, <1>4, <1>7
<1>11. Tree(e)
  BY <1>9, <1>10 DEF Tree
<1>12. QED
  BY <1>5, <1>6, <1>7, <1>8, <1>11


--------------------------------------------------------------------------------
(***************************************************************************)
(* Books on a disk.                                                        *)
(***************************************************************************)
\* Every book is whole somewhere, its files are below the watched folders, and only
\* a book of one file is in a watched folder itself.
Shelved(d) ==
  \A b \in Books : /\ Homes(d, b) # {}
                   /\ \A p \in DOMAIN d : \A n \in Parts[b] : d[p] = <<b, n>> => Watched(p)
                   /\ \A r \in Roots : r \in Homes(d, b) => \E n \in Parts[b] : Parts[b] = {n}

\* A file is not a folder, and tells whose it is.
LEMMA Contents ==
  /\ \A b, n : <<b, n>> # Folder
  /\ \A s : <<s>> # Folder
  /\ \A b, n, s : <<b, n>> # <<s>>
  /\ \A b, c, m, n : <<b, n>> = <<c, m>> => b = c /\ n = m
  /\ \A s, t : <<s>> = <<t>> => s = t
<1>1. \A b, n : Len(<<b, n>>) = 2
  OBVIOUS
<1>2. \A s : Len(<<s>>) = 1
  OBVIOUS
<1>3. Len(Folder) = 0
  BY DEF Folder
<1>4. /\ \A b, n : <<b, n>> # Folder
      /\ \A s : <<s>> # Folder
      /\ \A b, n, s : <<b, n>> # <<s>>
  BY <1>1, <1>2, <1>3
<1>5. QED
  BY <1>4

\* A book whose files are in one place is at home there.
LEMMA HomeThere ==
  ASSUME NEW d, Tree(d), NEW b \in Books, NEW p \in Path, p # Nowhere,
         \A n \in Parts[b] : Append(p, n) \in DOMAIN d /\ d[Append(p, n)] = <<b, n>>
  PROVE  p \in Homes(d, b)
<1>1. PICK n \in Parts[b] : n \in STRING
  BY OrganizeAssumption
<1>2. p \in DOMAIN d
  BY <1>1, TreeFolders
<1>3. QED
  BY <1>2 DEF Homes, WholeIn

\* Where a book is at home.
LEMMA AtHome ==
  ASSUME NEW d, Tree(d), Shelved(d), NEW b \in Books, NEW p \in Homes(d, b)
  PROVE  /\ p \in Path /\ p # Nowhere /\ (p \in Roots \/ Watched(p))
         /\ Parts[b] # {}
         /\ \A n \in Parts[b] : /\ n \in STRING /\ Append(p, n) \in Path
                                /\ Append(p, n) \in DOMAIN d /\ d[Append(p, n)] = <<b, n>>
                                /\ Watched(Append(p, n))
<1>1. p \in DOMAIN d /\ p \in Path /\ p # Nowhere
  BY DEF Homes, Tree
<1>2. Parts[b] # {} /\ Parts[b] \subseteq STRING
  BY OrganizeAssumption
<1>3. ASSUME NEW n \in Parts[b]
      PROVE  /\ n \in STRING /\ Append(p, n) \in Path
             /\ Append(p, n) \in DOMAIN d /\ d[Append(p, n)] = <<b, n>>
             /\ Watched(Append(p, n))
  <2>1. n \in STRING /\ Append(p, n) \in DOMAIN d /\ d[Append(p, n)] = <<b, n>>
    BY <1>2 DEF Homes, WholeIn
  <2>2. QED
    BY <2>1 DEF Shelved, Tree
<1>4. p \in Roots \/ Watched(p)
  <2>1. PICK n \in Parts[b] : n \in STRING
    BY <1>2
  <2>2. Watched(Append(p, n)) /\ Append(p, n) \in Path /\ Parent(Append(p, n)) = p
    BY <1>1, <1>3, <2>1, InFolder
  <2>3. QED
    BY <2>2, BelowRoots
<1>5. QED
  BY <1>1, <1>2, <1>3, <1>4

\* A disk on which every book still has a home is in order if a book's file is only
\* ever put somewhere below a folder of its own.
LEMMA StillShelved ==
  ASSUME NEW d, Tree(d), Shelved(d), NEW e, Tree(e),
         \A b \in Books : Homes(e, b) # {},
         \A b \in Books : \A n \in Parts[b] : \A q \in DOMAIN e :
           e[q] = <<b, n>> => \/ q \in DOMAIN d /\ d[q] = <<b, n>>
                              \/ Watched(q) /\ Parent(q) \notin Roots
  PROVE  Shelved(e)
<1> SUFFICES ASSUME NEW b \in Books
             PROVE  /\ Homes(e, b) # {}
                    /\ \A p \in DOMAIN e : \A n \in Parts[b] : e[p] = <<b, n>> => Watched(p)
                    /\ \A r \in Roots : r \in Homes(e, b) => \E n \in Parts[b] : Parts[b] = {n}
  BY DEF Shelved
<1>1. \A p \in DOMAIN e : \A n \in Parts[b] : e[p] = <<b, n>> => Watched(p)
  BY DEF Shelved
<1>2. ASSUME NEW r \in Roots, r \in Homes(e, b) PROVE r \in Homes(d, b)
  <2>1. r \in Path /\ r # Nowhere /\ Parts[b] \subseteq STRING
    BY OrganizeAssumption
  <2>2. ASSUME NEW n \in Parts[b]
        PROVE  Append(r, n) \in DOMAIN d /\ d[Append(r, n)] = <<b, n>>
    <3>1. Append(r, n) \in DOMAIN e /\ e[Append(r, n)] = <<b, n>>
      BY <1>2 DEF Homes, WholeIn
    <3>2. Parent(Append(r, n)) = r
      BY <2>1, InFolder
    <3>3. QED
      BY <3>1, <3>2
  <2>3. QED
    BY <2>1, <2>2, HomeThere
<1>3. QED
  BY <1>1, <1>2 DEF Shelved

--------------------------------------------------------------------------------
(***************************************************************************)
(* A move.                                                                 *)
(***************************************************************************)
\* A move a listing can plan: between places below watched folders, and a loose
\* file keeps its name.
SoundPlan(p) ==
  /\ p \in Plan /\ p.root \in Roots /\ Watched(p.from) /\ Watched(p.to)
  /\ p.file => /\ Parent(p.from) \in Roots /\ Watched(Parent(p.to))
               /\ Last(p.to) = Last(p.from)

LEMMA PlanPaths ==
  ASSUME NEW p, SoundPlan(p)
  PROVE  /\ p.from \in Path /\ p.from # Nowhere /\ p.to \in Path /\ p.to # Nowhere
         /\ p.file \in BOOLEAN
         /\ \A q \in Path : IsPrefix(p.to, q) => Watched(q)
         /\ \A r \in Roots : ~IsPrefix(p.from, r) /\ ~IsPrefix(p.to, r)
<1>1. p.from \in Path /\ p.to \in Path /\ p.file \in BOOLEAN /\ Watched(p.from) /\ Watched(p.to)
  BY DEF SoundPlan, Plan
<1>2. QED
  BY <1>1, BelowRoots

\* Apart: neither place is inside the other.
Apart(p) == ~IsPrefix(p.from, p.to) /\ ~IsPrefix(p.to, p.from)

\* What lies under the one place does not lie under the other.
LEMMA NotBoth ==
  ASSUME NEW p, SoundPlan(p), Apart(p), NEW q \in Path
  PROVE  ~(IsPrefix(p.from, q) /\ IsPrefix(p.to, q))
BY PlanPaths, PrefixOrder DEF Apart

\* A disk e on which each book's file of d is where it was, or where the move
\* takes it, still has a home for each book, and one outside of what is moved.
LEMMA HomesMove ==
  ASSUME NEW d, Tree(d), Shelved(d), NEW plan, SoundPlan(plan), Apart(plan),
         plan.from \in DOMAIN d, d[plan.from] = Folder <=> ~plan.file,
         NEW e, Tree(e),
         \A b \in Books : \A n \in Parts[b] : \A q \in DOMAIN d : d[q] = <<b, n>> =>
           IF IsPrefix(plan.from, q)
           THEN Rebase(q, plan.from, plan.to) \in DOMAIN e
                  /\ e[Rebase(q, plan.from, plan.to)] = <<b, n>>
           ELSE q \in DOMAIN e /\ e[q] = <<b, n>>
  PROVE  \A b \in Books : \E p \in Homes(e, b) :
           \A n \in Parts[b] : ~IsPrefix(plan.from, Append(p, n))
<1> DEFINE from == plan.from
           to == plan.to
<1>1. from \in Path /\ from # Nowhere /\ to \in Path /\ to # Nowhere /\ plan.file \in BOOLEAN
  BY PlanPaths
<1> SUFFICES ASSUME NEW b \in Books
             PROVE  \E p \in Homes(e, b) : \A n \in Parts[b] : ~IsPrefix(from, Append(p, n))
  OBVIOUS
<1>2. PICK p : p \in Homes(d, b)
  BY DEF Shelved
<1>3. /\ p \in Path /\ p # Nowhere /\ (p \in Roots \/ Watched(p)) /\ Parts[b] # {}
      /\ \A n \in Parts[b] : /\ n \in STRING /\ Append(p, n) \in Path
                             /\ Append(p, n) \in DOMAIN d /\ d[Append(p, n)] = <<b, n>>
                             /\ Watched(Append(p, n))
  BY <1>2, AtHome
<1>4. CASE IsPrefix(from, p)
  <2> DEFINE r == Rebase(p, from, to)
  <2>1. r \in Path /\ IsPrefix(to, r)
    BY <1>1, <1>3, <1>4, Rebased
  <2>2. ASSUME NEW n \in Parts[b]
        PROVE  /\ Append(r, n) \in DOMAIN e /\ e[Append(r, n)] = <<b, n>>
               /\ ~IsPrefix(from, Append(r, n))
    <3>1. n \in STRING /\ Append(p, n) \in DOMAIN d /\ d[Append(p, n)] = <<b, n>>
          /\ Append(p, n) \in Path
      BY <1>3
    <3>2. IsPrefix(from, Append(p, n))
      BY <1>1, <1>3, <1>4, <3>1, InFolder
    <3>3. Rebase(Append(p, n), from, to) = Append(r, n)
      BY <1>1, <1>3, <1>4, <3>1, RebasedNames
    <3>4. Append(r, n) \in DOMAIN e /\ e[Append(r, n)] = <<b, n>>
      BY <3>1, <3>2, <3>3
    <3>5. Append(r, n) \in Path /\ IsPrefix(to, Append(r, n))
      <4>1. n \in STRING
        BY <3>1
      <4>2. QED
        BY <1>1, <2>1, <4>1, InFolder
    <3>6. QED
      BY <3>4, <3>5, NotBoth
  <2> HIDE DEF r
  <2>3. r # Nowhere
    <3>1. IsPrefix(to, r) => Watched(r)
      BY <2>1, PlanPaths
    <3>2. QED
      BY <2>1, <3>1, BelowRoots
  <2>4. r \in Homes(e, b)
    BY <2>1, <2>2, <2>3, HomeThere
  <2>5. QED
    BY <2>2, <2>4
<1>5. CASE ~IsPrefix(from, p) /\ \E n \in Parts[b] : Append(p, n) = from
  <2>1. PICK n \in Parts[b] : Append(p, n) = from
    BY <1>5
  <2>2. n \in STRING /\ d[from] = <<b, n>> /\ Parent(from) = p /\ Last(from) = n
    <3>1. n \in STRING /\ d[from] = <<b, n>>
      BY <1>3, <2>1
    <3>2. Parent(Append(p, n)) = p /\ Last(Append(p, n)) = n
      BY <1>3, <3>1, InFolder
    <3>3. QED
      BY <2>1, <3>1, <3>2
  <2>3. plan.file
    BY <1>1, <2>2, Contents
  <2>4. p \in Roots /\ Watched(Parent(to)) /\ Last(to) = n
    BY <2>2, <2>3 DEF SoundPlan
  <2>5. Parts[b] = {n}
    BY <1>2, <2>1, <2>4 DEF Shelved
  <2>6. Parent(to) \in Path /\ to = Append(Parent(to), n)
    BY <1>1, <2>4, ParentOf
  <2>7. Parent(to) # Nowhere
    BY <2>4, <2>6, BelowRoots
  <2>8. Rebase(from, from, to) = to /\ IsPrefix(from, from)
    BY <1>1, RebasedNames, PrefixOrder
  <2>9. to \in DOMAIN e /\ e[to] = <<b, n>>
    BY <2>2, <2>8
  <2>10. Parent(to) \in Homes(e, b)
    BY <2>5, <2>6, <2>7, <2>9, HomeThere
  <2>11. \A m \in Parts[b] : ~IsPrefix(from, Append(Parent(to), m))
    BY <2>5, <2>6 DEF Apart
  <2>12. QED
    BY <2>10, <2>11
<1>6. CASE ~IsPrefix(from, p) /\ ~\E n \in Parts[b] : Append(p, n) = from
  <2>1. \A n \in Parts[b] : ~IsPrefix(from, Append(p, n))
    BY <1>1, <1>3, <1>6, InFolder
  <2>2. \A n \in Parts[b] : Append(p, n) \in DOMAIN e /\ e[Append(p, n)] = <<b, n>>
    BY <1>3, <2>1
  <2>3. p \in Homes(e, b)
    BY <1>3, <2>2, HomeThere
  <2>4. QED
    BY <2>1, <2>3
<1>7. QED
  BY <1>4, <1>5, <1>6

\* What is moved is put below a folder of its own.
LEMMA NewPlace ==
  ASSUME NEW d, Tree(d), NEW plan, SoundPlan(plan),
         plan.from \in DOMAIN d, d[plan.from] = Folder <=> ~plan.file,
         NEW x \in DOMAIN d, IsPrefix(plan.from, x), d[x] # Folder
  PROVE  LET y == Rebase(x, plan.from, plan.to) IN
         /\ y \in Path /\ IsPrefix(plan.to, y) /\ Watched(y) /\ Parent(y) \notin Roots
<1> DEFINE from == plan.from
           to == plan.to
           y == Rebase(x, from, to)
<1>1. from \in Path /\ from # Nowhere /\ to \in Path /\ to # Nowhere /\ plan.file \in BOOLEAN
      /\ x \in Path /\ x # Nowhere
  BY PlanPaths DEF Tree
<1>2. y \in Path /\ IsPrefix(to, y)
  BY <1>1, Rebased
<1>3. Watched(y)
  BY <1>2, PlanPaths
<1>4. Parent(y) \notin Roots
  <2>1. CASE x = from
    <3>1. plan.file /\ y = to
      BY <1>1, <2>1, RebasedNames
    <3>2. Watched(Parent(to)) /\ Parent(to) \in Path
      BY <1>1, <3>1, ParentOf DEF SoundPlan
    <3>3. QED
      BY <3>1, <3>2, BelowRoots
  <2>2. CASE x # from
    <3> DEFINE p == Parent(x)
               n == Last(x)
    <3>1. p \in Path /\ n \in STRING /\ x = Append(p, n)
      BY <1>1, ParentOf
    <3> HIDE DEF p, n
    <3>2. IsPrefix(from, p)
      BY <1>1, <2>2, <3>1, InFolder
    <3>3. y = Append(Rebase(p, from, to), n)
      BY <1>1, <3>1, <3>2, RebasedNames
    <3>4. Rebase(p, from, to) \in Path /\ IsPrefix(to, Rebase(p, from, to))
      BY <1>1, <3>1, <3>2, Rebased
    <3>5. Parent(y) = Rebase(p, from, to)
      BY <3>1, <3>3, <3>4, InFolder
    <3>6. QED
      BY <3>4, <3>5, PlanPaths
  <2>3. QED
    BY <2>1, <2>2
<1>5. QED
  BY <1>2, <1>3, <1>4

--------------------------------------------------------------------------------
(***************************************************************************)
(* The invariant: where AudiobookShelf has the books, what is planned,     *)
(* what is on the disk, and what the move at hand relies on.               *)
(***************************************************************************)
ServerInv ==
  \A b \in Books : /\ server[b].at \in Path /\ Watched(server[b].at) /\ server[b].loose \in BOOLEAN
                   /\ server[b].loose => Parent(server[b].at) \in Roots

SoundPlans(f) == DOMAIN f \subseteq Books /\ \A b \in DOMAIN f : SoundPlan(f[b])

Moving == {"checked", "made", "copying", "removing", "pruning"}

PlansInv ==
  /\ IsRun(run) /\ SoundPlans(kept) /\ SoundPlans(run.plans) /\ run.todo \in Seq(DOMAIN run.plans)
  /\ run.phase \in Moving => run.todo # <<>>
  /\ run.phase \in {"next", "checked", "made", "pruning"} => run.copied = {}

Lies(d, s) == \E p \in DOMAIN d : d[p] = <<s>>

DiskInv ==
  /\ Tree(disk) /\ Shelved(disk) /\ RootsStay
  /\ DOMAIN hand = DOMAIN Strangers
  /\ \A s \in DOMAIN Strangers : hand[s] = "put" => Lies(disk, s)

\* What a move may write over: a folder, or a file that came in its way.
Slight(what, h) == what = Folder \/ \E s \in DOMAIN Strangers : what = <<s>> /\ h[s] = "in the way"

\* What is moved is there, and is what the plan says it is.
FromInv ==
  run.phase \in {"checked", "made", "copying"} =>
    Now.from \in DOMAIN disk /\ (disk[Now.from] = Folder <=> ~Now.file)

\* It is not in its own target; nothing that counts is at the target yet; the
\* folders the target is in are there once they have been made.
ToInv ==
  /\ run.phase \in {"checked", "made", "copying", "removing"} => ~IsPrefix(Now.to, Now.from)
  /\ run.phase \in {"checked", "made"} => \A p \in Under(disk, Now.to) : Slight(disk[p], hand)
  /\ run.phase \in {"made", "copying"} =>
       \A q \in Ancestors(Now.to) : q \in DOMAIN disk /\ disk[q] = Folder

\* What was copied is at the target as it is at the source; nothing else that counts
\* is at the target, and nothing that came to the source since counts.
CopyInv ==
  run.phase = "copying" =>
    /\ ~IsPrefix(Now.from, Now.to)
    /\ \A q \in run.copied : /\ q \in Under(disk, Now.from)
                             /\ Rebase(q, Now.from, Now.to) \in DOMAIN disk
                             /\ disk[Rebase(q, Now.from, Now.to)] = disk[q]
    /\ \A p \in Under(disk, Now.to) : \/ Slight(disk[p], hand)
                                      \/ \E q \in run.copied : p = Rebase(q, Now.from, Now.to)
    /\ \A p \in Under(disk, Now.from) \ run.due : Slight(disk[p], hand)

\* While the source is removed, every book is at home elsewhere.
RemoveInv ==
  run.phase = "removing" =>
    /\ Parent(Now.from) \in DOMAIN disk /\ disk[Parent(Now.from)] = Folder
    /\ \A b \in Books : \E p \in Homes(disk, b) : \A n \in Parts[b] : ~IsPrefix(Now.from, Append(p, n))
    /\ \A s \in DOMAIN Strangers : hand[s] = "put" =>
         \E p \in DOMAIN disk : disk[p] = <<s>> /\ ~IsPrefix(Now.from, p)

\* What is tidied up next is a folder.
PruneInv ==
  run.phase = "pruning" => run.dir = Nowhere \/ (run.dir \in DOMAIN disk /\ disk[run.dir] = Folder)

StepInv == FromInv /\ ToInv /\ CopyInv /\ RemoveInv /\ PruneInv
SoundInv == ServerInv /\ PlansInv /\ DiskInv /\ StepInv

--------------------------------------------------------------------------------
(***************************************************************************)
(* The disk to begin with.                                                 *)
(***************************************************************************)
LEMMA FirstTree ==
  /\ Roots \subseteq FirstFolders
  /\ \A p \in FirstFolders : p \in Path \ {Nowhere} /\ Ancestors(p) \subseteq FirstFolders
  /\ \A b \in Books : Ancestors(First[b]) \subseteq FirstFolders
  /\ \A b \in Books : First[b] \notin FirstFolders => Parent(First[b]) \in Roots
<1> DEFINE named == Roots \cup Mounts \cup
                      {First[b] : b \in {b \in Books : Parent(First[b]) \notin Roots \/ Last(First[b]) \notin Parts[b]}}
           all == named \cup {First[b] : b \in Books}
<1>1. FirstFolders = named \cup UNION {Ancestors(p) : p \in all}
  BY DEF FirstFolders
<1>2. \A b \in Books : First[b] \in Path /\ First[b] # Nowhere
  <2>1. \A b \in Books : First[b] \in Path /\ Watched(First[b])
    BY OrganizeAssumption DEF Watched
  <2>2. QED
    BY <2>1, BelowRoots
<1>3. \A p \in all : p \in Path \ {Nowhere}
  BY <1>2, OrganizeAssumption
<1>4. \A b \in Books : Ancestors(First[b]) \subseteq FirstFolders
  BY <1>1
<1>5. \A b \in Books : First[b] \notin FirstFolders => Parent(First[b]) \in Roots
  BY <1>1
<1>6. Roots \subseteq FirstFolders
  BY <1>1
<1>7. \A p \in FirstFolders : p \in all \/ \E q \in all : p \in Ancestors(q)
  BY <1>1
<1>8. \A q \in all : Ancestors(q) \subseteq FirstFolders
  BY <1>1
<1> HIDE DEF all, named
<1>9. ASSUME NEW p \in FirstFolders
      PROVE  p \in Path \ {Nowhere} /\ Ancestors(p) \subseteq FirstFolders
  <2>1. CASE p \in all
    BY <1>3, <1>8, <2>1
  <2>2. ASSUME NEW q \in all, p \in Ancestors(q)
        PROVE  p \in Path \ {Nowhere} /\ Ancestors(p) \subseteq FirstFolders
    <3>1. q \in Path /\ p \in Path /\ p # Nowhere /\ IsPrefix(p, q) /\ p # q
      BY <1>3, <2>2, AncestorsOf
    <3>2. ASSUME NEW a \in Ancestors(p) PROVE a \in Ancestors(q)
      <4>1. a \in Path /\ a # Nowhere /\ IsPrefix(a, p) /\ a # p
        BY <3>1, <3>2, AncestorsOf
      <4>2. IsPrefix(a, q) /\ a # q
        BY <3>1, <4>1, PrefixOrder
      <4>3. QED
        BY <3>1, <4>1, <4>2, AncestorsOf
    <3>3. QED
      BY <1>8, <3>1, <3>2
  <2>3. QED
    BY <1>7, <2>1, <2>2
<1>10. QED
  BY <1>4, <1>5, <1>6, <1>9

\* The folder a book is in to begin with.
LEMMA FirstHome ==
  ASSUME NEW b \in Books
  PROVE  LET p == IF First[b] \in FirstFolders THEN First[b] ELSE Parent(First[b]) IN
         /\ p \in FirstFolders /\ p \in Path /\ p # Nowhere
         /\ FirstFiles(b) = {Append(p, n) : n \in Parts[b]}
         /\ Watched(First[b]) /\ First[b] \in Path
         /\ \A n \in Parts[b] : n \in STRING /\ Watched(Append(p, n))
         /\ First[b] \notin FirstFolders => /\ Parts[b] = {Last(First[b])}
                                            /\ First[b] = Append(p, Last(First[b]))
<1> DEFINE p == IF First[b] \in FirstFolders THEN First[b] ELSE Parent(First[b])
<1>1. First[b] \in Path /\ Watched(First[b]) /\ Parts[b] \subseteq STRING
  BY OrganizeAssumption DEF Watched
<1>2. p \in FirstFolders
  BY <1>1, FirstTree
<1>3. p \in Path /\ p # Nowhere
  BY <1>2, FirstTree
<1>4. First[b] # Nowhere
  BY <1>1, BelowRoots
<1>5. First[b] \notin FirstFolders => /\ Parts[b] = {Last(First[b])}
                                      /\ First[b] = Append(p, Last(First[b]))
  BY <1>1, <1>4, ParentOf, OrganizeAssumption
<1>6. ASSUME NEW n \in Parts[b] PROVE n \in STRING /\ Watched(Append(p, n))
  <2>1. n \in STRING
    BY <1>1
  <2>2. CASE First[b] \in FirstFolders
    <3>1. Append(First[b], n) \in Path /\ IsPrefix(First[b], Append(First[b], n))
      BY <1>1, <2>1, InFolder
    <3>2. QED
      BY <1>1, <2>1, <2>2, <3>1, BelowRoots
  <2>3. CASE First[b] \notin FirstFolders
    BY <1>1, <1>5, <2>1, <2>3
  <2>4. QED
    BY <2>2, <2>3
<1>7. FirstFiles(b) = {Append(p, n) : n \in Parts[b]}
  BY DEF FirstFiles
<1>8. QED
  BY <1>1, <1>2, <1>3, <1>5, <1>6, <1>7

LEMMA InitDisk ==
  ASSUME Init
  PROVE  /\ Tree(disk) /\ Shelved(disk) /\ RootsStay
         /\ \A b \in Books : First[b] \in FirstFolders => disk[First[b]] = Folder
<1> DEFINE files == UNION {FirstFiles(b) : b \in Books}
<1>1. /\ DOMAIN disk = FirstFolders \cup files
      /\ \A p \in FirstFolders : disk[p] = Folder
      /\ \A p \in files : p \notin FirstFolders =>
           disk[p] = <<CHOOSE b \in Books : p \in FirstFiles(b), Last(p)>>
  BY DEF Init
<1>2. \A b \in Books : FirstFiles(b) \cap FirstFolders = {}
                       /\ \A c \in Books \ {b} : FirstFiles(b) \cap FirstFiles(c) = {}
  BY OrganizeAssumption
<1>3. ASSUME NEW b \in Books, NEW p \in FirstFiles(b)
      PROVE  p \in DOMAIN disk /\ disk[p] = <<b, Last(p)>>
  <2>1. p \in files /\ p \notin FirstFolders
    BY <1>2, <1>3
  <2>2. (CHOOSE c \in Books : p \in FirstFiles(c)) = b
    BY <1>2, <1>3
  <2>3. QED
    BY <1>1, <2>1, <2>2
<1>4. ASSUME NEW p \in DOMAIN disk, disk[p] # Folder
      PROVE  \E b \in Books : p \in FirstFiles(b)
  BY <1>1, <1>4
<1>5. ASSUME NEW b \in Books, NEW p \in FirstFiles(b)
      PROVE  /\ p \in Path \ {Nowhere} /\ Watched(p)
             /\ Ancestors(p) \subseteq FirstFolders
             /\ \E n \in Parts[b] : Last(p) = n
  <2> DEFINE h == IF First[b] \in FirstFolders THEN First[b] ELSE Parent(First[b])
  <2>1. /\ h \in FirstFolders /\ h \in Path /\ h # Nowhere
        /\ FirstFiles(b) = {Append(h, n) : n \in Parts[b]}
        /\ \A n \in Parts[b] : n \in STRING /\ Watched(Append(h, n))
    BY FirstHome
  <2> HIDE DEF h
  <2>2. PICK n \in Parts[b] : p = Append(h, n)
    BY <1>5, <2>1
  <2>3. n \in STRING /\ Watched(p)
    BY <2>1, <2>2
  <2>4. p \in Path /\ p # Nowhere /\ Last(p) = n /\ \A q \in Path : IsPrefix(q, p) <=> q = p \/ IsPrefix(q, h)
    BY <2>1, <2>2, <2>3, InFolder
  <2>5. ASSUME NEW a \in Ancestors(p) PROVE a \in FirstFolders
    <3>1. a \in Path /\ a # Nowhere /\ IsPrefix(a, p) /\ a # p
      BY <2>4, <2>5, AncestorsOf
    <3>2. IsPrefix(a, h)
      BY <2>4, <3>1
    <3>3. a = h \/ a \in Ancestors(h)
      BY <2>1, <3>1, <3>2, AncestorsOf
    <3>4. QED
      BY <2>1, <3>3, FirstTree
  <2>6. QED
    BY <2>3, <2>4, <2>5
<1>6. ASSUME NEW p \in DOMAIN disk
      PROVE  /\ p \in Path \ {Nowhere} /\ Ancestors(p) \subseteq FirstFolders
  <2>1. CASE p \in FirstFolders
    BY <2>1, FirstTree
  <2>2. CASE p \notin FirstFolders
    <3>1. PICK b \in Books : p \in FirstFiles(b)
      BY <1>1, <2>2
    <3>2. QED
      BY <1>5, <3>1
  <2>3. QED
    BY <2>1, <2>2
<1>7. Tree(disk)
  BY <1>1, <1>6 DEF Tree
<1>8. RootsStay
  BY <1>1, FirstTree DEF RootsStay
<1>9. ASSUME NEW b \in Books
      PROVE  /\ Homes(disk, b) # {}
             /\ \A p \in DOMAIN disk : \A n \in Parts[b] : disk[p] = <<b, n>> => Watched(p)
             /\ \A r \in Roots : r \in Homes(disk, b) => \E n \in Parts[b] : Parts[b] = {n}
  <2> DEFINE h == IF First[b] \in FirstFolders THEN First[b] ELSE Parent(First[b])
  <2>1. /\ h \in FirstFolders /\ h \in Path /\ h # Nowhere
        /\ FirstFiles(b) = {Append(h, n) : n \in Parts[b]}
        /\ Watched(First[b]) /\ First[b] \in Path
        /\ \A n \in Parts[b] : n \in STRING /\ Watched(Append(h, n))
        /\ First[b] \notin FirstFolders => Parts[b] = {Last(First[b])}
    BY FirstHome
  <2>2. First[b] \in FirstFolders => h = First[b]
    OBVIOUS
  <2> HIDE DEF h
  <2>3. ASSUME NEW n \in Parts[b]
        PROVE  Append(h, n) \in DOMAIN disk /\ disk[Append(h, n)] = <<b, n>>
    <3>1. Append(h, n) \in FirstFiles(b) /\ n \in STRING
      BY <2>1
    <3>2. Last(Append(h, n)) = n
      BY <2>1, <3>1, InFolder
    <3>3. QED
      BY <1>3, <3>1, <3>2
  <2>4. h \in Homes(disk, b)
    BY <1>7, <2>1, <2>3, HomeThere
  <2>5. ASSUME NEW p \in DOMAIN disk, NEW n \in Parts[b], disk[p] = <<b, n>>
        PROVE  p \in FirstFiles(b)
    <3>1. PICK c \in Books : p \in FirstFiles(c)
      BY <1>4, <2>5, Contents
    <3>2. disk[p] = <<c, Last(p)>>
      BY <1>3, <3>1
    <3>3. b = c
      BY <2>5, <3>2, Contents
    <3>4. QED
      BY <3>1, <3>3
  <2>6. ASSUME NEW r \in Roots, r \in Homes(disk, b) PROVE \E n \in Parts[b] : Parts[b] = {n}
    <3>1. PICK n \in Parts[b] : n \in STRING
      BY OrganizeAssumption
    <3>2. r \in Path /\ Append(r, n) \in FirstFiles(b)
      <4>1. r \in Path
        BY OrganizeAssumption
      <4>2. Append(r, n) \in DOMAIN disk /\ disk[Append(r, n)] = <<b, n>>
        BY <2>6 DEF Homes, WholeIn
      <4>3. QED
        BY <2>5, <4>1, <4>2
    <3>3. PICK m \in Parts[b] : Append(r, n) = Append(h, m)
      BY <2>1, <3>2
    <3>4. m \in STRING
      BY <2>1
    <3>5. r = h
      <4>1. Parent(Append(r, n)) = r
        BY <3>1, <3>2, InFolder
      <4>2. Parent(Append(h, m)) = h
        BY <2>1, <3>4, InFolder
      <4>3. QED
        BY <3>3, <4>1, <4>2
    <3>6. First[b] \notin FirstFolders
      BY <2>1, <2>2, <2>6, <3>5, BelowRoots
    <3>7. QED
      BY <2>1, <3>6
  <2>7. QED
    BY <1>5, <2>4, <2>5, <2>6
<1>10. Shelved(disk)
  BY <1>9 DEF Shelved
<1>11. QED
  BY <1>1, <1>7, <1>8, <1>10

LEMMA InitSound == Init => SoundInv
<1> SUFFICES ASSUME Init PROVE SoundInv
  OBVIOUS
<1>1. Tree(disk) /\ Shelved(disk) /\ RootsStay
  BY InitDisk
<1>2. run = Idle /\ kept = NoPlans /\ hand = [s \in DOMAIN Strangers |-> "away"]
      /\ server = [b \in Books |-> [at |-> First[b], loose |-> disk[First[b]] # Folder]]
  BY DEF Init
<1>3. ServerInv
  <2> SUFFICES ASSUME NEW b \in Books
               PROVE  /\ First[b] \in Path /\ Watched(First[b])
                      /\ disk[First[b]] # Folder => Parent(First[b]) \in Roots
    BY <1>2 DEF ServerInv
  <2>1. QED
    BY FirstHome, FirstTree, InitDisk
<1>4. PlansInv
  <2>1. IsRun(run) /\ run.phase = "idle" /\ run.plans = NoPlans /\ run.todo = <<>>
    BY <1>2, IdleRun DEF Idle
  <2>2. DOMAIN NoPlans = {}
    BY DEF NoPlans
  <2>3. SoundPlans(NoPlans)
    BY <2>2 DEF SoundPlans
  <2>4. <<>> \in Seq(DOMAIN run.plans)
    BY EmptySeq
  <2>5. QED
    BY <1>2, <2>1, <2>3, <2>4 DEF PlansInv, Moving
<1>5. DiskInv
  BY <1>1, <1>2 DEF DiskInv
<1>6. StepInv
  BY <1>2, IdleRun DEF StepInv, FromInv, ToInv, CopyInv, RemoveInv, PruneInv
<1>7. QED
  BY <1>3, <1>4, <1>5, <1>6 DEF SoundInv

--------------------------------------------------------------------------------
(***************************************************************************)
(* A run begins, and ends.                                                 *)
(***************************************************************************)
\* Between two moves nothing is relied on.
LEMMA AtRest ==
  ASSUME SoundInv, UNCHANGED <<disk, server, hand>>, PlansInv', run'.phase \notin Moving
  PROVE  SoundInv'
<1>1. ServerInv' /\ DiskInv'
  BY DEF SoundInv, ServerInv, DiskInv, RootsStay, Slight, Lies
<1>2. StepInv'
  BY DEF StepInv, FromInv, ToInv, CopyInv, RemoveInv, PruneInv, Moving
<1>3. QED
  BY <1>1, <1>2 DEF SoundInv

\* Plans in some order.
LEMMA InOrder ==
  ASSUME NEW S, S \subseteq Books PROVE SetToSeq(S) \in Seq(S)
<1>1. IsFiniteSet(S)
  BY OrganizeAssumption, FS_Subset
<1>2. ExistsBijection(1 .. Cardinality(S), S)
  BY <1>1, FS_CardinalityType
<1>3. \E f \in [1 .. Cardinality(S) -> S] : IsInjective(f)
  BY <1>2 DEF ExistsBijection, Bijection, Injection
<1>4. SetToSeq(S) \in [1 .. Cardinality(S) -> S]
  BY <1>3 DEF SetToSeq
<1>5. Cardinality(S) \in Nat
  BY <1>1, FS_CardinalityType
<1>6. QED
  BY <1>4, <1>5

\* The place a template names below a watched folder.
LEMMA TargetPath ==
  ASSUME NEW r \in Roots, NEW l \in Path, l # Nowhere, NEW n \in STRING
  PROVE  /\ r \o l \in Path /\ Watched(r \o l) /\ (r \o l) \o <<>> = r \o l
         /\ (r \o l) \o <<n>> = Append(r \o l, n)
<1>1. r \in Path /\ Len(r) \in Nat /\ Len(l) \in Nat /\ Len(l) >= 1
  BY PathParts, OrganizeAssumption
<1>2. /\ r \o l \in Path /\ Len(r \o l) = Len(r) + Len(l)
      /\ \A i \in 1 .. Len(r) : (r \o l)[i] = r[i]
  BY <1>1, ConcatProperties DEF Path
<1>3. Len(r) <= Len(r \o l) /\ Len(r) # Len(r \o l)
  BY <1>1, <1>2
<1>4. IsPrefix(r, r \o l)
  BY <1>1, <1>2, <1>3, PrefixParts
<1>5. Watched(r \o l)
  BY <1>3, <1>4 DEF Watched, IsStrictPrefix
<1>6. (r \o l) \o <<>> = r \o l /\ (r \o l) \o <<n>> = Append(r \o l, n)
  BY <1>2, ConcatEmptySeq, AppendIsConcat DEF Path
<1>7. QED
  BY <1>2, <1>5, <1>6

\* A listing plans what is sound.
LEMMA ListedPlans ==
  ASSUME ServerInv, NEW r, IsRun(r), NEW unread
  PROVE  LET l == Listed(r, unread) IN
         /\ IsRun(l) /\ l.phase = r.phase /\ l.copied = r.copied
         /\ SoundPlans(l.plans) /\ l.todo \in Seq(DOMAIN l.plans)
<1> DEFINE l == Listed(r, unread)
           layout(b) == Layout[b \notin unread][b]
           rows == [b \in Books |-> CodeOf(r, b, layout(b), server[b])]
           due == {b \in Books : rows[b] = "planned"}
           plan(b) == [from |-> server[b].at, to |-> Target(b, layout(b), server[b]),
                       root |-> Root[b], file |-> server[b].loose]
<1>1. IsRun(l) /\ l.phase = r.phase
  BY ListedRun
<1>2. l.copied = r.copied /\ l.todo = SetToSeq(due) /\ l.plans = [b \in due |-> plan(b)]
  BY DEF Listed, IsRun, Fields
<1>3. due \subseteq Books
  OBVIOUS
<1>4. ASSUME NEW b \in due PROVE SoundPlan(plan(b))
  <2>1. b \in Books /\ CodeOf(r, b, layout(b), server[b]) = "planned"
    BY <1>4
  <2>2. layout(b) # Nowhere
    BY <2>1 DEF CodeOf
  <2>3. layout(b) \in Path /\ Root[b] \in Roots
    BY <2>1, OrganizeAssumption
  <2>4. /\ server[b].at \in Path /\ Watched(server[b].at) /\ server[b].loose \in BOOLEAN
        /\ server[b].loose => Parent(server[b].at) \in Roots
    BY <2>1 DEF ServerInv
  <2>5. server[b].at # Nowhere
    BY <2>4, BelowRoots
  <2> DEFINE folder == Root[b] \o layout(b)
             n == Last(server[b].at)
             to == Target(b, layout(b), server[b])
  <2>6. n \in STRING
    BY <2>4, <2>5, ParentOf
  <2>7. /\ folder \in Path /\ Watched(folder) /\ folder \o <<>> = folder
        /\ folder \o <<n>> = Append(folder, n)
    BY <2>2, <2>3, <2>6, TargetPath
  <2>8. to = IF server[b].loose THEN folder \o <<n>> ELSE folder \o <<>>
    BY DEF Target
  <2> HIDE DEF layout, folder, n, to
  <2>9. /\ to \in Path /\ Watched(to)
        /\ server[b].loose => Watched(Parent(to)) /\ Last(to) = n
    <3>1. CASE server[b].loose
      <4>1. to = Append(folder, n)
        BY <2>7, <2>8, <3>1
      <4>2. to \in Path /\ Parent(to) = folder /\ Last(to) = n /\ IsPrefix(folder, to)
        BY <2>6, <2>7, <4>1, InFolder
      <4>3. QED
        BY <2>7, <4>2, BelowRoots
    <3>2. CASE ~server[b].loose
      BY <2>7, <2>8, <3>2
    <3>3. QED
      BY <3>1, <3>2
  <2>10. PICK p : p = plan(b)
    OBVIOUS
  <2>11. p = [from |-> server[b].at, to |-> to, root |-> Root[b], file |-> server[b].loose]
    BY <2>10 DEF to
  <2> HIDE DEF plan
  <2>12. p \in Plan
    <3>1. Root[b] \in Path
      BY <2>3, OrganizeAssumption
    <3>2. QED
      BY <2>4, <2>9, <2>11, <3>1 DEF Plan
  <2>13. SoundPlan(p)
    <3>1. p.from = server[b].at /\ p.to = to /\ p.root = Root[b] /\ p.file = server[b].loose
      BY <2>11
    <3>2. QED
      BY <2>3, <2>4, <2>9, <2>12, <3>1 DEF SoundPlan, n
  <2>14. QED
    BY <2>10, <2>13
<1> HIDE DEF due, plan
<1>5. SoundPlans(l.plans) /\ DOMAIN l.plans = due
  BY <1>2, <1>3, <1>4 DEF SoundPlans
<1>6. l.todo \in Seq(DOMAIN l.plans)
  BY <1>2, <1>3, <1>5, InOrder
<1>7. QED
  BY <1>1, <1>2, <1>5, <1>6

LEMMA StartSound == ASSUME SoundInv, NEW kind, Start(kind) PROVE SoundInv'
<1>1. PICK single \in BOOLEAN, noScan \in BOOLEAN, unread \in SUBSET Books :
        LET r == [Idle EXCEPT !.kind = kind, !.single = single, !.noScan = noScan, !.phase = "next"] IN
        run' = IF kind = "apply" THEN [r EXCEPT !.plans = kept, !.todo = SetToSeq(DOMAIN kept)]
               ELSE Listed(r, unread)
  BY DEF Start
<1> DEFINE r == [Idle EXCEPT !.kind = kind, !.single = single, !.noScan = noScan, !.phase = "next"]
<1>2. IsRun(r) /\ r.phase = "next" /\ r.copied = {}
  BY IdleRun DEF IsRun, Idle, Fields, NoRows
<1>3. UNCHANGED <<disk, server, kept, hand>> /\ ServerInv /\ PlansInv
  BY DEF Start, SoundInv
<1> HIDE DEF r
<1>4. /\ IsRun(run') /\ run'.phase = "next" /\ run'.copied = {}
      /\ SoundPlans(run'.plans) /\ run'.todo \in Seq(DOMAIN run'.plans)
  <2>1. CASE kind = "apply"
    <3>1. run' = [r EXCEPT !.plans = kept, !.todo = SetToSeq(DOMAIN kept)]
      BY <1>1, <2>1 DEF r
    <3>2. /\ DOMAIN run' = Fields /\ run'.phase = "next" /\ run'.rows = r.rows
          /\ run'.plans = kept /\ run'.todo = SetToSeq(DOMAIN kept) /\ run'.copied = {}
      BY <1>2, <3>1 DEF IsRun, Fields
    <3>3. SoundPlans(kept) /\ DOMAIN kept \subseteq Books
      BY <1>3 DEF PlansInv, SoundPlans
    <3>4. QED
      BY <1>2, <3>2, <3>3, InOrder DEF IsRun
  <2>2. CASE kind # "apply"
    <3>1. run' = Listed(r, unread)
      BY <1>1, <2>2 DEF r
    <3>2. QED
      BY <1>2, <1>3, <3>1, ListedPlans
  <2>3. QED
    BY <2>1, <2>2
<1>5. PlansInv'
  BY <1>3, <1>4 DEF PlansInv, Moving
<1>6. QED
  BY <1>3, <1>4, <1>5, AtRest DEF Moving

\* What is kept of a run's plans is sound.
LEMMA EndPlans ==
  ASSUME PlansInv, NEW r, IsRun(r), SoundPlans(r.plans), End(r)
  PROVE  PlansInv' /\ run'.phase \notin Moving
<1>1. CASE r.touched = {} \/ r.noScan
  <2>1. run' = [r EXCEPT !.phase = "returned", !.todo = <<>>] /\ kept' = Kept(r)
    BY <1>1 DEF End, Finish
  <2>2. /\ DOMAIN run' = Fields /\ run'.rows = r.rows /\ run'.plans = r.plans
        /\ run'.phase = "returned" /\ run'.todo = <<>>
    BY <2>1 DEF IsRun, Fields
  <2>3. SoundPlans(Kept(r))
    BY DEF Kept, SoundPlans
  <2>4. run'.todo \in Seq(DOMAIN run'.plans)
    BY <2>2, EmptySeq
  <2>5. QED
    BY <2>1, <2>2, <2>3, <2>4 DEF PlansInv, Moving, IsRun
<1>2. CASE ~(r.touched = {} \/ r.noScan)
  <2>1. run' = [r EXCEPT !.phase = "scanning", !.todo = <<>>] /\ kept' = kept
    BY <1>2 DEF End
  <2>2. /\ DOMAIN run' = Fields /\ run'.rows = r.rows /\ run'.plans = r.plans
        /\ run'.phase = "scanning" /\ run'.todo = <<>>
    BY <2>1 DEF IsRun, Fields
  <2>3. run'.todo \in Seq(DOMAIN run'.plans)
    BY <2>2, EmptySeq
  <2>4. QED
    BY <2>1, <2>2, <2>3 DEF PlansInv, Moving, IsRun
<1>3. QED
  BY <1>1, <1>2

\* A step that keeps to the plan at hand.
LEMMA PlansStay ==
  ASSUME PlansInv, IsRun(run)', kept' = kept, run'.plans = run.plans, run'.todo = run.todo,
         run'.phase \in Moving => run.todo # <<>>,
         run'.phase \in {"next", "checked", "made", "pruning"} => run'.copied = {}
  PROVE  PlansInv' /\ Now' = Now
BY DEF PlansInv, Now

\* The plan at hand.
LEMMA NowSound ==
  ASSUME PlansInv, run.todo # <<>>
  PROVE  /\ Head(run.todo) \in DOMAIN run.plans /\ SoundPlan(Now)
         /\ Tail(run.todo) \in Seq(DOMAIN run.plans)
<1>1. Head(run.todo) \in DOMAIN run.plans /\ Tail(run.todo) \in Seq(DOMAIN run.plans)
  BY HeadTailProperties DEF PlansInv
<1>2. QED
  BY <1>1 DEF PlansInv, SoundPlans, Now

\* The plan at hand is done with.
LEMMA PlansGoOn ==
  ASSUME PlansInv, IsRun(run)', kept' = kept, run.todo # <<>>, run'.plans = run.plans,
         run'.todo = Tail(run.todo), run'.phase = "next", run'.copied = {}
  PROVE  PlansInv'
BY NowSound DEF PlansInv, Moving

LEMMA NextPlanSound == ASSUME SoundInv, NextPlan PROVE SoundInv'
<1>1. /\ run.phase = "next" /\ UNCHANGED <<disk, server, hand>> /\ PlansInv /\ DiskInv
      /\ IsRun(run) /\ SoundPlans(run.plans) /\ run.copied = {}
  BY DEF NextPlan, Stays, SoundInv, PlansInv
<1>2. CASE run.todo = <<>> \/ run.kind = "plan"
  <2>1. End(run)
    BY <1>2 DEF NextPlan
  <2>2. QED
    BY <1>1, <2>1, EndPlans, AtRest
<1>3. CASE ~(run.todo = <<>> \/ run.kind = "plan") /\ run.abort
  <2>1. End(Marked(run))
    BY <1>3 DEF NextPlan
  <2>2. IsRun(Marked(run)) /\ Marked(run).plans = run.plans
    BY <1>1, MarkedRun DEF Marked, IsRun, Fields
  <2>3. QED
    BY <1>1, <2>1, <2>2, EndPlans, AtRest
<1>4. CASE ~(run.todo = <<>> \/ run.kind = "plan") /\ ~run.abort
  <2>1. /\ kept' = kept /\ run.todo # <<>>
        /\ \/ \E code : run' = Skip(run, code)
           \/ ~Blocked(disk, Now) /\ run' = [run EXCEPT !.phase = "checked"]
    BY <1>4 DEF NextPlan
  <2>2. ASSUME NEW code, run' = Skip(run, code) PROVE SoundInv'
    <3>1. IsRun(run)' /\ run'.phase = "next"
      BY <1>1, <2>2, SkipRun DEF IsRun
    <3>2. run'.plans = run.plans /\ run'.todo = Tail(run.todo) /\ run'.copied = {}
      BY <1>1, <2>2 DEF Skip, IsRun, Fields
    <3>3. PlansInv'
      BY <1>1, <2>1, <3>1, <3>2, PlansGoOn
    <3>4. QED
      BY <1>1, <3>1, <3>3, AtRest DEF Moving
  <2>3. CASE ~Blocked(disk, Now) /\ run' = [run EXCEPT !.phase = "checked"]
    <3>1. /\ DOMAIN run' = Fields /\ run'.rows = run.rows /\ run'.plans = run.plans
          /\ run'.todo = run.todo /\ run'.copied = {} /\ run'.phase = "checked"
      BY <1>1, <2>3 DEF IsRun, Fields
    <3>2. PlansInv' /\ Now' = Now
      BY <1>1, <2>1, <3>1, PlansStay DEF IsRun, Moving
    <3>3. SoundPlan(Now)
      BY <1>1, <2>1, NowSound
    <3>4. /\ Now.from \in Path /\ Now.from # Nowhere /\ Now.to \in Path /\ Now.to # Nowhere
          /\ Now.file \in BOOLEAN
      BY <3>3, PlanPaths
    <3>5. /\ Now.from \in DOMAIN disk /\ Now.to \notin DOMAIN disk
          /\ disk[Now.from] = Folder <=> ~Now.file
      BY <2>3, <3>4 DEF Blocked
    <3>6. \A p \in DOMAIN disk : ~IsPrefix(Now.to, p)
      BY <1>1, <3>4, <3>5, TreeFolders DEF DiskInv
    <3>7. FromInv' /\ ToInv'
      BY <1>1, <3>1, <3>2, <3>5, <3>6 DEF FromInv, ToInv, Under
    <3>8. CopyInv' /\ RemoveInv' /\ PruneInv'
      BY <3>1 DEF CopyInv, RemoveInv, PruneInv
    <3>9. ServerInv' /\ DiskInv'
      BY <1>1 DEF SoundInv, ServerInv, DiskInv, RootsStay, Lies
    <3>10. QED
      BY <3>2, <3>7, <3>8, <3>9 DEF SoundInv, StepInv
  <2>4. QED
    BY <2>1, <2>2, <2>3
<1>5. QED
  BY <1>2, <1>3, <1>4

--------------------------------------------------------------------------------
(***************************************************************************)
(* The calls to the filesystem.                                            *)
(***************************************************************************)
\* Where every file stays, every home does.
LEMMA HomesStay ==
  ASSUME NEW d, Tree(d), Shelved(d), NEW e, Tree(e),
         \A q \in DOMAIN d : d[q] # Folder => q \in DOMAIN e /\ e[q] = d[q],
         NEW b \in Books, NEW p \in Homes(d, b)
  PROVE  p \in Homes(e, b)
<1>1. /\ p \in Path /\ p # Nowhere
      /\ \A n \in Parts[b] : Append(p, n) \in DOMAIN d /\ d[Append(p, n)] = <<b, n>>
  BY AtHome
<1>2. \A n \in Parts[b] : Append(p, n) \in DOMAIN e /\ e[Append(p, n)] = <<b, n>>
  BY <1>1, Contents
<1>3. QED
  BY <1>1, <1>2, HomeThere

\* A step that moves no file of a book and removes none at all.
LEMMA DiskStays ==
  ASSUME DiskInv, Tree(disk'), Roots \subseteq DOMAIN disk', DOMAIN hand' = DOMAIN Strangers,
         \A q \in DOMAIN disk : disk[q] # Folder => q \in DOMAIN disk' /\ disk'[q] = disk[q],
         \A q \in DOMAIN disk' : \/ q \in DOMAIN disk /\ disk'[q] = disk[q]
                                 \/ disk'[q] = Folder \/ \E s : disk'[q] = <<s>>,
         \A s \in DOMAIN Strangers : hand'[s] = "put" => hand[s] = "put" \/ Lies(disk', s)
  PROVE  DiskInv'
<1>1. Tree(disk) /\ Shelved(disk)
  BY DEF DiskInv
<1>2. Shelved(disk')
  <2>1. \A b \in Books : Homes(disk', b) # {}
    <3>1. \A b \in Books : Homes(disk, b) # {}
      BY <1>1 DEF Shelved
    <3>2. QED
      BY <1>1, <3>1, HomesStay
  <2>2. ASSUME NEW b \in Books, NEW n \in Parts[b], NEW q \in DOMAIN disk', disk'[q] = <<b, n>>
        PROVE  q \in DOMAIN disk /\ disk[q] = <<b, n>>
    BY <2>2, Contents
  <2>3. QED
    BY <1>1, <2>1, <2>2, StillShelved
<1>3. ASSUME NEW s \in DOMAIN Strangers, hand'[s] = "put" PROVE Lies(disk', s)
  <2>1. CASE Lies(disk, s)
    <3>1. PICK q \in DOMAIN disk : disk[q] = <<s>>
      BY <2>1 DEF Lies
    <3>2. q \in DOMAIN disk' /\ disk'[q] = <<s>>
      BY <3>1, Contents
    <3>3. QED
      BY <3>2 DEF Lies
  <2>2. QED
    BY <1>3, <2>1 DEF DiskInv
<1>4. QED
  BY <1>2, <1>3 DEF DiskInv, RootsStay, Lies

LEMMA ThrowSound ==
  ASSUME SoundInv, Throw, UNCHANGED <<disk, server, kept, hand>> PROVE SoundInv'
<1>1. IsRun(run) /\ PlansInv /\ run' = [run EXCEPT !.phase = "threw"]
  BY DEF SoundInv, PlansInv, Throw
<1>2. /\ DOMAIN run' = Fields /\ run'.rows = run.rows /\ run'.plans = run.plans
      /\ run'.todo = run.todo /\ run'.phase = "threw"
  BY <1>1 DEF IsRun, Fields
<1>3. PlansInv'
  BY <1>1, <1>2, PlansStay DEF IsRun, Moving
<1>4. QED
  BY <1>2, <1>3, AtRest DEF Moving

LEMMA MakeFoldersSound == ASSUME SoundInv, MakeFolders PROVE SoundInv'
<1>1. /\ run.phase = "checked" /\ UNCHANGED <<server, hand, kept>>
      /\ IsRun(run) /\ PlansInv /\ DiskInv /\ ServerInv /\ FromInv /\ ToInv
      /\ run.copied = {} /\ run.todo # <<>>
  BY DEF MakeFolders, Stays, SoundInv, StepInv, PlansInv, Moving
<1>2. CASE Now.from \in DOMAIN disk /\ CanMake(disk, Now.to)
  <2>1. disk' = WithFolders(disk, Now.to) /\ run' = [run EXCEPT !.phase = "made"]
    BY <1>2 DEF MakeFolders
  <2>2. /\ DOMAIN run' = Fields /\ run'.rows = run.rows /\ run'.plans = run.plans
        /\ run'.todo = run.todo /\ run'.copied = {} /\ run'.phase = "made"
    BY <1>1, <2>1 DEF IsRun, Fields
  <2>3. PlansInv' /\ Now' = Now
    BY <1>1, <2>2, PlansStay DEF IsRun
  <2>4. SoundPlan(Now)
    BY <1>1, NowSound
  <2>5. /\ Now.from \in Path /\ Now.from # Nowhere /\ Now.to \in Path /\ Now.to # Nowhere
    BY <2>4, PlanPaths
  <2>6. /\ Tree(disk')
        /\ DOMAIN disk' = Ancestors(Now.to) \cup DOMAIN disk
        /\ \A q \in DOMAIN disk : disk'[q] = disk[q]
        /\ \A q \in DOMAIN disk' \ DOMAIN disk : disk'[q] = Folder
        /\ \A q \in Ancestors(Now.to) : disk'[q] = Folder
    <3>1. Tree(disk) /\ Now.to \in Path /\ CanMake(disk, Now.to)
      BY <1>1, <1>2, <2>5 DEF DiskInv
    <3>2. \A e : e = WithFolders(disk, Now.to) =>
            /\ Tree(e)
            /\ DOMAIN e = Ancestors(Now.to) \cup DOMAIN disk
            /\ \A q \in DOMAIN disk : e[q] = disk[q]
            /\ \A q \in DOMAIN e \ DOMAIN disk : e[q] = Folder
            /\ \A q \in Ancestors(Now.to) : e[q] = Folder
      BY <3>1, FoldersMade
    <3>3. QED
      BY <2>1, <3>2
  <2>7. DiskInv'
    BY <1>1, <2>6, DiskStays DEF DiskInv, RootsStay
  <2>8. FromInv'
    BY <1>1, <2>2, <2>3, <2>6 DEF FromInv
  <2>9. ToInv'
    <3>1. ASSUME NEW p \in Under(disk', Now.to) PROVE Slight(disk'[p], hand)
      <4>1. CASE p \in DOMAIN disk
        BY <1>1, <2>6, <3>1, <4>1 DEF ToInv, Under
      <4>2. CASE p \notin DOMAIN disk
        BY <2>6, <3>1, <4>2 DEF Under, Slight
      <4>3. QED
        BY <4>1, <4>2
    <3>2. QED
      BY <1>1, <2>2, <2>3, <2>6, <3>1 DEF ToInv, Slight
  <2>10. CopyInv' /\ RemoveInv' /\ PruneInv' /\ ServerInv'
    BY <1>1, <2>2 DEF CopyInv, RemoveInv, PruneInv, ServerInv
  <2>11. QED
    BY <2>3, <2>7, <2>8, <2>9, <2>10 DEF SoundInv, StepInv
<1>3. CASE ~(Now.from \in DOMAIN disk /\ CanMake(disk, Now.to))
  BY <1>1, <1>3, ThrowSound DEF MakeFolders
<1>4. QED
  BY <1>2, <1>3

\* No book's file may be written over, and no file of another hand put out of the way.
LEMMA NotSlight ==
  ASSUME NEW what, NEW h, Slight(what, h)
  PROVE  /\ \A b, n : what # <<b, n>>
         /\ \A s : what = <<s>> => h[s] = "in the way"
BY Contents DEF Slight

\* Where the folder of what is moved is.
LEMMA FolderOf ==
  ASSUME NEW d, Tree(d), NEW plan, SoundPlan(plan), ~IsPrefix(plan.to, plan.from),
         plan.from \in DOMAIN d
  PROVE  LET p == Parent(plan.from) IN
         /\ p \in DOMAIN d /\ d[p] = Folder /\ p \in Path
         /\ ~IsPrefix(plan.from, p) /\ ~IsPrefix(plan.to, p)
<1> DEFINE p == Parent(plan.from)
<1>1. plan.from \in Path /\ plan.from # Nowhere /\ plan.to \in Path /\ Watched(plan.from)
  BY PlanPaths DEF SoundPlan
<1>2. p \in Path /\ p # Nowhere /\ p # plan.from /\ IsPrefix(p, plan.from)
  BY <1>1, ParentOf, BelowRoots
<1> HIDE DEF p
<1>3. p \in DOMAIN d /\ d[p] = Folder
  BY <1>2, TreeFolders
<1>4. ~IsPrefix(plan.from, p)
  BY <1>1, <1>2, PrefixOrder
<1>5. ~IsPrefix(plan.to, p)
  BY <1>1, <1>2, PrefixOrder
<1>6. QED
  BY <1>2, <1>3, <1>4, <1>5 DEF p

\* What a rename leaves.
LEMMA RenameDisk ==
  ASSUME DiskInv, NEW plan, SoundPlan(plan), Apart(plan),
         plan.from \in DOMAIN disk, disk[plan.from] = Folder <=> ~plan.file,
         \A p \in Under(disk, plan.to) : Slight(disk[p], hand),
         \A q \in Ancestors(plan.to) : q \in DOMAIN disk /\ disk[q] = Folder,
         CanRename(disk, plan.from, plan.to), disk' = Renamed(disk, plan.from, plan.to),
         hand' = hand
  PROVE  /\ DiskInv'
         /\ Parent(plan.from) \in DOMAIN disk' /\ disk'[Parent(plan.from)] = Folder
<1> DEFINE from == plan.from
           to == plan.to
           R(q) == Rebase(q, from, to)
<1>1. PICK e : e = Renamed(disk, from, to)
  OBVIOUS
<1>2. from \in Path /\ from # Nowhere /\ to \in Path /\ to # Nowhere /\ plan.file \in BOOLEAN
  BY PlanPaths
<1>3. Tree(disk) /\ Shelved(disk) /\ Roots \subseteq DOMAIN disk
  BY DEF DiskInv, RootsStay
<1>4. /\ Tree(e)
      /\ \A q \in DOMAIN disk : ~IsPrefix(from, q) /\ ~IsPrefix(to, q) => q \in DOMAIN e /\ e[q] = disk[q]
      /\ \A q \in DOMAIN disk : IsPrefix(from, q) => R(q) \in DOMAIN e /\ e[R(q)] = disk[q]
      /\ \A q \in DOMAIN e :
              \/ q \in DOMAIN disk /\ ~IsPrefix(from, q) /\ ~IsPrefix(to, q)
              \/ \E x \in DOMAIN disk : IsPrefix(from, x) /\ q = R(x)
  BY <1>1, <1>2, <1>3, RenamedThere DEF Apart
<1> HIDE DEF R
<1>5. \A q \in DOMAIN disk : IsPrefix(to, q) => Slight(disk[q], hand)
  BY DEF Under
<1>6. \A b \in Books : Homes(e, b) # {}
  <2>1. ASSUME NEW b \in Books, NEW n \in Parts[b], NEW q \in DOMAIN disk, disk[q] = <<b, n>>
        PROVE  IF IsPrefix(from, q) THEN R(q) \in DOMAIN e /\ e[R(q)] = <<b, n>>
               ELSE q \in DOMAIN e /\ e[q] = <<b, n>>
    <3>1. ~IsPrefix(to, q)
      BY <1>5, <2>1, NotSlight
    <3>2. QED
      BY <1>4, <2>1, <3>1
  <2>2. \A b \in Books : \E p \in Homes(e, b) : \A n \in Parts[b] : ~IsPrefix(from, Append(p, n))
    BY <1>3, <1>4, <2>1, HomesMove DEF R
  <2>3. QED
    BY <2>2
<1>7. Shelved(e)
  <2>1. ASSUME NEW b \in Books, NEW n \in Parts[b], NEW q \in DOMAIN e, e[q] = <<b, n>>
        PROVE  \/ q \in DOMAIN disk /\ disk[q] = <<b, n>>
               \/ Watched(q) /\ Parent(q) \notin Roots
    <3>1. CASE q \in DOMAIN disk /\ ~IsPrefix(from, q) /\ ~IsPrefix(to, q)
      BY <1>4, <2>1, <3>1
    <3>2. ASSUME NEW x \in DOMAIN disk, IsPrefix(from, x), q = R(x)
          PROVE  Watched(q) /\ Parent(q) \notin Roots
      <4>1. disk[x] # Folder
        BY <1>4, <2>1, <3>2, Contents
      <4>2. QED
        BY <1>3, <3>2, <4>1, NewPlace DEF R
    <3>3. QED
      BY <1>4, <3>1, <3>2
  <2>2. QED
    BY <1>3, <1>4, <1>6, <2>1, StillShelved
<1>8. Roots \subseteq DOMAIN e
  BY <1>3, <1>4, PlanPaths
<1>9. ASSUME NEW s \in DOMAIN Strangers, hand[s] = "put" PROVE Lies(e, s)
  <2>1. PICK q \in DOMAIN disk : disk[q] = <<s>>
    BY <1>9 DEF DiskInv, Lies
  <2>2. ~IsPrefix(to, q)
    BY <1>5, <1>9, <2>1, NotSlight
  <2>3. QED
    BY <1>4, <2>1, <2>2 DEF Lies
<1>10. DiskInv'
  BY <1>1, <1>4, <1>7, <1>8, <1>9 DEF DiskInv, RootsStay, Lies
<1>11. Parent(from) \in DOMAIN e /\ e[Parent(from)] = Folder
  BY <1>3, <1>4, FolderOf DEF Apart
<1>12. QED
  BY <1>1, <1>10, <1>11

\* The source is gone: what is tidied up is the folder it was in.
LEMMA PruneBegins ==
  ASSUME SoundInv, run' = Prune(run), UNCHANGED <<server, kept, hand>>, run.todo # <<>>, DiskInv',
         Parent(Now.from) \in DOMAIN disk' /\ disk'[Parent(Now.from)] = Folder
  PROVE  SoundInv'
<1>1. IsRun(run) /\ PlansInv /\ ServerInv
  BY DEF SoundInv, PlansInv
<1>2. /\ DOMAIN run' = Fields /\ run'.rows = run.rows /\ run'.plans = run.plans
      /\ run'.todo = run.todo /\ run'.copied = {} /\ run'.phase = "pruning"
      /\ run'.dir = Parent(Now.from)
  BY <1>1 DEF Prune, IsRun, Fields
<1>3. PlansInv'
  BY <1>1, <1>2, PlansStay DEF IsRun
<1>4. StepInv'
  BY <1>2 DEF StepInv, FromInv, ToInv, CopyInv, RemoveInv, PruneInv
<1>5. QED
  BY <1>1, <1>3, <1>4 DEF SoundInv, ServerInv

LEMMA RenameSound == ASSUME SoundInv, Rename PROVE SoundInv'
<1>1. /\ run.phase = "made" /\ UNCHANGED <<server, hand, kept>>
      /\ IsRun(run) /\ PlansInv /\ DiskInv /\ ServerInv /\ FromInv /\ ToInv
      /\ run.copied = {} /\ run.todo # <<>>
  BY DEF Rename, Stays, SoundInv, StepInv, PlansInv, Moving
<1>2. SoundPlan(Now) /\ ~IsPrefix(Now.to, Now.from)
  BY <1>1, NowSound DEF ToInv
<1>3. /\ Now.from \in DOMAIN disk /\ (disk[Now.from] = Folder <=> ~Now.file)
      /\ \A p \in Under(disk, Now.to) : Slight(disk[p], hand)
      /\ \A q \in Ancestors(Now.to) : q \in DOMAIN disk /\ disk[q] = Folder
  BY <1>1 DEF FromInv, ToInv
<1>4. CASE Throw /\ UNCHANGED disk
  BY <1>1, <1>4, ThrowSound
<1>5. CASE /\ ~IsPrefix(Now.from, Now.to)
           /\ run' = [run EXCEPT !.phase = "copying", !.due = Under(disk, Now.from)]
           /\ UNCHANGED disk
  <2>1. /\ DOMAIN run' = Fields /\ run'.rows = run.rows /\ run'.plans = run.plans
        /\ run'.todo = run.todo /\ run'.copied = {} /\ run'.phase = "copying"
        /\ run'.due = Under(disk, Now.from)
    BY <1>1, <1>5 DEF IsRun, Fields
  <2>2. PlansInv' /\ Now' = Now
    BY <1>1, <2>1, PlansStay DEF IsRun
  <2>3. DiskInv' /\ ServerInv'
    BY <1>1, <1>5 DEF DiskInv, ServerInv, RootsStay, Lies
  <2>4. FromInv' /\ ToInv'
    BY <1>2, <1>3, <1>5, <2>1, <2>2 DEF FromInv, ToInv
  <2>5. CopyInv'
    BY <1>1, <1>3, <1>5, <2>1, <2>2 DEF CopyInv
  <2>6. RemoveInv' /\ PruneInv'
    BY <2>1 DEF RemoveInv, PruneInv
  <2>7. QED
    BY <2>2, <2>3, <2>4, <2>5, <2>6 DEF SoundInv, StepInv
<1>6. CASE /\ ~IsPrefix(Now.from, Now.to) /\ CanRename(disk, Now.from, Now.to)
           /\ disk' = Renamed(disk, Now.from, Now.to) /\ run' = Prune(run)
  <2>1. /\ DiskInv'
        /\ Parent(Now.from) \in DOMAIN disk' /\ disk'[Parent(Now.from)] = Folder
    BY <1>1, <1>2, <1>3, <1>6, RenameDisk DEF Apart
  <2>2. QED
    BY <1>1, <1>6, <2>1, PruneBegins
<1>7. QED
  BY <1>4, <1>5, <1>6 DEF Rename

\* The copy of a file or a folder.
LEMMA CopySound == ASSUME SoundInv, Copy PROVE SoundInv'
<1>1. /\ run.phase = "copying" /\ UNCHANGED <<server, hand, kept>>
      /\ IsRun(run) /\ PlansInv /\ DiskInv /\ ServerInv /\ FromInv /\ ToInv /\ CopyInv
      /\ run.todo # <<>>
  BY DEF Copy, Stays, SoundInv, StepInv, PlansInv, Moving
<1> DEFINE from == Now.from
           to == Now.to
           R(q) == Rebase(q, from, to)
<1>2. PICK q \in Under(disk, from) \ run.copied :
        /\ q = from \/ Parent(q) \in run.copied
        /\ IF R(q) \in DOMAIN disk /\ (disk[R(q)] = Folder) # (disk[q] = Folder)
           THEN Throw /\ UNCHANGED disk
           ELSE disk' = Put(disk, R(q), disk[q]) /\ run' = [run EXCEPT !.copied = run.copied \cup {q}]
  BY DEF Copy
<1>3. CASE Throw /\ UNCHANGED disk
  BY <1>1, <1>3, ThrowSound
<1>4. CASE /\ ~(R(q) \in DOMAIN disk /\ (disk[R(q)] = Folder) # (disk[q] = Folder))
           /\ disk' = Put(disk, R(q), disk[q]) /\ run' = [run EXCEPT !.copied = run.copied \cup {q}]
  <2>1. SoundPlan(Now) /\ ~IsPrefix(to, from) /\ ~IsPrefix(from, to)
        /\ from \in DOMAIN disk /\ (disk[from] = Folder <=> ~Now.file)
        /\ \A a \in Ancestors(to) : a \in DOMAIN disk /\ disk[a] = Folder
    BY <1>1, NowSound DEF ToInv, FromInv, CopyInv
  <2>2. /\ from \in Path /\ from # Nowhere /\ to \in Path /\ to # Nowhere /\ Now.file \in BOOLEAN
        /\ \A p \in Path : IsPrefix(to, p) => Watched(p)
    BY <2>1, PlanPaths
  <2>3. Tree(disk) /\ Shelved(disk) /\ Roots \subseteq DOMAIN disk
    BY <1>1 DEF DiskInv, RootsStay
  <2>4. q \in DOMAIN disk /\ q \in Path /\ q # Nowhere /\ IsPrefix(from, q) /\ q \notin run.copied
    BY <1>2, <2>3 DEF Under, Tree
  <2>5. R(q) \in Path /\ IsPrefix(to, R(q)) /\ Watched(R(q))
    BY <2>2, <2>4, Rebased
  <2>6. R(q) # Nowhere /\ R(q) \notin Roots
    BY <2>5, BelowRoots
  <2>7. /\ \A p \in run.copied : p \in Path /\ p \in DOMAIN disk /\ IsPrefix(from, p)
                                 /\ R(p) \in DOMAIN disk /\ disk[R(p)] = disk[p]
        /\ \A p \in DOMAIN disk : IsPrefix(to, p) => Slight(disk[p], hand) \/ \E x \in run.copied : p = R(x)
        /\ \A p \in DOMAIN disk : IsPrefix(from, p) /\ p \notin run.due => Slight(disk[p], hand)
    BY <1>1, <2>3 DEF CopyInv, Under, Tree
  <2>8. ASSUME NEW x \in run.copied PROVE R(x) # R(q)
    BY <2>2, <2>4, <2>7, RebasedBack
  <2>9. R(q) \in DOMAIN disk => Slight(disk[R(q)], hand)
    BY <2>5, <2>7, <2>8
  <2>10. \A a \in Ancestors(R(q)) : a \in DOMAIN disk /\ disk[a] = Folder
    <3>1. CASE q = from
      <4>1. R(q) = to
        BY <2>2, <3>1, RebasedNames
      <4>2. QED
        BY <2>1, <4>1
    <3>2. CASE q # from
      <4> DEFINE p == Parent(q)
      <4>1. p \in run.copied
        BY <1>2, <3>2
      <4>2. p \in Path /\ Last(q) \in STRING /\ q = Append(p, Last(q)) /\ p # Nowhere
            /\ IsPrefix(p, q) /\ p # q
        <5>1. p \in Path /\ Last(q) \in STRING /\ q = Append(p, Last(q)) /\ IsPrefix(p, q) /\ p # q
          BY <2>4, ParentOf
        <5>2. p \in DOMAIN disk
          BY <2>7, <4>1
        <5>3. QED
          BY <2>3, <5>1, <5>2 DEF Tree
      <4> HIDE DEF p
      <4>3. /\ R(p) \in DOMAIN disk /\ disk[R(p)] = Folder /\ R(p) \in Path
        BY <2>3, <2>4, <2>7, <4>1, <4>2, TreeFolders DEF Tree
      <4> DEFINE n == Last(q)
      <4>0. n \in STRING /\ q = Append(p, n)
        BY <4>2
      <4> HIDE DEF n
      <4>4. R(q) = Append(R(p), n)
        <5>1. R(Append(p, n)) = Append(R(p), n)
          BY <2>2, <2>7, <4>1, <4>2, <4>0, RebasedNames
        <5>2. QED
          BY <4>0, <5>1
      <4>5. ASSUME NEW a \in Ancestors(R(q)) PROVE a \in DOMAIN disk /\ disk[a] = Folder
        <5>1. a \in Path /\ a # Nowhere /\ IsPrefix(a, R(q)) /\ a # R(q)
          BY <2>5, <4>5, AncestorsOf
        <5>2. IsPrefix(a, R(p))
          BY <4>0, <4>3, <4>4, <5>1, InFolder
        <5>3. QED
          BY <2>3, <4>3, <5>1, <5>2, TreeFolders
      <4>6. QED
        BY <4>5
    <3>3. QED
      BY <3>1, <3>2
  <2> HIDE DEF R
  <2>11. PICK e : e = Put(disk, R(q), disk[q])
    OBVIOUS
  <2>12. /\ Tree(e) /\ DOMAIN e = DOMAIN disk \cup {R(q)} /\ e[R(q)] = disk[q]
         /\ \A p \in DOMAIN disk : p # R(q) => e[p] = disk[p]
    <3>1. R(q) \in DOMAIN disk /\ disk[R(q)] = Folder => disk[q] = Folder
      BY <1>4
    <3>2. QED
      BY <2>3, <2>5, <2>6, <2>10, <2>11, <3>1, PutThere
  <2>13. \A p \in DOMAIN disk : ~Slight(disk[p], hand) => p \in DOMAIN e /\ e[p] = disk[p]
    BY <2>9, <2>12
  <2>14. disk' = e
    BY <1>4, <2>11
  <2>15. DiskInv'
    <3>1. \A b \in Books : Homes(e, b) # {}
      <4>1. ASSUME NEW b \in Books, NEW p \in Homes(disk, b) PROVE p \in Homes(e, b)
        <5>1. /\ p \in Path /\ p # Nowhere
              /\ \A n \in Parts[b] : Append(p, n) \in DOMAIN disk /\ disk[Append(p, n)] = <<b, n>>
          BY <2>3, <4>1, AtHome
        <5>2. \A n \in Parts[b] : Append(p, n) \in DOMAIN e /\ e[Append(p, n)] = <<b, n>>
          BY <2>13, <5>1, NotSlight
        <5>3. QED
          BY <2>12, <5>1, <5>2, HomeThere
      <4>2. QED
        BY <2>3, <4>1 DEF Shelved
    <3>2. ASSUME NEW b \in Books, NEW n \in Parts[b], NEW p \in DOMAIN e, e[p] = <<b, n>>
          PROVE  \/ p \in DOMAIN disk /\ disk[p] = <<b, n>>
                 \/ Watched(p) /\ Parent(p) \notin Roots
      <4>1. CASE p = R(q)
        <5>1. disk[q] # Folder
          BY <2>12, <3>2, <4>1, Contents
        <5>2. QED
          BY <2>1, <2>3, <2>4, <4>1, <5>1, NewPlace DEF R
      <4>2. CASE p # R(q)
        BY <2>12, <3>2, <4>2
      <4>3. QED
        BY <4>1, <4>2
    <3>3. Shelved(e)
      BY <2>3, <2>12, <3>1, <3>2, StillShelved
    <3>4. ASSUME NEW s \in DOMAIN Strangers, hand[s] = "put" PROVE Lies(e, s)
      <4>1. PICK p \in DOMAIN disk : disk[p] = <<s>>
        BY <1>1, <3>4 DEF DiskInv, Lies
      <4>2. ~Slight(disk[p], hand)
        BY <3>4, <4>1, NotSlight
      <4>3. QED
        BY <2>13, <4>1, <4>2 DEF Lies
    <3>5. QED
      BY <1>1, <2>3, <2>12, <2>14, <3>3, <3>4 DEF DiskInv, RootsStay, Lies
  <2>16. /\ DOMAIN run' = Fields /\ run'.rows = run.rows /\ run'.plans = run.plans
         /\ run'.todo = run.todo /\ run'.copied = run.copied \cup {q} /\ run'.phase = "copying"
         /\ run'.due = run.due
    BY <1>1, <1>4 DEF IsRun, Fields
  <2>17. PlansInv' /\ Now' = Now
    BY <1>1, <2>16, PlansStay DEF IsRun
  <2>18. ~IsPrefix(from, R(q))
    BY <2>1, <2>5, NotBoth DEF Apart
  <2>19. \A p \in DOMAIN disk : IsPrefix(from, p) => e[p] = disk[p]
    BY <2>12, <2>18
  <2>20. \A a \in Ancestors(to) : a # R(q)
    BY <2>2, <2>5, AncestorsOf, PrefixOrder
  <2>21. FromInv' /\ ToInv'
    <3>1. IsPrefix(from, from)
      BY <2>2, PrefixOrder
    <3>2. from \in DOMAIN e /\ e[from] = disk[from]
      BY <2>1, <2>12, <2>19, <3>1
    <3>3. \A a \in Ancestors(to) : a \in DOMAIN e /\ e[a] = Folder
      BY <2>1, <2>12, <2>20
    <3>4. QED
      BY <2>1, <2>14, <2>16, <2>17, <3>2, <3>3 DEF FromInv, ToInv
  <2>22. CopyInv'
    <3>1. ASSUME NEW x \in run.copied \cup {q}
          PROVE  x \in Under(e, from) /\ R(x) \in DOMAIN e /\ e[R(x)] = e[x]
      <4>1. CASE x = q
        BY <2>4, <2>12, <2>19, <4>1 DEF Under
      <4>2. CASE x \in run.copied
        BY <2>7, <2>8, <2>12, <2>19, <4>2 DEF Under
      <4>3. QED
        BY <4>1, <4>2
    <3>2. ASSUME NEW p \in Under(e, to)
          PROVE  Slight(e[p], hand) \/ \E x \in run.copied \cup {q} : p = R(x)
      <4>1. CASE p = R(q)
        BY <4>1
      <4>2. CASE p # R(q)
        <5>1. p \in DOMAIN disk /\ IsPrefix(to, p) /\ e[p] = disk[p]
          BY <2>12, <3>2, <4>2 DEF Under
        <5>2. QED
          BY <2>7, <5>1
      <4>3. QED
        BY <4>1, <4>2
    <3>3. ASSUME NEW p \in Under(e, from) \ run.due PROVE Slight(e[p], hand)
      <4>1. p \in DOMAIN disk /\ IsPrefix(from, p) /\ e[p] = disk[p]
        BY <2>12, <2>18, <3>3 DEF Under
      <4>2. QED
        BY <2>7, <3>3, <4>1
    <3>4. hand' = hand
      BY <1>1
    <3>5. QED
      BY <2>1, <2>14, <2>16, <2>17, <3>1, <3>2, <3>3, <3>4 DEF CopyInv, R
  <2>23. RemoveInv' /\ PruneInv' /\ ServerInv'
    BY <1>1, <2>16 DEF RemoveInv, PruneInv, ServerInv
  <2>24. QED
    BY <2>15, <2>17, <2>21, <2>22, <2>23 DEF SoundInv, StepInv
<1>5. QED
  BY <1>2, <1>3, <1>4

\* The copy is whole: every book has a home outside of what was copied.
LEMMA CopyEndsSound == ASSUME SoundInv, CopyEnds PROVE SoundInv'
<1>1. /\ run.phase = "copying" /\ UNCHANGED <<disk, server, hand, kept>>
      /\ IsRun(run) /\ PlansInv /\ DiskInv /\ ServerInv /\ FromInv /\ ToInv /\ CopyInv
      /\ run.todo # <<>> /\ run.due \subseteq run.copied
      /\ run' = [run EXCEPT !.phase = "removing"]
  BY DEF CopyEnds, Copied, Stays, SoundInv, StepInv, PlansInv, Moving
<1> DEFINE from == Now.from
           to == Now.to
           R(q) == Rebase(q, from, to)
<1>2. SoundPlan(Now) /\ Apart(Now) /\ from \in DOMAIN disk /\ (disk[from] = Folder <=> ~Now.file)
  BY <1>1, NowSound DEF ToInv, FromInv, CopyInv, Apart
<1>3. Tree(disk) /\ Shelved(disk)
  BY <1>1 DEF DiskInv
<1>4. /\ DOMAIN run' = Fields /\ run'.rows = run.rows /\ run'.plans = run.plans
      /\ run'.todo = run.todo /\ run'.phase = "removing"
  BY <1>1 DEF IsRun, Fields
<1>5. PlansInv' /\ Now' = Now
  BY <1>1, <1>4, PlansStay DEF IsRun
<1>6. ASSUME NEW q \in DOMAIN disk, IsPrefix(from, q), ~Slight(disk[q], hand)
      PROVE  R(q) \in DOMAIN disk /\ disk[R(q)] = disk[q]
  <2>1. q \in run.due
    BY <1>1, <1>6 DEF CopyInv, Under
  <2>2. QED
    BY <1>1, <2>1 DEF CopyInv
<1>7. \A b \in Books : \E p \in Homes(disk, b) : \A n \in Parts[b] : ~IsPrefix(from, Append(p, n))
  <2>1. \A b \in Books : \A n \in Parts[b] : \A q \in DOMAIN disk : disk[q] = <<b, n>> =>
          IF IsPrefix(from, q) THEN R(q) \in DOMAIN disk /\ disk[R(q)] = <<b, n>>
          ELSE q \in DOMAIN disk /\ disk[q] = <<b, n>>
    BY <1>6, NotSlight
  <2>2. QED
    BY <1>2, <1>3, <2>1, HomesMove
<1>8. ASSUME NEW s \in DOMAIN Strangers, hand[s] = "put"
      PROVE  \E p \in DOMAIN disk : disk[p] = <<s>> /\ ~IsPrefix(from, p)
  <2>1. PICK q \in DOMAIN disk : disk[q] = <<s>>
    BY <1>1, <1>8 DEF DiskInv, Lies
  <2>2. CASE IsPrefix(from, q)
    <3>1. R(q) \in DOMAIN disk /\ disk[R(q)] = <<s>>
      BY <1>6, <1>8, <2>1, <2>2, NotSlight
    <3>2. q \in Path /\ from \in Path /\ to \in Path
      BY <1>2, <1>3, PlanPaths DEF Tree
    <3>3. R(q) \in Path /\ IsPrefix(to, R(q))
      BY <2>2, <3>2, Rebased
    <3>4. ~IsPrefix(from, R(q))
      BY <1>2, <3>3, NotBoth
    <3>5. QED
      BY <3>1, <3>4
  <2>3. QED
    BY <2>1, <2>2
<1>9. RemoveInv'
  <2>1. Parent(from) \in DOMAIN disk /\ disk[Parent(from)] = Folder
    BY <1>2, <1>3, FolderOf DEF Apart
  <2>2. QED
    BY <1>1, <1>5, <1>7, <1>8, <2>1 DEF RemoveInv, Homes, WholeIn
<1>10. FromInv' /\ ToInv' /\ CopyInv' /\ PruneInv'
  BY <1>1, <1>4, <1>5 DEF FromInv, ToInv, CopyInv, PruneInv
<1>11. DiskInv' /\ ServerInv'
  BY <1>1 DEF DiskInv, ServerInv, RootsStay, Lies
<1>12. QED
  BY <1>5, <1>9, <1>10, <1>11 DEF SoundInv, StepInv

LEMMA DeleteSound == ASSUME SoundInv, Delete PROVE SoundInv'
<1>1. /\ run.phase = "removing" /\ UNCHANGED <<server, hand, kept>>
      /\ IsRun(run) /\ PlansInv /\ DiskInv /\ ServerInv /\ ToInv /\ RemoveInv
      /\ run.todo # <<>>
  BY DEF Delete, Stays, SoundInv, StepInv, PlansInv, Moving
<1> DEFINE from == Now.from
<1>2. SoundPlan(Now) /\ ~IsPrefix(Now.to, from)
  BY <1>1, NowSound DEF ToInv
<1>3. /\ Parent(from) \in DOMAIN disk /\ disk[Parent(from)] = Folder
      /\ \A b \in Books : \E p \in Homes(disk, b) : \A n \in Parts[b] : ~IsPrefix(from, Append(p, n))
      /\ \A s \in DOMAIN Strangers : hand[s] = "put" =>
           \E p \in DOMAIN disk : disk[p] = <<s>> /\ ~IsPrefix(from, p)
  BY <1>1 DEF RemoveInv
<1>4. Tree(disk) /\ Shelved(disk) /\ Roots \subseteq DOMAIN disk
  BY <1>1 DEF DiskInv, RootsStay
<1>5. ASSUME NEW q \in Under(disk, from), Inside(disk, q) = {}, disk' = Without(disk, q),
             UNCHANGED run
      PROVE  SoundInv'
  <2>1. PICK e : e = Without(disk, q)
    OBVIOUS
  <2>2. q \in DOMAIN disk /\ IsPrefix(from, q)
    BY <1>5 DEF Under
  <2>3. Tree(e) /\ DOMAIN e = DOMAIN disk \ {q} /\ \A p \in DOMAIN e : e[p] = disk[p]
    BY <1>4, <1>5, <2>1, <2>2, TakenAway
  <2>4. \A p \in DOMAIN disk : ~IsPrefix(from, p) => p \in DOMAIN e /\ e[p] = disk[p]
    BY <2>2, <2>3
  <2>5. ASSUME NEW b \in Books
        PROVE  \E p \in Homes(e, b) : \A n \in Parts[b] : ~IsPrefix(from, Append(p, n))
    <3>1. PICK p \in Homes(disk, b) : \A n \in Parts[b] : ~IsPrefix(from, Append(p, n))
      BY <1>3
    <3>2. /\ p \in Path /\ p # Nowhere
          /\ \A n \in Parts[b] : Append(p, n) \in DOMAIN disk /\ disk[Append(p, n)] = <<b, n>>
      BY <1>4, AtHome
    <3>3. \A n \in Parts[b] : Append(p, n) \in DOMAIN e /\ e[Append(p, n)] = <<b, n>>
      BY <2>4, <3>1, <3>2
    <3>4. p \in Homes(e, b)
      BY <2>3, <3>2, <3>3, HomeThere
    <3>5. QED
      BY <3>1, <3>4
  <2>6. Shelved(e)
    <3>1. \A b \in Books : Homes(e, b) # {}
      BY <2>5
    <3>2. QED
      BY <1>4, <2>3, <3>1, StillShelved
  <2>7. Roots \subseteq DOMAIN e
    BY <1>2, <1>4, <2>4, PlanPaths
  <2>8. \A s \in DOMAIN Strangers : hand[s] = "put" =>
          \E p \in DOMAIN e : e[p] = <<s>> /\ ~IsPrefix(from, p)
    BY <1>3, <2>4
  <2>9. disk' = e
    BY <1>5, <2>1
  <2>10. DiskInv'
    BY <1>1, <2>3, <2>6, <2>7, <2>8, <2>9 DEF DiskInv, RootsStay, Lies
  <2>11. Parent(from) \in DOMAIN e /\ e[Parent(from)] = Folder
    <3>1. from \in Path /\ from # Nowhere
      BY <1>2, PlanPaths
    <3>2. Parent(from) \in Path /\ IsPrefix(Parent(from), from) /\ Parent(from) # from
      BY <3>1, ParentOf
    <3>3. ~IsPrefix(from, Parent(from))
      BY <3>1, <3>2, PrefixOrder
    <3>4. QED
      BY <1>3, <2>4, <3>3
  <2>12. Now' = Now /\ run' = run /\ hand' = hand
    BY <1>1, <1>5 DEF Now
  <2>13. RemoveInv'
    BY <2>5, <2>8, <2>9, <2>11, <2>12 DEF RemoveInv
  <2>14. FromInv' /\ ToInv' /\ CopyInv' /\ PruneInv'
    BY <1>1, <1>2, <2>12 DEF FromInv, ToInv, CopyInv, PruneInv
  <2>15. PlansInv' /\ ServerInv'
    BY <1>1, <2>12 DEF PlansInv, ServerInv, IsRun
  <2>16. QED
    BY <2>10, <2>13, <2>14, <2>15 DEF SoundInv, StepInv
<1>6. CASE run' = Prune(run) /\ UNCHANGED disk
  <2>1. DiskInv'
    BY <1>1, <1>6 DEF DiskInv, RootsStay, Lies
  <2>2. QED
    BY <1>1, <1>3, <1>6, <2>1, PruneBegins
<1>7. QED
  BY <1>5, <1>6 DEF Delete

LEMMA PruneOneSound == ASSUME SoundInv, PruneOne PROVE SoundInv'
<1>1. /\ run.phase = "pruning" /\ UNCHANGED <<server, hand, kept>>
      /\ IsRun(run) /\ PlansInv /\ DiskInv /\ ServerInv /\ PruneInv
      /\ run.todo # <<>> /\ run.copied = {}
  BY DEF PruneOne, Stays, SoundInv, StepInv, PlansInv, Moving
<1>2. CASE /\ run.dir # Nowhere /\ Prunable(disk, run.dir, Now.root)
           /\ disk' = Without(disk, run.dir)
           /\ run' = [run EXCEPT !.dir = Parent(run.dir), !.depth = run.depth + 1]
  <2> DEFINE dir == run.dir
  <2>1. /\ dir \in DOMAIN disk /\ disk[dir] = Folder /\ Inside(disk, dir) = {}
        /\ dir # Now.root /\ IsPrefix(Now.root, dir)
    BY <1>1, <1>2 DEF PruneInv, Prunable
  <2>2. Tree(disk) /\ Roots \subseteq DOMAIN disk /\ dir \in Path
    BY <1>1, <2>1 DEF DiskInv, RootsStay, Tree
  <2>3. Now.root \in Roots
    BY <1>1, NowSound DEF SoundPlan
  <2>4. dir \notin Roots
    <3>1. Watched(dir)
      BY <2>1, <2>3 DEF Watched, IsStrictPrefix
    <3>2. QED
      BY <2>2, <3>1, BelowRoots
  <2>5. PICK e : e = Without(disk, dir)
    OBVIOUS
  <2>6. Tree(e) /\ DOMAIN e = DOMAIN disk \ {dir} /\ \A p \in DOMAIN e : e[p] = disk[p]
    BY <2>1, <2>2, <2>5, TakenAway
  <2>7. disk' = e
    BY <1>2, <2>5
  <2>8. DiskInv'
    <3>1. Tree(disk') /\ Roots \subseteq DOMAIN disk'
      BY <2>2, <2>4, <2>6, <2>7
    <3>2. /\ \A q \in DOMAIN disk : disk[q] # Folder => q \in DOMAIN disk' /\ disk'[q] = disk[q]
          /\ \A q \in DOMAIN disk' : q \in DOMAIN disk /\ disk'[q] = disk[q]
      BY <2>1, <2>6, <2>7
    <3>3. DOMAIN hand' = DOMAIN Strangers /\ hand' = hand
      BY <1>1 DEF DiskInv
    <3>4. QED
      BY <1>1, <3>1, <3>2, <3>3, DiskStays
  <2>9. /\ DOMAIN run' = Fields /\ run'.rows = run.rows /\ run'.plans = run.plans
        /\ run'.todo = run.todo /\ run'.copied = {} /\ run'.phase = "pruning"
        /\ run'.dir = Parent(dir)
    BY <1>1, <1>2 DEF IsRun, Fields
  <2>10. PlansInv'
    BY <1>1, <2>9, PlansStay DEF IsRun
  <2>11. Parent(dir) = Nowhere \/ (Parent(dir) \in DOMAIN e /\ e[Parent(dir)] = Folder)
    <3>1. Parent(dir) \in Path /\ IsPrefix(Parent(dir), dir) /\ Parent(dir) # dir
      BY <1>2, <2>2, ParentOf
    <3>2. Parent(dir) # Nowhere => Parent(dir) \in DOMAIN disk /\ disk[Parent(dir)] = Folder
      BY <2>1, <2>2, <3>1, TreeFolders
    <3>3. QED
      BY <2>6, <3>1, <3>2
  <2>12. PruneInv'
    BY <2>7, <2>9, <2>11 DEF PruneInv
  <2>13. FromInv' /\ ToInv' /\ CopyInv' /\ RemoveInv' /\ ServerInv'
    BY <1>1, <2>9 DEF FromInv, ToInv, CopyInv, RemoveInv, ServerInv
  <2>14. QED
    BY <2>8, <2>10, <2>12, <2>13 DEF SoundInv, StepInv
<1>3. CASE run' = Moved(run) /\ UNCHANGED disk
  <2>1. PICK s : s = Skip(run, "moved")
    OBVIOUS
  <2>2. /\ IsRun(s) /\ s.phase = "next" /\ s.plans = run.plans /\ s.todo = Tail(run.todo)
        /\ s.copied = {}
    <3>1. IsRun(s) /\ s.phase = "next"
      BY <1>1, <2>1, SkipRun
    <3>2. s.plans = run.plans /\ s.todo = Tail(run.todo) /\ s.copied = {}
      BY <1>1, <2>1 DEF Skip, IsRun, Fields
    <3>3. QED
      BY <3>1, <3>2
  <2>3. run' = [s EXCEPT !.touched = s.touched \cup {Library[Head(run.todo)]}, !.dir = Nowhere,
                         !.depth = 0]
    BY <1>3, <2>1 DEF Moved
  <2>4. /\ IsRun(run)' /\ run'.phase = "next" /\ run'.plans = run.plans
        /\ run'.todo = Tail(run.todo) /\ run'.copied = {}
    BY <2>2, <2>3 DEF IsRun, Fields
  <2>5. PlansInv'
    BY <1>1, <2>4, PlansGoOn
  <2>6. QED
    BY <1>1, <1>3, <2>4, <2>5, AtRest DEF Moving
<1>4. QED
  BY <1>2, <1>3 DEF PruneOne

LEMMA RequestScanSound == ASSUME SoundInv, RequestScan PROVE SoundInv'
<1>1. /\ run.phase = "scanning" /\ UNCHANGED <<disk, server, hand>>
      /\ IsRun(run) /\ PlansInv /\ SoundPlans(run.plans)
  BY DEF RequestScan, Stays, SoundInv, PlansInv
<1>2. PICK lib \in run.touched :
        IF run.touched = {lib} THEN Finish([run EXCEPT !.touched = {}])
        ELSE run' = [run EXCEPT !.touched = run.touched \ {lib}] /\ UNCHANGED kept
  BY DEF RequestScan
<1>3. CASE run.touched = {lib}
  <2>1. PICK r : r = [run EXCEPT !.touched = {}]
    OBVIOUS
  <2>2. DOMAIN r = Fields /\ r.rows = run.rows /\ r.plans = run.plans /\ r.touched = {}
    BY <1>1, <2>1 DEF IsRun, Fields
  <2>3. End(r)
    BY <1>2, <1>3, <2>1, <2>2 DEF End
  <2>4. PlansInv' /\ run'.phase \notin Moving
    BY <1>1, <2>2, <2>3, EndPlans DEF IsRun
  <2>5. QED
    BY <1>1, <2>4, AtRest
<1>4. CASE run.touched # {lib}
  <2>1. run' = [run EXCEPT !.touched = run.touched \ {lib}] /\ kept' = kept
    BY <1>2, <1>4
  <2>2. /\ DOMAIN run' = Fields /\ run'.rows = run.rows /\ run'.plans = run.plans
        /\ run'.todo = run.todo /\ run'.phase = "scanning"
    BY <1>1, <2>1 DEF IsRun, Fields
  <2>3. PlansInv'
    BY <1>1, <2>1, <2>2, PlansStay DEF IsRun, Moving
  <2>4. QED
    BY <1>1, <2>2, <2>3, AtRest DEF Moving
<1>5. QED
  BY <1>3, <1>4

--------------------------------------------------------------------------------
(***************************************************************************)
(* What happens around it.                                                 *)
(***************************************************************************)
LEMMA CrashSound == ASSUME SoundInv, Crash PROVE SoundInv'
<1>1. UNCHANGED <<disk, server, kept, hand>> /\ run' = Idle /\ PlansInv
  BY DEF Crash, SoundInv
<1>2. IsRun(run') /\ run'.phase = "idle" /\ run'.plans = NoPlans /\ run'.todo = <<>>
  BY <1>1, IdleRun DEF Idle
<1>3. SoundPlans(run'.plans)
  BY <1>2 DEF SoundPlans, NoPlans
<1>4. run'.todo \in Seq(DOMAIN run'.plans)
  BY <1>2, EmptySeq
<1>5. PlansInv'
  BY <1>1, <1>2, <1>3, <1>4 DEF PlansInv, Moving
<1>6. QED
  BY <1>1, <1>2, <1>5, AtRest DEF Moving

LEMMA StopSound == ASSUME SoundInv, Stop PROVE SoundInv'
<1>1. /\ UNCHANGED <<disk, server, kept, hand>> /\ run' = [run EXCEPT !.abort = TRUE]
      /\ IsRun(run) /\ PlansInv
  BY DEF Stop, SoundInv, PlansInv
<1>2. /\ DOMAIN run' = Fields /\ run'.rows = run.rows /\ run'.plans = run.plans
      /\ run'.todo = run.todo /\ run'.phase = run.phase /\ run'.copied = run.copied
      /\ run'.due = run.due /\ run'.dir = run.dir
  BY <1>1 DEF IsRun, Fields
<1>3. PlansInv' /\ Now' = Now
  BY <1>1, <1>2 DEF PlansInv, IsRun, Now
<1>4. FromInv' /\ ToInv' /\ PruneInv'
  BY <1>1, <1>2, <1>3 DEF SoundInv, StepInv, FromInv, ToInv, PruneInv
<1>5. CopyInv'
  BY <1>1, <1>2, <1>3 DEF SoundInv, StepInv, CopyInv
<1>6. RemoveInv'
  BY <1>1, <1>2, <1>3 DEF SoundInv, StepInv, RemoveInv, Homes, WholeIn
<1>7. DiskInv' /\ ServerInv'
  BY <1>1 DEF SoundInv, DiskInv, ServerInv, RootsStay, Lies
<1>8. QED
  BY <1>3, <1>4, <1>5, <1>6, <1>7 DEF SoundInv, StepInv

\* AudiobookShelf finds a book below a watched folder, loose only in one itself.
LEMMA ScanSound == ASSUME SoundInv, Scan PROVE SoundInv'
<1>1. /\ UNCHANGED <<disk, kept, run, hand>> /\ ServerInv /\ Tree(disk) /\ Shelved(disk)
      /\ server' = [b \in Books |->
           IF Homes(disk, b) = {} \/ \E p \in Homes(disk, b) : Place(b, p) = server[b] THEN server[b]
           ELSE Place(b, CHOOSE p \in Homes(disk, b) : TRUE)]
  BY DEF Scan, SoundInv, DiskInv
<1>2. ASSUME NEW b \in Books, NEW p \in Homes(disk, b)
      PROVE  LET at == Place(b, p) IN
             /\ at.at \in Path /\ Watched(at.at) /\ at.loose \in BOOLEAN
             /\ at.loose => Parent(at.at) \in Roots
  <2>1. /\ p \in Path /\ p # Nowhere /\ (p \in Roots \/ Watched(p)) /\ Parts[b] # {}
        /\ \A n \in Parts[b] : n \in STRING /\ Append(p, n) \in Path /\ Watched(Append(p, n))
    BY <1>1, <1>2, AtHome
  <2>2. CASE p \in Roots
    <3> DEFINE n == CHOOSE n \in Parts[b] : TRUE
    <3>1. n \in Parts[b]
      BY <2>1
    <3>2. Place(b, p) = [at |-> Append(p, n), loose |-> TRUE]
      BY <2>2 DEF Place
    <3> HIDE DEF n
    <3>3. Append(p, n) \in Path /\ Watched(Append(p, n)) /\ Parent(Append(p, n)) = p
      BY <2>1, <3>1, InFolder
    <3>4. QED
      BY <2>2, <3>2, <3>3
  <2>3. CASE p \notin Roots
    BY <2>1, <2>3 DEF Place
  <2>4. QED
    BY <2>2, <2>3
<1>3. ServerInv'
  <2> SUFFICES ASSUME NEW b \in Books
               PROVE  /\ server'[b].at \in Path /\ Watched(server'[b].at)
                      /\ server'[b].loose \in BOOLEAN
                      /\ server'[b].loose => Parent(server'[b].at) \in Roots
    BY DEF ServerInv
  <2>1. CASE server'[b] = server[b]
    BY <1>1, <2>1 DEF ServerInv
  <2>2. CASE server'[b] # server[b]
    <3>1. Homes(disk, b) # {} /\ server'[b] = Place(b, CHOOSE p \in Homes(disk, b) : TRUE)
      BY <1>1, <2>2
    <3>2. PICK p \in Homes(disk, b) : server'[b] = Place(b, p)
      BY <3>1
    <3>3. QED
      BY <1>2, <3>2
  <2>3. QED
    BY <2>1, <2>2
<1>4. PlansInv' /\ DiskInv'
  BY <1>1 DEF SoundInv, PlansInv, IsRun, DiskInv, RootsStay, Lies
<1>5. Now' = Now
  BY <1>1 DEF Now
<1>6. FromInv' /\ ToInv' /\ PruneInv'
  BY <1>1, <1>5 DEF SoundInv, StepInv, FromInv, ToInv, PruneInv
<1>7. CopyInv' /\ RemoveInv'
  BY <1>1, <1>5 DEF SoundInv, StepInv, CopyInv, RemoveInv, Homes, WholeIn
<1>8. QED
  BY <1>3, <1>4, <1>6, <1>7 DEF SoundInv, StepInv

\* A file of another hand comes on the disk: in a move's way, or where it is safe.
LEMMA ArriveSound == ASSUME SoundInv, NEW s \in DOMAIN Strangers, Arrive(s) PROVE SoundInv'
<1> DEFINE place == Strangers[s]
           d == WithFolders(disk, place)
<1>1. /\ UNCHANGED <<server, kept, run>>
      /\ ServerInv /\ PlansInv /\ DiskInv /\ FromInv /\ ToInv /\ CopyInv /\ RemoveInv /\ PruneInv
      /\ place \notin DOMAIN disk /\ CanMake(disk, place) /\ hand[s] = "away"
      /\ disk' = Put(d, place, <<s>>)
      /\ hand' = [hand EXCEPT ![s] = IF Meddled(place) THEN "in the way" ELSE "put"]
  BY DEF Arrive, SoundInv, StepInv
<1>2. Tree(disk) /\ Roots \subseteq DOMAIN disk /\ DOMAIN hand = DOMAIN Strangers
  BY <1>1 DEF DiskInv, RootsStay
<1>3. place \in Path /\ place # Nowhere
  BY OrganizeAssumption
<1> HIDE DEF place
<1>4. /\ Tree(d)
      /\ DOMAIN d = Ancestors(place) \cup DOMAIN disk
      /\ \A q \in DOMAIN disk : d[q] = disk[q]
      /\ \A q \in DOMAIN d \ DOMAIN disk : d[q] = Folder
      /\ \A q \in Ancestors(place) : d[q] = Folder
  BY <1>1, <1>2, <1>3, FoldersMade
<1> HIDE DEF d
<1>5. place \notin DOMAIN d
  BY <1>1, <1>3, <1>4, AncestorsOf
<1>6. PICK e : e = Put(d, place, <<s>>)
  OBVIOUS
<1>7. /\ Tree(e) /\ DOMAIN e = DOMAIN d \cup {place} /\ e[place] = <<s>>
      /\ \A q \in DOMAIN d : q # place => e[q] = d[q]
  <2>1. \A q \in Ancestors(place) : q \in DOMAIN d /\ d[q] = Folder
    BY <1>4
  <2>2. PICK file : file = <<s>>
    OBVIOUS
  <2>3. e = Put(d, place, file)
    BY <1>6, <2>2
  <2>4. /\ Tree(e) /\ DOMAIN e = DOMAIN d \cup {place} /\ e[place] = file
        /\ \A q \in DOMAIN d : q # place => e[q] = d[q]
    BY <1>3, <1>4, <1>5, <2>1, <2>3, PutThere
  <2>5. QED
    BY <2>2, <2>4
<1>8. /\ \A q \in DOMAIN disk : q \in DOMAIN e /\ e[q] = disk[q]
      /\ \A q \in DOMAIN e : q \in DOMAIN disk \/ e[q] = Folder \/ q = place
  BY <1>1, <1>4, <1>5, <1>7
<1>9. disk' = e
  BY <1>1, <1>6
<1>10. /\ DOMAIN hand' = DOMAIN Strangers
       /\ \A t \in DOMAIN Strangers : t # s => hand'[t] = hand[t]
       /\ hand'[s] = IF Meddled(place) THEN "in the way" ELSE "put"
  BY <1>1, <1>2
<1>11. DiskInv'
  <2>1. Lies(disk', s)
    BY <1>7, <1>9 DEF Lies
  <2>2. Tree(disk') /\ Roots \subseteq DOMAIN disk'
    BY <1>2, <1>7, <1>8, <1>9
  <2>3. \A q \in DOMAIN disk : disk[q] # Folder => q \in DOMAIN disk' /\ disk'[q] = disk[q]
    BY <1>8, <1>9
  <2>4. \A q \in DOMAIN disk' : \/ q \in DOMAIN disk /\ disk'[q] = disk[q]
                                \/ disk'[q] = Folder \/ \E t : disk'[q] = <<t>>
    BY <1>7, <1>8, <1>9
  <2>5. \A t \in DOMAIN Strangers : hand'[t] = "put" => hand[t] = "put" \/ Lies(disk', t)
    BY <1>10, <2>1
  <2>6. QED
    BY <1>1, <1>10, <2>2, <2>3, <2>4, <2>5, DiskStays
<1>12. \A what : Slight(what, hand) => Slight(what, hand')
  BY <1>1, <1>10 DEF Slight
<1>13. Now' = Now /\ run' = run
  BY <1>1 DEF Now
\* What is new under the source or the target of a move does not count.
<1>14. ASSUME run.phase \in {"checked", "made", "copying", "removing"}, NEW q \in DOMAIN e,
              q \notin DOMAIN disk, IsPrefix(Now.from, q) \/ IsPrefix(Now.to, q)
       PROVE  Slight(e[q], hand')
  <2>1. CASE q = place
    <3>1. Meddled(place)
      BY <1>14, <2>1 DEF Meddled
    <3>2. e[q] = <<s>> /\ hand'[s] = "in the way"
      BY <1>7, <1>10, <2>1, <3>1
    <3>3. QED
      BY <3>2 DEF Slight
  <2>2. CASE q # place
    BY <1>8, <1>14, <2>2 DEF Slight
  <2>3. QED
    BY <2>1, <2>2
<1>15. FromInv' /\ PruneInv'
  BY <1>1, <1>8, <1>9, <1>13 DEF FromInv, PruneInv
<1>16. ToInv'
  <2>1. ASSUME run.phase \in {"checked", "made"}, NEW p \in Under(e, Now.to)
        PROVE  Slight(e[p], hand')
    <3>1. CASE p \in DOMAIN disk
      BY <1>1, <1>8, <1>12, <2>1, <3>1 DEF ToInv, Under
    <3>2. CASE p \notin DOMAIN disk
      BY <1>14, <2>1, <3>2 DEF Under
    <3>3. QED
      BY <3>1, <3>2
  <2>2. QED
    BY <1>1, <1>8, <1>9, <1>13, <2>1 DEF ToInv
<1>17. CopyInv'
  <2> SUFFICES ASSUME run.phase = "copying" PROVE CopyInv'
    BY <1>13 DEF CopyInv
  <2> DEFINE R(q) == Rebase(q, Now.from, Now.to)
  <2>1. /\ ~IsPrefix(Now.from, Now.to)
        /\ \A q \in run.copied : q \in Under(disk, Now.from) /\ R(q) \in DOMAIN disk /\ disk[R(q)] = disk[q]
        /\ \A p \in Under(disk, Now.to) : Slight(disk[p], hand) \/ \E q \in run.copied : p = R(q)
        /\ \A p \in Under(disk, Now.from) \ run.due : Slight(disk[p], hand)
    BY <1>1 DEF CopyInv
  <2> HIDE DEF R
  <2>2. \A q \in run.copied : q \in Under(e, Now.from) /\ R(q) \in DOMAIN e /\ e[R(q)] = e[q]
    BY <1>8, <2>1 DEF Under
  <2>3. ASSUME NEW p \in Under(e, Now.to)
        PROVE  Slight(e[p], hand') \/ \E q \in run.copied : p = R(q)
    <3>1. CASE p \in DOMAIN disk
      BY <1>8, <1>12, <2>1, <2>3, <3>1 DEF Under
    <3>2. CASE p \notin DOMAIN disk
      BY <1>14, <2>3, <3>2 DEF Under
    <3>3. QED
      BY <3>1, <3>2
  <2>4. ASSUME NEW p \in Under(e, Now.from) \ run.due PROVE Slight(e[p], hand')
    <3>1. CASE p \in DOMAIN disk
      BY <1>8, <1>12, <2>1, <2>4, <3>1 DEF Under
    <3>2. CASE p \notin DOMAIN disk
      BY <1>14, <2>4, <3>2 DEF Under
    <3>3. QED
      BY <3>1, <3>2
  <2>5. QED
    BY <1>9, <1>13, <2>1, <2>2, <2>3, <2>4 DEF CopyInv, R
<1>18. RemoveInv'
  <2> SUFFICES ASSUME run.phase = "removing" PROVE RemoveInv'
    BY <1>13 DEF RemoveInv
  <2>1. /\ Parent(Now.from) \in DOMAIN disk /\ disk[Parent(Now.from)] = Folder
        /\ \A b \in Books : \E p \in Homes(disk, b) : \A n \in Parts[b] : ~IsPrefix(Now.from, Append(p, n))
        /\ \A t \in DOMAIN Strangers : hand[t] = "put" =>
             \E p \in DOMAIN disk : disk[p] = <<t>> /\ ~IsPrefix(Now.from, p)
    BY <1>1 DEF RemoveInv
  <2>2. \A b \in Books : \A p \in Homes(disk, b) : p \in Homes(e, b)
    <3>1. Shelved(disk)
      BY <1>1 DEF DiskInv
    <3>2. QED
      BY <1>2, <1>7, <1>8, <3>1, HomesStay
  <2>3. ASSUME NEW t \in DOMAIN Strangers, hand'[t] = "put"
        PROVE  \E p \in DOMAIN e : e[p] = <<t>> /\ ~IsPrefix(Now.from, p)
    <3>1. CASE t = s
      <4>1. ~Meddled(place)
        BY <1>10, <2>3, <3>1
      <4>2. ~IsPrefix(Now.from, place)
        BY <4>1 DEF Meddled
      <4>3. QED
        BY <1>7, <3>1, <4>2
    <3>2. CASE t # s
      BY <1>8, <1>10, <2>1, <2>3, <3>2
    <3>3. QED
      BY <3>1, <3>2
  <2>4. QED
    BY <1>8, <1>9, <1>13, <2>1, <2>2, <2>3 DEF RemoveInv
<1>19. PlansInv' /\ ServerInv'
  BY <1>1 DEF PlansInv, ServerInv, IsRun
<1>20. QED
  BY <1>11, <1>15, <1>16, <1>17, <1>18, <1>19 DEF SoundInv, StepInv

LEMMA NextSound == ASSUME SoundInv, [Next]_vars PROVE SoundInv'
<1>1. CASE Fail
  BY <1>1, ThrowSound DEF Fail
<1>2. CASE UNCHANGED vars
  <2>1. UNCHANGED <<disk, server, kept, run, hand>> /\ Now' = Now
    BY <1>2 DEF vars, Now
  <2>2. ServerInv' /\ PlansInv' /\ DiskInv'
    BY <2>1 DEF SoundInv, ServerInv, PlansInv, IsRun, DiskInv, RootsStay, Lies
  <2>3. StepInv'
    BY <2>1 DEF SoundInv, StepInv, FromInv, ToInv, CopyInv, RemoveInv, PruneInv, Homes, WholeIn
  <2>4. QED
    BY <2>2, <2>3 DEF SoundInv
<1>3. CASE Step
  BY <1>3, NextPlanSound, MakeFoldersSound, RenameSound, CopySound, CopyEndsSound, DeleteSound,
     PruneOneSound, RequestScanSound DEF Step
<1>4. QED
  BY <1>1, <1>2, <1>3, StartSound, CrashSound, StopSound, ScanSound, ArriveSound DEF Next

--------------------------------------------------------------------------------
\* At every moment of a run, whatever fails, whatever another hand puts where, the
\* process killed between any two calls or not: the disk is a tree that holds every
\* watched folder, every book whole in some folder, and every file of another hand
\* that did not come in a move's way (organize.ts movePath, pruneEmptyParents,
\* moveBlockedReason).
THEOREM DiskSound == Spec => []DiskIsSound
<1>1. SoundInv /\ [Next]_vars => SoundInv'
  BY NextSound
<1>2. SoundInv => DiskIsSound
  BY DEF SoundInv, DiskInv, Tree, Shelved, DiskIsSound, IsTree, NothingIsLost, Lies
<1>3. QED
  BY InitSound, <1>1, <1>2, PTL DEF Spec
--------------------------------------------------------------------------------
(***************************************************************************)
(* What a report says.                                                     *)
(***************************************************************************)
\* The folder of a book planned from, or to, p.
HomeOf(plan, p) == IF plan.file THEN Parent(p) ELSE p

\* The book that was where it was planned from is where it was planned to.
Carried(d, b, plan) ==
  HomeOf(plan, plan.from) \in began[b] =>
    HomeOf(plan, plan.to) \in Homes(d, b) /\ HomeOf(plan, plan.from) \notin Homes(d, b)

\* A loose file planned is a file of its book.
Named(plan, b) == plan.file => Last(plan.from) \in Parts[b]

NamesInv ==
  /\ \A b \in Books : server[b].loose => Last(server[b].at) \in Parts[b]
  /\ \A b \in DOMAIN kept : Named(kept[b], b)
  /\ \A b \in DOMAIN run.plans : Named(run.plans[b], b)

\* No book is moved twice.
TodoInv ==
  /\ \A i, j \in 1 .. Len(run.todo) : run.todo[i] = run.todo[j] => i = j
  /\ \A i \in 1 .. Len(run.todo) : run.rows[run.todo[i]] # "moved"

\* The books the rows call moved have been, the others but for the one at hand are
\* where they were.
BooksInv ==
  run.phase \in Working \cup {"returned"} => \A b \in Books :
    IF run.rows[b] = "moved" THEN Carried(disk, b, run.plans[b])
    ELSE \/ began[b] \subseteq Homes(disk, b)
         \/ run.phase \in {"removing", "pruning"} /\ b = Head(run.todo)

\* The book at hand is whole at the target before its source goes.
HeadInv ==
  LET h == Head(run.todo) IN
  /\ run.phase = "removing" /\ HomeOf(Now, Now.from) \in began[h] =>
       /\ HomeOf(Now, Now.to) \in Homes(disk, h)
       /\ \A n \in Parts[h] : ~IsPrefix(Now.from, Append(HomeOf(Now, Now.to), n))
  /\ run.phase = "pruning" => Carried(disk, h, Now)

ReportInv == NamesInv /\ TodoInv /\ BooksInv /\ HeadInv

\* A book whose files stay keeps its homes.
LEMMA HomesKept ==
  ASSUME NEW d, Tree(d), NEW e, Tree(e), NEW b \in Books,
         \A q \in DOMAIN d : \A n \in Parts[b] : d[q] = <<b, n>> => q \in DOMAIN e /\ e[q] = <<b, n>>
  PROVE  Homes(d, b) \subseteq Homes(e, b)
<1> SUFFICES ASSUME NEW p \in Homes(d, b) PROVE p \in Homes(e, b)
  OBVIOUS
<1>1. p \in Path /\ p # Nowhere
  BY DEF Homes, Tree
<1>2. \A n \in Parts[b] : Append(p, n) \in DOMAIN e /\ e[Append(p, n)] = <<b, n>>
  BY DEF Homes, WholeIn
<1>3. QED
  BY <1>1, <1>2, HomeThere

\* A book that is moved whole is whole at the target, outside of the source.
LEMMA HomeCarried ==
  ASSUME NEW d, Tree(d), Shelved(d), NEW plan, SoundPlan(plan), Apart(plan),
         NEW h \in Books, Named(plan, h), HomeOf(plan, plan.from) \in Homes(d, h),
         NEW e, Tree(e),
         \A q \in DOMAIN d : \A n \in Parts[h] : IsPrefix(plan.from, q) /\ d[q] = <<h, n>> =>
           /\ Rebase(q, plan.from, plan.to) \in DOMAIN e
           /\ e[Rebase(q, plan.from, plan.to)] = <<h, n>>
  PROVE  /\ HomeOf(plan, plan.to) \in Homes(e, h)
         /\ \A n \in Parts[h] : ~IsPrefix(plan.from, Append(HomeOf(plan, plan.to), n))
<1> DEFINE from == plan.from
           to == plan.to
           p == HomeOf(plan, from)
           r == HomeOf(plan, to)
<1>1. from \in Path /\ from # Nowhere /\ to \in Path /\ to # Nowhere /\ plan.file \in BOOLEAN
  BY PlanPaths
<1>2. /\ p \in Path /\ p # Nowhere
      /\ \A n \in Parts[h] : /\ n \in STRING /\ Append(p, n) \in Path
                             /\ Append(p, n) \in DOMAIN d /\ d[Append(p, n)] = <<h, n>>
  BY AtHome
<1>3. r \in Path /\ r # Nowhere
  <2>1. CASE plan.file
    <3>1. r = Parent(to) /\ Watched(Parent(to))
      BY <2>1 DEF HomeOf, SoundPlan
    <3>2. r \in Path
      BY <1>1, <3>1, ParentOf
    <3>3. QED
      BY <3>1, <3>2, BelowRoots
  <2>2. CASE ~plan.file
    BY <1>1, <2>2 DEF HomeOf
  <2>3. QED
    BY <1>1, <2>1, <2>2
<1>4. ASSUME NEW n \in Parts[h]
      PROVE  /\ IsPrefix(from, Append(p, n)) /\ IsPrefix(to, Append(r, n)) /\ Append(r, n) \in Path
             /\ Rebase(Append(p, n), from, to) = Append(r, n)
  <2>1. CASE plan.file
    <3> DEFINE l == Last(from)
    <3>1. p = Parent(from) /\ r = Parent(to) /\ p \in Roots /\ l \in Parts[h] /\ Last(to) = l
      BY <2>1 DEF HomeOf, SoundPlan, Named
    <3>2. PICK m \in Parts[h] : Parts[h] = {m}
      BY <3>1 DEF Shelved
    <3>3. n = l
      BY <3>1, <3>2
    <3>4. from = Append(p, n) /\ to = Append(r, n)
      BY <1>1, <3>1, <3>3, ParentOf
    <3>5. Rebase(from, from, to) = to /\ IsPrefix(from, from) /\ IsPrefix(to, to)
      BY <1>1, RebasedNames, PrefixOrder
    <3>6. QED
      BY <1>1, <3>4, <3>5
  <2>2. CASE ~plan.file
    <3>1. p = from /\ r = to /\ n \in STRING
      BY <1>2, <2>2 DEF HomeOf
    <3>2. IsPrefix(from, Append(from, n)) /\ IsPrefix(to, Append(to, n)) /\ Append(to, n) \in Path
      BY <1>1, <3>1, InFolder
    <3>3. Rebase(from, from, to) = to /\ IsPrefix(from, from)
      BY <1>1, RebasedNames, PrefixOrder
    <3>4. Rebase(Append(from, n), from, to) = Append(to, n)
      BY <1>1, <3>1, <3>3, RebasedNames
    <3>5. QED
      BY <3>1, <3>2, <3>4
  <2>3. QED
    BY <1>1, <2>1, <2>2
<1> HIDE DEF p, r
<1>5. \A n \in Parts[h] : Append(r, n) \in DOMAIN e /\ e[Append(r, n)] = <<h, n>>
  BY <1>2, <1>4
<1>6. r \in Homes(e, h)
  BY <1>3, <1>5, HomeThere
<1>7. \A n \in Parts[h] : ~IsPrefix(from, Append(r, n))
  BY <1>4, NotBoth
<1>8. QED
  BY <1>6, <1>7 DEF r

\* A book is not at home where nothing is left.
LEMMA HomeGone ==
  ASSUME NEW plan, SoundPlan(plan), NEW h \in Books, Named(plan, h),
         NEW e, \A q \in DOMAIN e : ~IsPrefix(plan.from, q)
  PROVE  HomeOf(plan, plan.from) \notin Homes(e, h)
<1> DEFINE from == plan.from
<1>1. from \in Path /\ from # Nowhere /\ plan.file \in BOOLEAN
  BY PlanPaths
<1>2. from \notin DOMAIN e
  BY <1>1, PrefixOrder
<1>3. CASE plan.file
  <2>1. Last(from) \in Parts[h] /\ from = Append(Parent(from), Last(from))
    BY <1>1, <1>3, ParentOf DEF Named
  <2>2. QED
    BY <1>2, <1>3, <2>1 DEF HomeOf, Homes, WholeIn
<1>4. CASE ~plan.file
  BY <1>2, <1>4 DEF HomeOf, Homes
<1>5. QED
  BY <1>1, <1>3, <1>4

\* The book at hand has not been moved yet.
LEMMA HeadNotMoved ==
  ASSUME PlansInv, TodoInv, run.todo # <<>>
  PROVE  Head(run.todo) \in Books /\ run.rows[Head(run.todo)] # "moved"
<1>1. Head(run.todo) \in DOMAIN run.plans
  BY NowSound
<1>2. Len(run.todo) \in Nat /\ Len(run.todo) >= 1 /\ Head(run.todo) = run.todo[1]
  BY DEF PlansInv
<1>3. 1 \in 1 .. Len(run.todo)
  BY <1>2
<1>4. QED
  BY <1>1, <1>2, <1>3 DEF TodoInv, PlansInv, SoundPlans

\* A step of the move at hand moves no other book.
LEMMA BooksStay ==
  ASSUME BooksInv, run.phase \in Working, run'.phase \in Working, run'.rows = run.rows,
         run'.plans = run.plans, run'.todo = run.todo, began' = began,
         run.phase \in {"removing", "pruning"} => run'.phase \in {"removing", "pruning"},
         \A b \in Books :
           \/ Homes(disk', b) = Homes(disk, b)
           \/ /\ b = Head(run.todo) /\ run.rows[b] # "moved"
              /\ \/ Homes(disk, b) \subseteq Homes(disk', b)
                 \/ run'.phase \in {"removing", "pruning"}
  PROVE  BooksInv'
<1> SUFFICES ASSUME NEW b \in Books
             PROVE  IF run.rows[b] = "moved" THEN Carried(disk, b, run.plans[b])'
                    ELSE \/ began[b] \subseteq Homes(disk', b)
                         \/ run'.phase \in {"removing", "pruning"} /\ b = Head(run.todo)
  BY DEF BooksInv
<1>1. CASE run.rows[b] = "moved"
  <2>1. Carried(disk, b, run.plans[b]) /\ Homes(disk', b) = Homes(disk, b)
    BY <1>1 DEF BooksInv
  <2>2. QED
    BY <1>1, <2>1 DEF Carried
<1>2. CASE run.rows[b] # "moved"
  BY <1>2 DEF BooksInv
<1>3. QED
  BY <1>1, <1>2

\* A step that leaves the plans and the order of them alone.
LEMMA NamesStay ==
  ASSUME NamesInv, UNCHANGED <<server, kept>>, run'.plans = run.plans PROVE NamesInv'
BY DEF NamesInv, Named

LEMMA TodoStays ==
  ASSUME TodoInv, run'.rows = run.rows, run'.todo = run.todo PROVE TodoInv'
BY DEF TodoInv

\* A step that leaves the disk and the run as they are.
LEMMA SameReport ==
  ASSUME BooksInv, HeadInv, UNCHANGED <<disk, began>>, Now' = Now, run'.rows = run.rows,
         run'.plans = run.plans, run'.todo = run.todo, run'.phase = run.phase
  PROVE  BooksInv' /\ HeadInv'
<1>1. \A b \in Books : /\ Homes(disk', b) = Homes(disk, b)
                       /\ Carried(disk, b, run.plans[b])' <=> Carried(disk, b, run.plans[b])
  BY DEF Carried
<1>2. BooksInv'
  BY <1>1 DEF BooksInv
<1>3. Carried(disk, Head(run.todo), Now)' <=> Carried(disk, Head(run.todo), Now)
  BY DEF Carried
<1>4. HeadInv'
  BY <1>3 DEF HeadInv
<1>5. QED
  BY <1>2, <1>4

\* Where every file of a book is what it was, and no other is a file of it.
LEMMA SameHomes ==
  ASSUME NEW d, Tree(d), NEW e, Tree(e), NEW b \in Books,
         \A q \in DOMAIN d : \A n \in Parts[b] : d[q] = <<b, n>> => q \in DOMAIN e /\ e[q] = <<b, n>>,
         \A q \in DOMAIN e : \A n \in Parts[b] : e[q] = <<b, n>> => q \in DOMAIN d /\ d[q] = <<b, n>>
  PROVE  Homes(e, b) = Homes(d, b)
<1>1. Homes(d, b) \subseteq Homes(e, b)
  BY HomesKept
<1>2. Homes(e, b) \subseteq Homes(d, b)
  BY HomesKept
<1>3. QED
  BY <1>1, <1>2

\* A run that does not end in a report reports nothing.
LEMMA ThrowReport ==
  ASSUME SoundInv, ReportInv, Throw, UNCHANGED <<server, kept>> PROVE ReportInv'
<1>1. IsRun(run) /\ run' = [run EXCEPT !.phase = "threw"]
  BY DEF SoundInv, PlansInv, Throw
<1>2. run'.rows = run.rows /\ run'.plans = run.plans /\ run'.todo = run.todo /\ run'.phase = "threw"
  BY <1>1 DEF IsRun, Fields
<1>3. BooksInv' /\ HeadInv'
  BY <1>2 DEF BooksInv, HeadInv, Working
<1>4. QED
  BY <1>2, <1>3, NamesStay, TodoStays DEF ReportInv

LEMMA MakeFoldersReport == ASSUME SoundInv, SoundInv', ReportInv, MakeFolders PROVE ReportInv'
<1>1. /\ run.phase = "checked" /\ UNCHANGED <<server, kept, began>> /\ IsRun(run)
      /\ Tree(disk) /\ Tree(disk')
  BY DEF MakeFolders, Stays, SoundInv, PlansInv, DiskInv
<1>2. CASE disk' = WithFolders(disk, Now.to) /\ run' = [run EXCEPT !.phase = "made"]
  <2>1. /\ run'.rows = run.rows /\ run'.plans = run.plans /\ run'.todo = run.todo
        /\ run'.phase = "made"
    BY <1>1, <1>2 DEF IsRun, Fields
  <2>2. /\ \A q \in DOMAIN disk : q \in DOMAIN disk' /\ disk'[q] = disk[q]
        /\ \A q \in DOMAIN disk' : (q \in DOMAIN disk /\ disk'[q] = disk[q]) \/ disk'[q] = Folder
    BY <1>2 DEF WithFolders
  <2>3. \A b \in Books : Homes(disk', b) = Homes(disk, b)
    <3>1. TAKE b \in Books
    <3>2. \A q \in DOMAIN disk' : \A n \in Parts[b] :
            disk'[q] = <<b, n>> => q \in DOMAIN disk /\ disk[q] = <<b, n>>
      BY <2>2, Contents
    <3>3. \A q \in DOMAIN disk : \A n \in Parts[b] :
            disk[q] = <<b, n>> => q \in DOMAIN disk' /\ disk'[q] = <<b, n>>
      BY <2>2
    <3>4. QED
      BY <1>1, <3>2, <3>3, SameHomes
  <2>4. BooksInv'
    BY <1>1, <2>1, <2>3, BooksStay DEF ReportInv, Working
  <2>5. HeadInv'
    BY <2>1 DEF HeadInv
  <2>6. QED
    BY <1>1, <2>1, <2>4, <2>5, NamesStay, TodoStays DEF ReportInv
<1>3. CASE Throw
  BY <1>1, <1>3, ThrowReport
<1>4. QED
  BY <1>2, <1>3 DEF MakeFolders

\* A rename takes the book at hand along, and no other.
LEMMA RenameReport == ASSUME SoundInv, SoundInv', ReportInv, Alone, Rename PROVE ReportInv'
<1> DEFINE from == Now.from
           to == Now.to
           h == Head(run.todo)
           R(q) == Rebase(q, from, to)
<1>1. /\ run.phase = "made" /\ UNCHANGED <<server, kept, began>> /\ IsRun(run) /\ PlansInv
      /\ run.todo # <<>> /\ FromInv /\ ToInv
      /\ Tree(disk) /\ Shelved(disk) /\ Tree(disk')
      /\ NamesInv /\ TodoInv /\ BooksInv
  BY DEF Rename, Stays, SoundInv, PlansInv, DiskInv, StepInv, Moving, ReportInv
<1>2. CASE Throw
  BY <1>1, <1>2, ThrowReport
<1>3. CASE run' = [run EXCEPT !.phase = "copying", !.due = Under(disk, Now.from)] /\ UNCHANGED disk
  <2>1. /\ run'.rows = run.rows /\ run'.plans = run.plans /\ run'.todo = run.todo
        /\ run'.phase = "copying"
    BY <1>1, <1>3 DEF IsRun, Fields
  <2>2. \A b \in Books : Homes(disk', b) = Homes(disk, b)
    BY <1>3
  <2>3. BooksInv'
    BY <1>1, <2>1, <2>2, BooksStay DEF Working
  <2>4. HeadInv'
    BY <2>1 DEF HeadInv
  <2>5. QED
    BY <1>1, <2>1, <2>3, <2>4, NamesStay, TodoStays DEF ReportInv
<1>4. CASE /\ ~IsPrefix(from, to) /\ CanRename(disk, from, to)
           /\ disk' = Renamed(disk, from, to) /\ run' = Prune(run)
  <2>1. /\ run'.rows = run.rows /\ run'.plans = run.plans /\ run'.todo = run.todo
        /\ run'.phase = "pruning"
    BY <1>1, <1>4 DEF Prune, IsRun, Fields
  <2>2. /\ SoundPlan(Now) /\ Apart(Now) /\ from \in DOMAIN disk
        /\ \A p \in DOMAIN disk : IsPrefix(to, p) => Slight(disk[p], hand)
        /\ \A q \in Ancestors(to) : q \in DOMAIN disk /\ disk[q] = Folder
    BY <1>1, <1>4, NowSound DEF ToInv, FromInv, Under, Apart
  <2>3. h \in Books /\ run.rows[h] # "moved" /\ h \in DOMAIN run.plans
    BY <1>1, HeadNotMoved, NowSound
  <2>4. /\ from \in Path /\ to \in Path /\ to # Nowhere
    BY <2>2, PlanPaths
  <2>5. /\ \A q \in DOMAIN disk : ~IsPrefix(from, q) /\ ~IsPrefix(to, q) =>
              q \in DOMAIN disk' /\ disk'[q] = disk[q]
        /\ \A q \in DOMAIN disk : IsPrefix(from, q) => R(q) \in DOMAIN disk' /\ disk'[R(q)] = disk[q]
        /\ \A q \in DOMAIN disk' :
              \/ q \in DOMAIN disk /\ ~IsPrefix(from, q) /\ ~IsPrefix(to, q)
              \/ \E x \in DOMAIN disk : IsPrefix(from, x) /\ q = R(x)
    <3>1. \A e : e = Renamed(disk, from, to) =>
            /\ \A q \in DOMAIN disk : ~IsPrefix(from, q) /\ ~IsPrefix(to, q) =>
                 q \in DOMAIN e /\ e[q] = disk[q]
            /\ \A q \in DOMAIN disk : IsPrefix(from, q) => R(q) \in DOMAIN e /\ e[R(q)] = disk[q]
            /\ \A q \in DOMAIN e :
                 \/ q \in DOMAIN disk /\ ~IsPrefix(from, q) /\ ~IsPrefix(to, q)
                 \/ \E x \in DOMAIN disk : IsPrefix(from, x) /\ q = R(x)
      BY <1>1, <1>4, <2>2, <2>4, RenamedThere DEF Apart
    <3>2. QED
      BY <1>4, <3>1
  <2>6. ASSUME NEW b \in Books, b # h PROVE Homes(disk', b) = Homes(disk, b)
    <3>1. \A q \in DOMAIN disk : \A n \in Parts[b] : disk[q] = <<b, n>> =>
            ~IsPrefix(from, q) /\ ~IsPrefix(to, q)
      BY <1>1, <2>2, <2>6, NotSlight DEF Alone, Under
    <3>2. \A q \in DOMAIN disk : \A n \in Parts[b] :
            disk[q] = <<b, n>> => q \in DOMAIN disk' /\ disk'[q] = <<b, n>>
      BY <2>5, <3>1
    <3>3. \A q \in DOMAIN disk' : \A n \in Parts[b] :
            disk'[q] = <<b, n>> => q \in DOMAIN disk /\ disk[q] = <<b, n>>
      <4> HIDE DEF R
      <4>1. QED
        BY <2>5, <3>1
    <3>4. QED
      BY <1>1, <3>2, <3>3, SameHomes
  <2>7. BooksInv'
    BY <1>1, <2>1, <2>3, <2>6, BooksStay DEF Working
  <2>8. Carried(disk, Head(run.todo), Now)'
    <3>1. SUFFICES ASSUME HomeOf(Now, from) \in began[h]
                   PROVE  HomeOf(Now, to) \in Homes(disk', h) /\ HomeOf(Now, from) \notin Homes(disk', h)
      BY <1>1, <2>1 DEF Carried, Now, HomeOf
    <3>2. Named(Now, h)
      BY <1>1, <2>3 DEF NamesInv, Now
    <3>3. HomeOf(Now, from) \in Homes(disk, h)
      BY <1>1, <2>3, <3>1 DEF BooksInv, Working
    <3>4. HomeOf(Now, to) \in Homes(disk', h)
      <4>1. \A q \in DOMAIN disk : \A n \in Parts[h] : IsPrefix(from, q) /\ disk[q] = <<h, n>> =>
              R(q) \in DOMAIN disk' /\ disk'[R(q)] = <<h, n>>
        BY <2>5
      <4>2. QED
        BY <1>1, <2>2, <2>3, <3>2, <3>3, <4>1, HomeCarried
    <3>5. \A q \in DOMAIN disk' : ~IsPrefix(from, q)
      <4>1. ASSUME NEW x \in DOMAIN disk, IsPrefix(from, x) PROVE ~IsPrefix(from, R(x))
        <5>1. x \in Path
          BY <1>1 DEF Tree
        <5>2. R(x) \in Path /\ IsPrefix(to, R(x))
          BY <2>4, <4>1, <5>1, Rebased
        <5>3. QED
          BY <2>2, <5>2, NotBoth
      <4>2. QED
        BY <2>5, <4>1
    <3>6. HomeOf(Now, from) \notin Homes(disk', h)
      BY <2>2, <2>3, <3>2, <3>5, HomeGone
    <3>7. QED
      BY <3>4, <3>6
  <2>9. HeadInv'
    BY <2>1, <2>8 DEF HeadInv
  <2>10. QED
    BY <1>1, <2>1, <2>7, <2>9, NamesStay, TodoStays DEF ReportInv
<1>5. QED
  BY <1>2, <1>3, <1>4 DEF Rename

\* What the copy writes over is no book's.
LEMMA CopyReport == ASSUME SoundInv, SoundInv', ReportInv, Alone, Copy PROVE ReportInv'
<1> DEFINE from == Now.from
           to == Now.to
           h == Head(run.todo)
           R(q) == Rebase(q, from, to)
<1>1. /\ run.phase = "copying" /\ UNCHANGED <<server, kept, began>> /\ IsRun(run) /\ PlansInv
      /\ run.todo # <<>> /\ CopyInv
      /\ Tree(disk) /\ Shelved(disk) /\ Tree(disk')
      /\ NamesInv /\ TodoInv /\ BooksInv
  BY DEF Copy, Stays, SoundInv, PlansInv, DiskInv, StepInv, Moving, ReportInv
<1>2. CASE Throw
  BY <1>1, <1>2, ThrowReport
<1>3. ASSUME NEW q \in Under(disk, from) \ run.copied, disk' = Put(disk, R(q), disk[q]),
             run' = [run EXCEPT !.copied = run.copied \cup {q}]
      PROVE  ReportInv'
  <2>1. /\ run'.rows = run.rows /\ run'.plans = run.plans /\ run'.todo = run.todo
        /\ run'.phase = "copying"
    BY <1>1, <1>3 DEF IsRun, Fields
  <2>2. SoundPlan(Now) /\ h \in Books /\ run.rows[h] # "moved"
    BY <1>1, NowSound, HeadNotMoved
  <2>3. /\ from \in Path /\ to \in Path /\ q \in Path /\ q \in DOMAIN disk /\ IsPrefix(from, q)
    BY <1>1, <1>3, <2>2, PlanPaths DEF Under, Tree
  <2>4. R(q) \in Path /\ IsPrefix(to, R(q))
    BY <2>3, Rebased
  <2>5. R(q) \in DOMAIN disk => Slight(disk[R(q)], hand)
    <3>1. ASSUME NEW x \in run.copied PROVE R(x) # R(q)
      <4>1. x \in Path /\ IsPrefix(from, x)
        BY <1>1 DEF CopyInv, Under, Tree
      <4>2. QED
        BY <1>3, <2>3, <4>1, RebasedBack
    <3> HIDE DEF R
    <3>2. ASSUME R(q) \in DOMAIN disk PROVE Slight(disk[R(q)], hand)
      <4>1. R(q) \in Under(disk, to)
        BY <2>4, <3>2 DEF Under
      <4>2. QED
        BY <1>1, <3>1, <4>1 DEF CopyInv, R
    <3>3. QED
      BY <3>2
  <2> HIDE DEF R
  <2>6. /\ DOMAIN disk' = DOMAIN disk \cup {R(q)} /\ disk'[R(q)] = disk[q]
        /\ \A p \in DOMAIN disk : p # R(q) => disk'[p] = disk[p]
    BY <1>3 DEF Put
  <2>7. \A b \in Books : \A p \in DOMAIN disk : \A n \in Parts[b] :
          disk[p] = <<b, n>> => p \in DOMAIN disk' /\ disk'[p] = <<b, n>>
    BY <2>5, <2>6, NotSlight
  <2>8. ASSUME NEW b \in Books, b # h PROVE Homes(disk', b) = Homes(disk, b)
    <3>1. \A n \in Parts[b] : disk[q] # <<b, n>>
      BY <1>1, <1>3, <2>8 DEF Alone
    <3>2. \A p \in DOMAIN disk' : \A n \in Parts[b] :
            disk'[p] = <<b, n>> => p \in DOMAIN disk /\ disk[p] = <<b, n>>
      BY <2>6, <3>1
    <3>3. QED
      BY <1>1, <2>7, <3>2, SameHomes
  <2>9. Homes(disk, h) \subseteq Homes(disk', h)
    BY <1>1, <2>2, <2>7, HomesKept
  <2>10. BooksInv'
    BY <1>1, <2>1, <2>2, <2>8, <2>9, BooksStay DEF Working
  <2>11. HeadInv'
    BY <2>1 DEF HeadInv
  <2>12. QED
    BY <1>1, <2>1, <2>10, <2>11, NamesStay, TodoStays DEF ReportInv
<1>4. QED
  BY <1>2, <1>3 DEF Copy

\* The copy is whole: so is the book at the target.
LEMMA CopyEndsReport == ASSUME SoundInv, SoundInv', ReportInv, CopyEnds PROVE ReportInv'
<1> DEFINE from == Now.from
           to == Now.to
           h == Head(run.todo)
           R(q) == Rebase(q, from, to)
<1>1. /\ run.phase = "copying" /\ UNCHANGED <<disk, server, kept, began>> /\ IsRun(run) /\ PlansInv
      /\ run.todo # <<>> /\ run.due \subseteq run.copied /\ CopyInv /\ ToInv
      /\ Tree(disk) /\ Shelved(disk)
      /\ NamesInv /\ TodoInv /\ BooksInv /\ run' = [run EXCEPT !.phase = "removing"]
  BY DEF CopyEnds, Copied, Stays, SoundInv, PlansInv, DiskInv, StepInv, Moving, ReportInv
<1>2. /\ run'.rows = run.rows /\ run'.plans = run.plans /\ run'.todo = run.todo
      /\ run'.phase = "removing" /\ Now' = Now
  BY <1>1 DEF IsRun, Fields, Now
<1>3. SoundPlan(Now) /\ Apart(Now) /\ h \in Books /\ run.rows[h] # "moved" /\ h \in DOMAIN run.plans
  BY <1>1, NowSound, HeadNotMoved DEF CopyInv, ToInv, Apart
<1>4. \A b \in Books : Homes(disk', b) = Homes(disk, b)
  BY <1>1
<1>5. BooksInv'
  BY <1>1, <1>2, <1>4, BooksStay DEF Working
<1>6. ASSUME HomeOf(Now, from) \in began[h]
      PROVE  /\ HomeOf(Now, to) \in Homes(disk, h)
             /\ \A n \in Parts[h] : ~IsPrefix(from, Append(HomeOf(Now, to), n))
  <2>1. Named(Now, h)
    BY <1>1, <1>3 DEF NamesInv, Now
  <2>2. HomeOf(Now, from) \in Homes(disk, h)
    BY <1>1, <1>3, <1>6 DEF BooksInv, Working
  <2>3. ASSUME NEW q \in DOMAIN disk, NEW n \in Parts[h], IsPrefix(from, q), disk[q] = <<h, n>>
        PROVE  R(q) \in DOMAIN disk /\ disk[R(q)] = <<h, n>>
    <3>1. q \in Under(disk, from) /\ ~Slight(disk[q], hand)
      BY <2>3, NotSlight DEF Under
    <3>2. q \in run.due
      BY <1>1, <3>1 DEF CopyInv
    <3>3. QED
      BY <1>1, <2>3, <3>2 DEF CopyInv
  <2>4. QED
    BY <1>1, <1>3, <2>1, <2>2, <2>3, HomeCarried
<1>7. HeadInv'
  BY <1>1, <1>2, <1>4, <1>6 DEF HeadInv, HomeOf
<1>8. QED
  BY <1>1, <1>2, <1>5, <1>7, NamesStay, TodoStays DEF ReportInv

\* Removing the source takes nothing from any other book, nor from the target.
LEMMA DeleteReport == ASSUME SoundInv, SoundInv', ReportInv, Alone, Delete PROVE ReportInv'
<1> DEFINE from == Now.from
           to == Now.to
           h == Head(run.todo)
<1>1. /\ run.phase = "removing" /\ UNCHANGED <<server, kept, began>> /\ IsRun(run) /\ PlansInv
      /\ run.todo # <<>>
      /\ Tree(disk) /\ Tree(disk')
      /\ NamesInv /\ TodoInv /\ BooksInv /\ HeadInv
  BY DEF Delete, Stays, SoundInv, PlansInv, DiskInv, Moving, ReportInv
<1>2. SoundPlan(Now) /\ h \in Books /\ run.rows[h] # "moved" /\ h \in DOMAIN run.plans
  BY <1>1, NowSound, HeadNotMoved
<1>3. ASSUME NEW q \in Under(disk, from), disk' = Without(disk, q), UNCHANGED run
      PROVE  ReportInv'
  <2>1. /\ run'.rows = run.rows /\ run'.plans = run.plans /\ run'.todo = run.todo
        /\ run'.phase = "removing" /\ Now' = Now
    BY <1>1, <1>3 DEF Now
  <2>2. /\ DOMAIN disk' = DOMAIN disk \ {q} /\ \A p \in DOMAIN disk' : disk'[p] = disk[p]
    BY <1>3 DEF Without
  <2>3. ASSUME NEW b \in Books, b # h PROVE Homes(disk', b) = Homes(disk, b)
    <3>1. \A n \in Parts[b] : disk[q] # <<b, n>>
      BY <1>1, <1>3, <2>3 DEF Alone
    <3>2. /\ \A p \in DOMAIN disk : \A n \in Parts[b] :
               disk[p] = <<b, n>> => p \in DOMAIN disk' /\ disk'[p] = <<b, n>>
          /\ \A p \in DOMAIN disk' : \A n \in Parts[b] :
               disk'[p] = <<b, n>> => p \in DOMAIN disk /\ disk[p] = <<b, n>>
      BY <2>2, <3>1
    <3>3. QED
      BY <1>1, <3>2, SameHomes
  <2>4. BooksInv'
    BY <1>1, <1>2, <2>1, <2>3, BooksStay DEF Working
  <2>5. ASSUME HomeOf(Now, from) \in began[h]
        PROVE  /\ HomeOf(Now, to) \in Homes(disk', h)
               /\ \A n \in Parts[h] : ~IsPrefix(from, Append(HomeOf(Now, to), n))
    <3> DEFINE r == HomeOf(Now, to)
    <3>1. r \in Homes(disk, h) /\ \A n \in Parts[h] : ~IsPrefix(from, Append(r, n))
      BY <1>1, <2>5 DEF HeadInv
    <3> HIDE DEF r
    <3>2. /\ r \in Path /\ r # Nowhere
          /\ \A n \in Parts[h] : Append(r, n) \in DOMAIN disk /\ disk[Append(r, n)] = <<h, n>>
      BY <1>1, <3>1 DEF Homes, WholeIn, Tree
    <3>3. \A n \in Parts[h] : Append(r, n) \in DOMAIN disk' /\ disk'[Append(r, n)] = <<h, n>>
      BY <1>3, <2>2, <3>1, <3>2 DEF Under
    <3>4. r \in Homes(disk', h)
      BY <1>1, <1>2, <3>2, <3>3, HomeThere
    <3>5. QED
      BY <3>1, <3>4 DEF r
  <2>6. HeadInv'
    BY <1>1, <2>1, <2>5 DEF HeadInv, HomeOf
  <2>7. QED
    BY <1>1, <2>1, <2>4, <2>6, NamesStay, TodoStays DEF ReportInv
<1>4. CASE Under(disk, from) = {} /\ run' = Prune(run) /\ UNCHANGED disk
  <2>1. /\ run'.rows = run.rows /\ run'.plans = run.plans /\ run'.todo = run.todo
        /\ run'.phase = "pruning" /\ Now' = Now
    BY <1>1, <1>4 DEF Prune, IsRun, Fields, Now
  <2>2. \A b \in Books : Homes(disk', b) = Homes(disk, b)
    BY <1>4
  <2>3. BooksInv'
    BY <1>1, <2>1, <2>2, BooksStay DEF Working
  <2>4. Named(Now, h)
    BY <1>1, <1>2 DEF NamesInv, Now
  <2>5. \A q \in DOMAIN disk : ~IsPrefix(from, q)
    BY <1>4 DEF Under
  <2>6. HomeOf(Now, from) \notin Homes(disk, h)
    BY <1>2, <2>4, <2>5, HomeGone
  <2>7. Carried(disk, h, Now)
    BY <1>1, <2>6 DEF Carried, HeadInv
  <2>8. Carried(disk, Head(run.todo), Now)'
    BY <1>1, <1>4, <2>1, <2>7 DEF Carried, HomeOf, Homes, WholeIn
  <2>9. HeadInv'
    BY <2>1, <2>8 DEF HeadInv
  <2>10. QED
    BY <1>1, <2>1, <2>3, <2>9, NamesStay, TodoStays DEF ReportInv
<1>5. QED
  BY <1>3, <1>4 DEF Delete

\* The rest of the books once the one at hand is done with.
LEMMA TodoGoesOn ==
  ASSUME PlansInv, TodoInv, run.todo # <<>>, run'.todo = Tail(run.todo),
         \A b \in Books : b # Head(run.todo) => run'.rows[b] = run.rows[b]
  PROVE  TodoInv'
<1>1. run.todo \in Seq(DOMAIN run.plans) /\ DOMAIN run.plans \subseteq Books
  BY DEF PlansInv, SoundPlans
<1>2. /\ Len(run.todo) \in Nat /\ Len(run.todo) >= 1 /\ Head(run.todo) = run.todo[1]
      /\ Len(Tail(run.todo)) = Len(run.todo) - 1
      /\ \A i \in 1 .. Len(run.todo) - 1 : Tail(run.todo)[i] = run.todo[i + 1]
  BY <1>1, HeadTailProperties
<1>3. ASSUME NEW i \in 1 .. Len(run.todo) - 1
      PROVE  /\ i + 1 \in 1 .. Len(run.todo) /\ run'.todo[i] = run.todo[i + 1]
             /\ run.todo[i + 1] \in Books /\ run.todo[i + 1] # Head(run.todo)
             /\ run'.rows[run'.todo[i]] # "moved"
  <2>1. i + 1 \in 1 .. Len(run.todo) /\ i + 1 # 1 /\ 1 \in 1 .. Len(run.todo)
    BY <1>2
  <2>2. run'.todo[i] = run.todo[i + 1] /\ run.todo[i + 1] \in Books
    BY <1>1, <1>2, <2>1
  <2>3. run.todo[i + 1] # Head(run.todo) /\ run.rows[run.todo[i + 1]] # "moved"
    BY <1>2, <2>1 DEF TodoInv
  <2>4. QED
    BY <2>1, <2>2, <2>3
<1>4. ASSUME NEW i \in 1 .. Len(run.todo) - 1, NEW j \in 1 .. Len(run.todo) - 1,
             run'.todo[i] = run'.todo[j]
      PROVE  i = j
  <2>1. i + 1 = j + 1
    BY <1>3, <1>4 DEF TodoInv
  <2>2. QED
    BY <1>2, <2>1
<1>5. QED
  BY <1>2, <1>3, <1>4 DEF TodoInv

LEMMA PruneOneReport == ASSUME SoundInv, SoundInv', ReportInv, PruneOne PROVE ReportInv'
<1> DEFINE h == Head(run.todo)
<1>1. /\ run.phase = "pruning" /\ UNCHANGED <<server, kept, began>> /\ IsRun(run) /\ PlansInv
      /\ run.todo # <<>> /\ PruneInv
      /\ Tree(disk) /\ Tree(disk')
      /\ NamesInv /\ TodoInv /\ BooksInv /\ HeadInv
  BY DEF PruneOne, Stays, SoundInv, PlansInv, DiskInv, Moving, ReportInv, StepInv
<1>2. h \in Books /\ run.rows[h] # "moved" /\ Carried(disk, h, Now)
  BY <1>1, HeadNotMoved DEF HeadInv
<1>3. CASE /\ run.dir # Nowhere /\ Prunable(disk, run.dir, Now.root)
           /\ disk' = Without(disk, run.dir)
           /\ run' = [run EXCEPT !.dir = Parent(run.dir), !.depth = run.depth + 1]
  <2>1. /\ run'.rows = run.rows /\ run'.plans = run.plans /\ run'.todo = run.todo
        /\ run'.phase = "pruning" /\ Now' = Now
    BY <1>1, <1>3 DEF IsRun, Fields, Now
  <2>2. /\ disk[run.dir] = Folder /\ DOMAIN disk' = DOMAIN disk \ {run.dir}
        /\ \A p \in DOMAIN disk' : disk'[p] = disk[p]
    BY <1>1, <1>3 DEF PruneInv, Without
  <2>3. \A b \in Books : Homes(disk', b) = Homes(disk, b)
    <3>1. TAKE b \in Books
    <3>2. /\ \A p \in DOMAIN disk : \A n \in Parts[b] :
               disk[p] = <<b, n>> => p \in DOMAIN disk' /\ disk'[p] = <<b, n>>
          /\ \A p \in DOMAIN disk' : \A n \in Parts[b] :
               disk'[p] = <<b, n>> => p \in DOMAIN disk /\ disk[p] = <<b, n>>
      BY <2>2, Contents
    <3>3. QED
      BY <1>1, <3>2, SameHomes
  <2>4. BooksInv'
    BY <1>1, <2>1, <2>3, BooksStay DEF Working
  <2>5. HeadInv'
    BY <1>1, <1>2, <2>1, <2>3 DEF HeadInv, Carried, HomeOf
  <2>6. QED
    BY <1>1, <2>1, <2>4, <2>5, NamesStay, TodoStays DEF ReportInv
<1>4. CASE run' = Moved(run) /\ UNCHANGED disk
  <2>1. PICK s : s = Skip(run, "moved")
    OBVIOUS
  <2>2. /\ DOMAIN s = Fields /\ s.phase = "next" /\ s.plans = run.plans /\ s.todo = Tail(run.todo)
        /\ s.rows = [run.rows EXCEPT ![h] = "moved"]
    BY <1>1, <2>1 DEF Skip, IsRun, Fields
  <2>3. run' = [s EXCEPT !.touched = s.touched \cup {Library[h]}, !.dir = Nowhere, !.depth = 0]
    BY <1>4, <2>1 DEF Moved
  <2>4. /\ run'.rows = s.rows /\ run'.phase = "next" /\ run'.plans = run.plans
        /\ run'.todo = Tail(run.todo)
    BY <2>2, <2>3 DEF Fields
  <2>5. run'.rows[h] = "moved" /\ \A b \in Books : b # h => run'.rows[b] = run.rows[b]
    BY <1>1, <1>2, <2>2, <2>4 DEF IsRun
  <2>6. TodoInv'
    BY <1>1, <2>4, <2>5, TodoGoesOn
  <2>7. BooksInv'
    <3>1. SUFFICES ASSUME NEW b \in Books
                   PROVE  IF run'.rows[b] = "moved" THEN Carried(disk, b, run.plans[b])'
                          ELSE began[b] \subseteq Homes(disk, b)
      BY <1>1, <1>4, <2>4 DEF BooksInv, Homes, WholeIn
    <3>2. CASE b = h
      BY <1>1, <1>2, <1>4, <2>4, <2>5, <3>2 DEF Carried, Now, HomeOf, Homes, WholeIn
    <3>3. CASE b # h
      BY <1>1, <1>4, <2>4, <2>5, <3>3 DEF BooksInv, Working, Carried, HomeOf, Homes, WholeIn
    <3>4. QED
      BY <3>2, <3>3
  <2>8. HeadInv'
    BY <2>4 DEF HeadInv
  <2>9. QED
    BY <1>1, <2>4, <2>6, <2>7, <2>8, NamesStay DEF ReportInv
<1>5. QED
  BY <1>3, <1>4 DEF PruneOne

\* A run that ends reports what its rows say.
LEMMA EndReport ==
  ASSUME SoundInv, ReportInv, NEW r, IsRun(r), run.phase \in {"next", "scanning"},
         UNCHANGED <<disk, server, began>>, r.plans = run.plans,
         \A b \in Books : IF run.rows[b] = "moved" THEN r.rows[b] = "moved" ELSE r.rows[b] # "moved",
         End(r)
  PROVE  ReportInv'
<1>1. /\ run'.rows = r.rows /\ run'.plans = run.plans /\ run'.todo = <<>>
      /\ run'.phase \in {"returned", "scanning"}
  BY DEF End, Finish, IsRun, Fields
<1>2. NamesInv'
  <2>1. kept' = kept \/ kept' = Kept(r)
    BY DEF End, Finish
  <2>2. \A b \in DOMAIN Kept(r) : b \in DOMAIN run.plans /\ Kept(r)[b] = run.plans[b]
    BY DEF Kept
  <2>3. QED
    BY <1>1, <2>1, <2>2 DEF ReportInv, NamesInv, Named
<1>3. TodoInv'
  BY <1>1 DEF TodoInv
<1>4. BooksInv'
  <2>1. \A b \in Books : IF run.rows[b] = "moved" THEN Carried(disk, b, run.plans[b])
                         ELSE began[b] \subseteq Homes(disk, b)
    BY DEF ReportInv, BooksInv, Working
  <2>2. QED
    BY <1>1, <2>1 DEF BooksInv, Carried, HomeOf, Homes, WholeIn
<1>5. HeadInv'
  BY <1>1 DEF HeadInv
<1>6. QED
  BY <1>2, <1>3, <1>4, <1>5 DEF ReportInv

LEMMA NextPlanReport == ASSUME SoundInv, SoundInv', ReportInv, NextPlan PROVE ReportInv'
<1>1. /\ run.phase = "next" /\ UNCHANGED <<disk, server, began>> /\ IsRun(run) /\ PlansInv
      /\ NamesInv /\ TodoInv /\ BooksInv
  BY DEF NextPlan, Stays, SoundInv, PlansInv, ReportInv
<1>2. CASE End(run)
  BY <1>1, <1>2, EndReport
<1>3. CASE End(Marked(run))
  <2>1. IsRun(Marked(run)) /\ Marked(run).plans = run.plans
    BY <1>1, MarkedRun DEF Marked, IsRun, Fields
  <2>2. ASSUME NEW b \in Books
        PROVE  IF run.rows[b] = "moved" THEN Marked(run).rows[b] = "moved"
               ELSE Marked(run).rows[b] # "moved"
    <3>1. Marked(run).rows[b] = IF b \in ToSet(run.todo) THEN "not-reached" ELSE run.rows[b]
      BY <1>1 DEF Marked, IsRun, Fields
    <3>2. b \in ToSet(run.todo) => run.rows[b] # "moved"
      <4>1. run.todo \in Seq(DOMAIN run.plans)
        BY <1>1 DEF PlansInv
      <4>2. \A i \in DOMAIN run.todo : i \in 1 .. Len(run.todo)
        BY <4>1
      <4>3. QED
        BY <1>1, <4>2 DEF ToSet, TodoInv
    <3>3. QED
      BY <3>1, <3>2
  <2>3. QED
    BY <1>1, <1>3, <2>1, <2>2, EndReport
<1>4. ASSUME NEW code \in {"changed-since", "blocked", "missing"}, run' = Skip(run, code), run.todo # <<>>,
             UNCHANGED kept
      PROVE  ReportInv'
  <2>1. /\ run'.plans = run.plans /\ run'.todo = Tail(run.todo) /\ run'.phase = "next"
        /\ run'.rows = [run.rows EXCEPT ![Head(run.todo)] = code]
    BY <1>1, <1>4 DEF Skip, IsRun, Fields
  <2>2. Head(run.todo) \in Books /\ run.rows[Head(run.todo)] # "moved"
    BY <1>1, <1>4, HeadNotMoved
  <2>3. /\ run'.rows[Head(run.todo)] # "moved"
        /\ \A b \in Books : b # Head(run.todo) => run'.rows[b] = run.rows[b]
    BY <1>1, <2>1, <2>2 DEF IsRun
  <2>4. TodoInv'
    BY <1>1, <1>4, <2>1, <2>3, TodoGoesOn
  <2>5. BooksInv'
    <3>1. \A b \in Books : IF run.rows[b] = "moved" THEN Carried(disk, b, run.plans[b])
                           ELSE began[b] \subseteq Homes(disk, b)
      BY <1>1 DEF BooksInv, Working
    <3>2. ASSUME NEW b \in Books
          PROVE  IF run'.rows[b] = "moved" THEN Carried(disk, b, run.plans[b])'
                 ELSE began'[b] \subseteq Homes(disk', b)
      <4>1. run'.rows[b] = "moved" <=> run.rows[b] = "moved"
        BY <2>2, <2>3
      <4>2. Carried(disk, b, run.plans[b])' <=> Carried(disk, b, run.plans[b])
        BY <1>1, <2>1 DEF Carried
      <4>3. QED
        BY <1>1, <3>1, <4>1, <4>2
    <3>3. QED
      BY <3>2 DEF BooksInv
  <2>6. HeadInv'
    BY <2>1 DEF HeadInv
  <2>7. QED
    BY <1>1, <1>4, <2>1, <2>4, <2>5, <2>6, NamesStay DEF ReportInv
<1>5. CASE run' = [run EXCEPT !.phase = "checked"] /\ UNCHANGED kept
  <2>1. /\ run'.rows = run.rows /\ run'.plans = run.plans /\ run'.todo = run.todo
        /\ run'.phase = "checked"
    BY <1>1, <1>5 DEF IsRun, Fields
  <2>2. \A b \in Books : Homes(disk', b) = Homes(disk, b)
    BY <1>1
  <2>3. BooksInv'
    BY <1>1, <2>1, <2>2, BooksStay DEF Working
  <2>4. HeadInv'
    BY <2>1 DEF HeadInv
  <2>5. QED
    BY <1>1, <1>5, <2>1, <2>3, <2>4, NamesStay, TodoStays DEF ReportInv
<1>6. QED
  BY <1>1, <1>2, <1>3, <1>4, <1>5 DEF NextPlan

LEMMA RequestScanReport == ASSUME SoundInv, SoundInv', ReportInv, RequestScan PROVE ReportInv'
<1>1. /\ run.phase = "scanning" /\ UNCHANGED <<disk, server, began>> /\ IsRun(run) /\ PlansInv
      /\ NamesInv /\ TodoInv /\ BooksInv
  BY DEF RequestScan, Stays, SoundInv, PlansInv, ReportInv
<1>2. PICK lib \in run.touched :
        IF run.touched = {lib} THEN Finish([run EXCEPT !.touched = {}])
        ELSE run' = [run EXCEPT !.touched = run.touched \ {lib}] /\ UNCHANGED kept
  BY DEF RequestScan
<1>3. CASE run.touched = {lib}
  <2>1. PICK r : r = [run EXCEPT !.touched = {}]
    OBVIOUS
  <2>2. DOMAIN r = Fields /\ r.rows = run.rows /\ r.plans = run.plans /\ r.touched = {}
    BY <1>1, <2>1 DEF IsRun, Fields
  <2>3. End(r)
    BY <1>2, <1>3, <2>1, <2>2 DEF End
  <2>4. QED
    BY <1>1, <2>2, <2>3, EndReport DEF IsRun
<1>4. CASE run.touched # {lib}
  <2>1. run' = [run EXCEPT !.touched = run.touched \ {lib}] /\ kept' = kept
    BY <1>2, <1>4
  <2>2. /\ run'.rows = run.rows /\ run'.plans = run.plans
        /\ run'.todo = run.todo /\ run'.phase = "scanning"
    BY <1>1, <2>1 DEF IsRun, Fields
  <2>3. \A b \in Books : Homes(disk', b) = Homes(disk, b)
    BY <1>1
  <2>4. BooksInv'
    BY <1>1, <2>2, <2>3, BooksStay DEF Working
  <2>5. HeadInv'
    BY <2>2 DEF HeadInv
  <2>6. QED
    BY <1>1, <2>1, <2>2, <2>4, <2>5, NamesStay, TodoStays DEF ReportInv
<1>5. QED
  BY <1>3, <1>4

\* Each of the books to go through comes once.
LEMMA InOrderOnce ==
  ASSUME NEW S, S \subseteq Books
  PROVE  \A i, j \in 1 .. Len(SetToSeq(S)) : SetToSeq(S)[i] = SetToSeq(S)[j] => i = j
<1>1. IsFiniteSet(S)
  BY OrganizeAssumption, FS_Subset
<1>2. ExistsBijection(1 .. Cardinality(S), S) /\ Cardinality(S) \in Nat
  BY <1>1, FS_CardinalityType
<1>3. \E f \in [1 .. Cardinality(S) -> S] : IsInjective(f)
  BY <1>2 DEF ExistsBijection, Bijection, Injection
<1>4. SetToSeq(S) \in [1 .. Cardinality(S) -> S] /\ IsInjective(SetToSeq(S))
  BY <1>3 DEF SetToSeq
<1>5. DOMAIN SetToSeq(S) = 1 .. Cardinality(S) /\ Len(SetToSeq(S)) = Cardinality(S)
  BY <1>2, <1>4
<1>6. QED
  BY <1>4, <1>5 DEF IsInjective

\* A run begins with every book where it is, and none called moved.
LEMMA StartReport == ASSUME SoundInv, SoundInv', ReportInv, NEW kind, Start(kind) PROVE ReportInv'
<1>1. PICK single \in BOOLEAN, noScan \in BOOLEAN, unread \in SUBSET Books :
        LET r == [Idle EXCEPT !.kind = kind, !.single = single, !.noScan = noScan, !.phase = "next"] IN
        run' = IF kind = "apply" THEN [r EXCEPT !.plans = kept, !.todo = SetToSeq(DOMAIN kept)]
               ELSE Listed(r, unread)
  BY DEF Start
<1> DEFINE r == [Idle EXCEPT !.kind = kind, !.single = single, !.noScan = noScan, !.phase = "next"]
<1>2. IsRun(r) /\ r.phase = "next" /\ \A b \in Books : r.rows[b] # "moved"
  BY IdleRun DEF IsRun, Idle, Fields, NoRows
<1>3. /\ UNCHANGED <<disk, server, kept>> /\ PlansInv /\ NamesInv
      /\ began' = [b \in Books |-> Homes(disk, b)]
  BY DEF Start, SoundInv, ReportInv
<1> HIDE DEF r
<1>4. /\ run'.phase = "next" /\ \A b \in Books : run'.rows[b] # "moved"
      /\ \A b \in DOMAIN run'.plans : Named(run'.plans[b], b)
      /\ \E S : S \subseteq Books /\ run'.todo = SetToSeq(S) /\ SetToSeq(S) \in Seq(S)
  <2>1. CASE kind = "apply"
    <3>1. run' = [r EXCEPT !.plans = kept, !.todo = SetToSeq(DOMAIN kept)]
      BY <1>1, <2>1 DEF r
    <3>2. /\ run'.phase = "next" /\ run'.rows = r.rows
          /\ run'.plans = kept /\ run'.todo = SetToSeq(DOMAIN kept)
      BY <1>2, <3>1 DEF IsRun, Fields
    <3>3. DOMAIN kept \subseteq Books
      BY <1>3 DEF PlansInv, SoundPlans
    <3>4. SetToSeq(DOMAIN kept) \in Seq(DOMAIN kept)
      BY <3>3, InOrder
    <3>5. QED
      BY <1>2, <1>3, <3>2, <3>3, <3>4 DEF NamesInv
  <2>2. CASE kind # "apply"
    <3> DEFINE layout(b) == Layout[b \notin unread][b]
               rows == [b \in Books |-> CodeOf(r, b, layout(b), server[b])]
               due == {b \in Books : rows[b] = "planned"}
               plan(b) == [from |-> server[b].at, to |-> Target(b, layout(b), server[b]),
                           root |-> Root[b], file |-> server[b].loose]
    <3>1. run' = Listed(r, unread)
      BY <1>1, <2>2 DEF r
    <3>2. run'.phase = "next" /\ \A b \in Books : run'.rows[b] # "moved"
      BY <1>2, <3>1, ListedRun
    <3>3. run'.todo = SetToSeq(due) /\ run'.plans = [b \in due |-> plan(b)]
      BY <1>2, <3>1 DEF Listed, IsRun, Fields
    <3>4. \A b \in due : Named(plan(b), b)
      BY <1>3 DEF NamesInv, Named
    <3>5. due \subseteq Books
      OBVIOUS
    <3> HIDE DEF due, plan
    <3>6. SetToSeq(due) \in Seq(due)
      BY <3>5, InOrder
    <3>7. QED
      BY <3>2, <3>3, <3>4, <3>5, <3>6
  <2>3. QED
    BY <2>1, <2>2
<1>5. NamesInv'
  BY <1>3, <1>4 DEF NamesInv
<1>6. TodoInv'
  <2>1. PICK S : S \subseteq Books /\ run'.todo = SetToSeq(S) /\ SetToSeq(S) \in Seq(S)
    BY <1>4
  <2>2. \A i, j \in 1 .. Len(run'.todo) : run'.todo[i] = run'.todo[j] => i = j
    BY <2>1, InOrderOnce
  <2>3. \A i \in 1 .. Len(run'.todo) : run'.todo[i] \in Books
    BY <2>1
  <2>4. QED
    BY <1>4, <2>2, <2>3 DEF TodoInv
<1>7. BooksInv'
  BY <1>3, <1>4 DEF BooksInv, Homes, WholeIn
<1>8. HeadInv'
  BY <1>4 DEF HeadInv
<1>9. QED
  BY <1>5, <1>6, <1>7, <1>8 DEF ReportInv

LEMMA InitReport == Init => ReportInv
<1> SUFFICES ASSUME Init PROVE ReportInv
  OBVIOUS
<1>1. run = Idle /\ kept = NoPlans /\ server = [b \in Books |-> [at |-> First[b], loose |-> disk[First[b]] # Folder]]
  BY DEF Init
<1>2. run.phase = "idle" /\ run.todo = <<>> /\ DOMAIN run.plans = {}
  BY <1>1 DEF Idle, NoPlans
<1>3. TodoInv /\ BooksInv /\ HeadInv
  BY <1>2 DEF TodoInv, BooksInv, HeadInv, Working
<1>4. ASSUME NEW b \in Books, server[b].loose PROVE Last(server[b].at) \in Parts[b]
  <2>1. disk[First[b]] # Folder /\ server[b].at = First[b]
    BY <1>1, <1>4
  <2>2. First[b] \notin FirstFolders
    <3>1. SUFFICES ASSUME First[b] \in FirstFolders PROVE disk[First[b]] = Folder
      BY <2>1
    <3>2. QED
      BY <3>1 DEF Init
  <2>3. QED
    BY <2>1, <2>2, OrganizeAssumption
<1>5. NamesInv
  BY <1>1, <1>2, <1>4 DEF NamesInv, NoPlans
<1>6. QED
  BY <1>3, <1>5 DEF ReportInv

LEMMA CrashReport == ASSUME ReportInv, Crash PROVE ReportInv'
<1>1. UNCHANGED <<server, kept>> /\ run' = Idle /\ NamesInv
  BY DEF Crash, ReportInv
<1>2. run'.phase = "idle" /\ run'.todo = <<>> /\ DOMAIN run'.plans = {}
  BY <1>1 DEF Idle, NoPlans
<1>3. QED
  BY <1>1, <1>2 DEF ReportInv, NamesInv, TodoInv, BooksInv, HeadInv, Working

LEMMA StopReport == ASSUME SoundInv, ReportInv, Stop PROVE ReportInv'
<1>1. /\ UNCHANGED <<disk, server, kept, began>> /\ run' = [run EXCEPT !.abort = TRUE] /\ IsRun(run)
  BY DEF Stop, SoundInv, PlansInv
<1>2. /\ run'.rows = run.rows /\ run'.plans = run.plans /\ run'.todo = run.todo
      /\ run'.phase = run.phase /\ Now' = Now
  BY <1>1 DEF IsRun, Fields, Now
<1>3. BooksInv' /\ HeadInv'
  BY <1>1, <1>2, SameReport DEF ReportInv
<1>4. QED
  BY <1>1, <1>2, <1>3, NamesStay, TodoStays DEF ReportInv

\* Where AudiobookShelf finds a book loose, the path ends in a file of it.
LEMMA ScanReport == ASSUME SoundInv, ReportInv, Scan PROVE ReportInv'
<1>1. /\ UNCHANGED <<disk, kept, run, began>> /\ Tree(disk) /\ Shelved(disk) /\ NamesInv
      /\ server' = [b \in Books |->
           IF Homes(disk, b) = {} \/ \E p \in Homes(disk, b) : Place(b, p) = server[b] THEN server[b]
           ELSE Place(b, CHOOSE p \in Homes(disk, b) : TRUE)]
  BY DEF Scan, SoundInv, DiskInv, ReportInv
<1>2. ASSUME NEW b \in Books, NEW p \in Homes(disk, b), Place(b, p).loose
      PROVE  Last(Place(b, p).at) \in Parts[b]
  <2> DEFINE n == CHOOSE n \in Parts[b] : TRUE
  <2>1. p \in Path /\ Parts[b] # {} /\ \A m \in Parts[b] : m \in STRING
    BY <1>1, <1>2, AtHome
  <2>2. n \in Parts[b]
    BY <2>1
  <2>3. Place(b, p).at = Append(p, n)
    BY <1>2 DEF Place
  <2> HIDE DEF n
  <2>4. QED
    BY <2>1, <2>2, <2>3, InFolder
<1>3. NamesInv'
  <2>1. ASSUME NEW b \in Books, server'[b].loose PROVE Last(server'[b].at) \in Parts[b]
    <3>1. CASE server'[b] = server[b]
      BY <1>1, <2>1, <3>1 DEF NamesInv
    <3>2. CASE server'[b] # server[b]
      <4>1. Homes(disk, b) # {} /\ server'[b] = Place(b, CHOOSE p \in Homes(disk, b) : TRUE)
        BY <1>1, <3>2
      <4>2. PICK p \in Homes(disk, b) : server'[b] = Place(b, p)
        BY <4>1
      <4>3. QED
        BY <1>2, <2>1, <4>2
    <3>3. QED
      BY <3>1, <3>2
  <2>2. QED
    BY <1>1, <2>1 DEF NamesInv, Named
<1>4. TodoInv' /\ BooksInv' /\ HeadInv'
  <2>1. Now' = Now
    BY <1>1 DEF Now
  <2>2. QED
    BY <1>1, <2>1, SameReport, TodoStays DEF ReportInv
<1>5. QED
  BY <1>3, <1>4 DEF ReportInv

\* A file of another hand is no book's, and takes no book's place.
LEMMA ArriveReport ==
  ASSUME SoundInv, SoundInv', ReportInv, NEW s \in DOMAIN Strangers, Arrive(s) PROVE ReportInv'
<1>1. /\ UNCHANGED <<server, kept, run, began>> /\ Tree(disk) /\ Tree(disk')
      /\ Strangers[s] \notin DOMAIN disk
      /\ disk' = Put(WithFolders(disk, Strangers[s]), Strangers[s], <<s>>)
  BY DEF Arrive, SoundInv, DiskInv
<1>2. /\ \A q \in DOMAIN disk : q \in DOMAIN disk' /\ disk'[q] = disk[q]
      /\ \A q \in DOMAIN disk' : \/ q \in DOMAIN disk /\ disk'[q] = disk[q]
                                 \/ disk'[q] = Folder \/ disk'[q] = <<s>>
  BY <1>1 DEF Put, WithFolders
<1>3. \A b \in Books : Homes(disk', b) = Homes(disk, b)
  <2>1. TAKE b \in Books
  <2>2. \A q \in DOMAIN disk' : \A n \in Parts[b] :
          disk'[q] = <<b, n>> => q \in DOMAIN disk /\ disk[q] = <<b, n>>
    BY <1>2, Contents
  <2>3. \A q \in DOMAIN disk : \A n \in Parts[b] :
          disk[q] = <<b, n>> => q \in DOMAIN disk' /\ disk'[q] = <<b, n>>
    BY <1>2
  <2>4. QED
    BY <1>1, <2>2, <2>3, SameHomes
<1>4. BooksInv'
  BY <1>1, <1>3 DEF ReportInv, BooksInv, Carried, HomeOf
<1>5. HeadInv'
  <2>1. CASE run.phase \in Moving
    <3>1. Head(run.todo) \in Books
      <4>1. run.todo # <<>> /\ PlansInv
        BY <2>1 DEF SoundInv, PlansInv
      <4>2. QED
        BY <4>1, HeadNotMoved DEF ReportInv
    <3>2. Now' = Now
      BY <1>1 DEF Now
    <3>3. QED
      BY <1>1, <1>3, <3>1, <3>2 DEF ReportInv, HeadInv, Carried, HomeOf
  <2>2. CASE run.phase \notin Moving
    BY <1>1, <2>2 DEF HeadInv, Moving
  <2>3. QED
    BY <2>1, <2>2
<1>6. NamesInv' /\ TodoInv'
  BY <1>1, NamesStay, TodoStays DEF ReportInv
<1>7. QED
  BY <1>4, <1>5, <1>6 DEF ReportInv

LEMMA NextReport == ASSUME SoundInv, SoundInv', ReportInv, Alone, [Next]_vars PROVE ReportInv'
<1>1. CASE Fail
  BY <1>1, ThrowReport DEF Fail
<1>2. CASE UNCHANGED vars
  <2>1. UNCHANGED <<disk, began, server, kept, run>> /\ Now' = Now
    BY <1>2 DEF vars, Now
  <2>2. BooksInv' /\ HeadInv'
    BY <2>1, SameReport DEF ReportInv
  <2>3. NamesInv' /\ TodoInv'
    BY <2>1, NamesStay, TodoStays DEF ReportInv
  <2>4. QED
    BY <2>2, <2>3 DEF ReportInv
<1>3. QED
  BY <1>1, <1>2, StartReport, NextPlanReport, MakeFoldersReport, RenameReport, CopyReport,
     CopyEndsReport, DeleteReport, PruneOneReport, RequestScanReport, CrashReport, StopReport,
     ScanReport, ArriveReport
     DEF Next, Step

\* The report of a run that returned is what happened to the disk: every book it calls
\* moved is whole where it was planned to be and no longer where it was, every other
\* book is where it was when the run began (organize.ts runOrganizeTask, movePath,
\* apply.ts), for as long as no folder is moved with another book's files in it.
THEOREM ReportMatches == Spec /\ []Alone => []ReportMatchesDisk
<1>1. SoundInv /\ SoundInv' /\ ReportInv /\ Alone /\ [Next]_vars => ReportInv'
  BY NextReport
<1>2. SoundInv /\ [Next]_vars => SoundInv'
  BY NextSound
<1>3. SoundInv /\ ReportInv => ReportMatchesDisk
  BY DEF ReportInv, BooksInv, ReportMatchesDisk, Carried, HomeOf
<1>4. QED
  BY InitSound, InitReport, <1>1, <1>2, <1>3, PTL DEF Spec

================================================================================

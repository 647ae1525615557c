--------------------------------- MODULE Repair ---------------------------------
(***************************************************************************)
(* Mending books that list every audio file twice: the repair task and its *)
(* replay (src/core/repair.ts, the repair half of src/core/apply.ts), the  *)
(* undo record it opens and completes, and the AudiobookShelf server that  *)
(* rescans a book only when it has a reason to.                            *)
(*                                                                         *)
(* A record is its inode; Copy[i] is the file it is a record of (the same  *)
(* name and the same size or length), Length[i] how long it plays.         *)
(* Lengths are whole units far above durationTolerance.  A chapter is its  *)
(* end: it starts where the one before it ends.                            *)
(***************************************************************************)
EXTENDS Naturals, Sequences, FiniteSets, FiniteSetsExt

CONSTANTS
  Books, Libraries, LibraryOf, NoBook, NoLibrary,
  Bare,       \* books that are one file at the library root (isFile)
  Ino, Copy, Length,
  Shelf,      \* Shelf[b]: what b may look like before anything happens
  MaxRuns,    \* bound: runs started
  MaxUpsets   \* bound: failures, crashes, stops and people's edits

Item == [disk : SUBSET Ino, recs : SUBSET Ino, off : SUBSET Ino, length : Nat,
         chapters : Seq(Nat), changed : BOOLEAN]

ASSUME RepairAssumption ==
  /\ Ino \in SUBSET Nat /\ IsFiniteSet(Ino)
  /\ DOMAIN Copy = Ino /\ Length \in [Ino -> Nat]
  /\ LibraryOf \in [Books -> Libraries]
  /\ Bare \in SUBSET Books
  /\ NoBook \notin Books /\ NoLibrary \notin Libraries
  /\ DOMAIN Shelf = Books /\ \A b \in Books : Shelf[b] \subseteq Item
  /\ MaxRuns \in Nat /\ MaxUpsets \in Nat

\* To begin with, the server has a record of every file a book has.  (One it
\* has none of leaves a repaired book longer than the tracks that were kept.)
Listed == \A b \in Books : \A it \in Shelf[b] : it.disk \subseteq it.recs

\* Every file plays for some time, and a bare book is one file.
Audible == \A i \in Ino : Length[i] > 0
OneFile == \A b \in Bare : \A it \in Shelf[b] : \E i \in Ino : it.disk = {i}

VARIABLES
  item,       \* the server: each book's files, records, length, chapters
  left,       \* the server: books the library scans under way have yet to visit
  scanning,   \* the server: libraries with a scan on the task list
  reach,      \* the library is mounted here and file changes are allowed
  plan,       \* run_items of the last run that kept plans: dead records by book
  revisions,  \* undo records, oldest first
  task,       \* locals of runRepairTask, runApplyTask and repairItems
  outcome,    \* what the run has made of each book so far
  runs,       \* how many runs have been started (bounded)
  upsets,     \* how many times something went wrong or was edited (bounded)
  late        \* history: a library scan was given up on

vars == <<item, left, scanning, reach, plan, revisions, task, outcome, runs, upsets, late>>

NoPlan == {}                      \* `plan: null`; a damaged book's plan
PlanOf(dead) == {dead}            \* is wrapped, for its dead set may be empty

Lists == [recs : SUBSET Ino, off : SUBSET Ino, chapters : Seq(Nat)]
\* `recs` and `chapters` are the `after` of the record, which says nothing of
\* chapters (<<>>) until it is completed.
Revision == [book : Books, before : Lists, recs : SUBSET Ino,
             chapters : Seq(Seq(Nat)), reverted : BOOLEAN]

Method == {"rescan-one", "touch", "clear", "library-scan", "records-only"}
Outcome == {"none", "clean", "ambiguous", "changed-since", "needs-file-changes",
            "unread", "repaired", "partly", "failed", "not-reached"}

Task ==
  [phase : {"idle", "reading", "items", "dropping", "touching", "rescanning",
            "settling", "requesting", "awaiting", "finishing", "trimming", "closing"},
   kind : {"preview", "repair", "apply"}, access : BOOLEAN,
   todo : SUBSET Books, seen : [Books -> Item], targets : SUBSET Books,
   cur : Books \cup {NoBook}, method : [Books -> Method],
   revision : [Books -> Nat], cut : Seq(Nat), wait : SUBSET Books,
   group : SUBSET Books, lib : Libraries \cup {NoLibrary}, stop : BOOLEAN]

TypeOK ==
  /\ item \in [Books -> Item]
  /\ left \in SUBSET Books /\ scanning \in SUBSET Libraries
  /\ reach \in BOOLEAN
  /\ plan \in [Books -> {NoPlan} \cup {PlanOf(d) : d \in SUBSET Ino}]
  /\ revisions \in Seq(Revision)
  /\ task \in Task
  /\ outcome \in [Books -> Outcome]
  /\ runs \in 0 .. MaxRuns /\ upsets \in 0 .. MaxUpsets /\ late \in BOOLEAN

--------------------------------------------------------------------------------
(***************************************************************************)
(* What a book's records say.                                              *)
(***************************************************************************)
Total(recs) == MapThenSumSet(LAMBDA i : Length[i], recs)

Dead(it) == it.recs \ it.disk
Live(it) == it.recs \cap it.disk
Playable(it) == Live(it) \ it.off
StaleLength(it) == Dead(it) = {} /\ it.length > Total(Live(it))
Damaged(it) == Dead(it) # {} \/ StaleLength(it)

\* ambiguity: every dead record needs a live counterpart of its own.
Ambiguous(it) ==
  \/ Playable(it) = {}
  \/ \E d \in Dead(it) : Cardinality({i \in Dead(it) : Copy[i] = Copy[d]})
                           > Cardinality({i \in Live(it) : Copy[i] = Copy[d]})

\* touchTarget: some live file of the book can be touched from here.
CanTouch(it, access) == access /\ reach /\ Live(it) # {}

\* lengthPendingReason, for a book with no dead record left to drop.
NeedsFileChanges(b, it, access) ==
  b \in Bare /\ ~CanTouch(it, access) /\ Dead(it) = {}

ChooseMethod(b, it, access) ==
  IF b \in Bare THEN (IF CanTouch(it, access) THEN "library-scan" ELSE "records-only")
  ELSE IF Cardinality(Playable(it)) >= 2 THEN "rescan-one"
  ELSE IF CanTouch(it, access) THEN "touch" ELSE "clear"

\* A faulty variant for mutation: the last track is dropped, excluded or not.
KeptAnyLast(it, method) ==
  CASE method = "clear" -> {}
    [] method = "rescan-one" -> Live(it) \ {Max(Live(it))}
    [] OTHER -> Live(it)

\* The records beginRepair sends; tracks play in the order of their inodes.
Kept(it, method) ==
  CASE method = "clear" -> {}
    [] method = "rescan-one" -> Live(it) \ {Max(Playable(it))}
    [] OTHER -> Live(it)

\* trimChapters: nothing when nothing runs over, or when nothing would be left.
Starts(chapters, k) == IF k = 1 THEN 0 ELSE chapters[k - 1]
Trimmed(chapters, length) ==
  LET kept == {k \in DOMAIN chapters : Starts(chapters, k) < length} IN
  IF kept = {} \/ \A k \in DOMAIN chapters : chapters[k] <= length THEN {}
  ELSE {[k \in 1 .. Cardinality(kept) |->
          IF k = Cardinality(kept) \/ chapters[k] > length THEN length ELSE chapters[k]]}

\* verifyRepair: null when the book is right.
Verified(it, seen, checkLength) ==
  /\ Dead(it) = {}
  /\ Live(seen) \subseteq it.recs
  /\ checkLength => it.length = Total(Live(seen))

--------------------------------------------------------------------------------
(***************************************************************************)
(* The AudiobookShelf server, as the header of repair.ts says it was       *)
(* measured and as the fake server of repair.test.ts behaves.              *)
(***************************************************************************)
Rescanned(it) ==
  IF ~it.changed /\ Cardinality(it.disk) = Cardinality(it.recs) THEN it
  ELSE LET recs == it.recs \cup it.disk IN
       [it EXCEPT !.recs = recs, !.length = Total(recs), !.changed = FALSE,
                  !.chapters = IF Cardinality(it.disk) > 1
                                 THEN <<Total(recs)>> ELSE it.chapters]

\* PATCH tracks: what is sent becomes the list; an inode it has no record of
\* adds none.
WithTracks(it, keep, off) == [it EXCEPT !.recs = keep \cap it.recs, !.off = off \cap keep \cap it.recs]

\* scanLibrary answers before the scan starts, and a second one asked for
\* while the first runs is dropped.
ScanStarts(l) ==
  IF l \in scanning THEN UNCHANGED <<scanning, left>>
  ELSE /\ scanning' = scanning \cup {l}
       /\ left' = left \cup {b \in Books : LibraryOf[b] = l}

ScanBook(b) ==
  /\ b \in left
  /\ left' = left \ {b}
  /\ item' = [item EXCEPT ![b] = IF item[b].changed THEN Rescanned(@) ELSE @]
  /\ UNCHANGED <<scanning, reach, plan, revisions, task, outcome, runs, upsets, late>>

ScanEnds(l) ==
  /\ l \in scanning /\ \A b \in left : LibraryOf[b] # l
  /\ scanning' = scanning \ {l}
  /\ UNCHANGED <<item, left, reach, plan, revisions, task, outcome, runs, upsets, late>>

OthersScan(l) ==
  /\ l \notin scanning
  /\ ScanStarts(l)
  /\ UNCHANGED <<item, reach, plan, revisions, task, outcome, runs, upsets, late>>

Upset == upsets < MaxUpsets /\ upsets' = upsets + 1

\* The storage moves again: file i comes back as j, and a rescan adds a record
\* for j beside the one for i.
Renumbered(it, i, j) ==
  LET recs == it.recs \cup {j} IN
  [it EXCEPT !.disk = (@ \ {i}) \cup {j}, !.recs = recs, !.length = Total(recs),
             !.chapters = Append(@, Total(recs))]

Renumber(b, i, j) ==
  /\ Upset
  /\ i \in Live(item[b]) /\ Copy[j] = Copy[i]
  /\ \A c \in Books : j \notin item[c].recs \cup item[c].disk
  /\ item' = [item EXCEPT ![b] = Renumbered(@, i, j)]
  /\ UNCHANGED <<left, scanning, reach, plan, revisions, task, outcome, runs, late>>

\* Somebody drops the dead records in "Manage tracks".
RemoveDead(b) ==
  /\ Upset
  /\ Dead(item[b]) # {}
  /\ item' = [item EXCEPT ![b] = WithTracks(@, Live(@), @.off)]
  /\ UNCHANGED <<left, scanning, reach, plan, revisions, task, outcome, runs, late>>

\* The share is mounted or lost, or file changes are allowed or not.
FlipReach ==
  /\ Upset
  /\ reach' = ~reach
  /\ UNCHANGED <<item, left, scanning, plan, revisions, task, outcome, runs, late>>

--------------------------------------------------------------------------------
(***************************************************************************)
(* Reading and judging.                                                    *)
(***************************************************************************)
\* Nothing read and nothing begun; what `seen` says of a book not read is not used.
Fresh(phase, kind, access, todo) ==
  [phase |-> phase, kind |-> kind, access |-> access, todo |-> todo,
   seen |-> item, targets |-> {}, cur |-> NoBook,
   method |-> [b \in Books |-> "clear"], revision |-> [b \in Books |-> 0],
   cut |-> <<>>, wait |-> {}, group |-> {}, lib |-> NoLibrary, stop |-> FALSE]

Init ==
  /\ item \in [Books -> UNION {Shelf[b] : b \in Books}]
  /\ \A b \in Books : item[b] \in Shelf[b]
  /\ left = {} /\ scanning = {}
  /\ reach \in BOOLEAN
  /\ plan = [b \in Books |-> NoPlan]
  /\ revisions = <<>>
  /\ task = Fresh("idle", "preview", FALSE, {})
  /\ outcome = [b \in Books |-> "none"]
  /\ runs = 0 /\ upsets = 0 /\ late = FALSE

\* runRepairTask, or runApplyTask on a run of repair; allowTrackRepair is on.
\* What an apply may touch it finds out here, the others once all is read.
StartRun(kind) ==
  LET chosen == IF kind = "apply" THEN {b \in Books : plan[b] # NoPlan} ELSE Books IN
  /\ task.phase = "idle" /\ runs < MaxRuns /\ chosen # {}
  /\ runs' = runs + 1
  /\ task' = Fresh("reading", kind, reach, chosen)
  /\ outcome' = [b \in Books |-> "none"]
  /\ UNCHANGED <<item, left, scanning, reach, plan, revisions, upsets, late>>

\* What a run makes of a book before it repairs it; "none" is: repair it.
Judged(b, it) ==
  IF task.kind = "apply" /\ Dead(it) = {} /\ (~StaleLength(it) \/ Ambiguous(it)) THEN "clean"
  ELSE IF task.kind = "apply" /\ Dead(it) # {} /\ (PlanOf(Dead(it)) # plan[b] \/ Ambiguous(it))
    THEN "changed-since"
  ELSE IF ~Damaged(it) THEN "clean"
  ELSE IF Ambiguous(it) THEN "ambiguous"
  ELSE IF task.kind = "apply" /\ NeedsFileChanges(b, it, task.access) THEN "needs-file-changes"
  ELSE "none"

\* An apply reads its books one after another and repairs them next; the others
\* have the listening positions to count first, once the last book is read.
Onwards(b) ==
  LET last == task.todo = {b} IN
  [task EXCEPT !.todo = @ \ {b},
               !.phase = IF last /\ task.kind = "apply" THEN "items" ELSE @,
               !.access = IF last /\ task.kind # "apply" THEN reach ELSE @]

Read(b) ==
  LET verdict == Judged(b, item[b]) IN
  /\ task.phase = "reading" /\ b \in task.todo /\ ~task.stop
  /\ task' = [Onwards(b) EXCEPT
       !.seen[b] = item[b],
       !.targets = IF verdict = "none" THEN @ \cup {b} ELSE @]
  /\ outcome' = [outcome EXCEPT ![b] = verdict]
  /\ UNCHANGED <<item, left, scanning, reach, plan, revisions, runs, upsets, late>>

\* collectItems keeps the minified copy, whose track list cannot be read; an
\* apply takes the book for gone.
ReadFails(b) ==
  /\ task.phase = "reading" /\ b \in task.todo /\ ~task.stop
  /\ Upset
  /\ task' = Onwards(b)
  /\ outcome' = [outcome EXCEPT ![b] = "unread"]
  /\ UNCHANGED <<item, left, scanning, reach, plan, revisions, runs, late>>

\* doubledProgress is over, with an answer or without one: the rest of
\* runRepairTask's judging.
Blocked == {b \in task.targets : NeedsFileChanges(b, task.seen[b], task.access)}

CountProgress ==
  /\ task.phase = "reading" /\ task.kind # "apply" /\ task.todo = {}
  /\ task' = [task EXCEPT !.phase = "items", !.targets = @ \ Blocked]
  /\ outcome' = [b \in Books |-> IF b \in Blocked THEN "needs-file-changes" ELSE outcome[b]]
  /\ UNCHANGED <<item, left, scanning, reach, plan, revisions, runs, upsets, late>>

--------------------------------------------------------------------------------
(***************************************************************************)
(* repairItems: beginRepair, rescanAndFinish, finishRepair.                *)
(***************************************************************************)
AtItems == task.phase = "items" /\ task.group = {} /\ task.kind # "preview"

\* A book's repair is over, one way or another.
Over(t, b) == [t EXCEPT !.phase = "items", !.cur = NoBook, !.targets = @ \ {b},
                                    !.cut = <<>>]

\* A faulty variant for mutation: the undo record holds what is to be left, not
\* what was there.
BeginWithoutDead(b) ==
  LET it == task.seen[b]
      method == ChooseMethod(b, it, task.access)
  IN
  /\ AtItems /\ b \in task.targets /\ ~task.stop
  /\ IF NeedsFileChanges(b, it, task.access)
       THEN /\ outcome' = [outcome EXCEPT ![b] = "failed"]
            /\ task' = Over(task, b)
            /\ UNCHANGED revisions
       ELSE /\ revisions' = Append(revisions,
                 [book |-> b, before |-> [recs |-> Live(it), off |-> it.off, chapters |-> it.chapters],
                  recs |-> Live(it), chapters |-> <<>>, reverted |-> FALSE])
            /\ task' = [task EXCEPT !.phase = "dropping", !.cur = b,
                          !.targets = @ \ {b}, !.method[b] = method,
                          !.revision[b] = Len(revisions) + 1]
            /\ UNCHANGED outcome
  /\ UNCHANGED <<item, left, scanning, reach, plan, runs, upsets, late>>

\* beginRepair up to its first request: the undo record comes first.
Begin(b) ==
  LET it == task.seen[b]
      method == ChooseMethod(b, it, task.access)
  IN
  /\ AtItems /\ b \in task.targets /\ ~task.stop
  /\ IF NeedsFileChanges(b, it, task.access)
       THEN /\ outcome' = [outcome EXCEPT ![b] = "failed"]
            /\ task' = Over(task, b)
            /\ UNCHANGED revisions
       ELSE /\ revisions' = Append(revisions,
                 [book |-> b, before |-> [recs |-> it.recs, off |-> it.off, chapters |-> it.chapters],
                  recs |-> Live(it), chapters |-> <<>>, reverted |-> FALSE])
            /\ task' = [task EXCEPT !.phase = "dropping", !.cur = b,
                          !.targets = @ \ {b}, !.method[b] = method,
                          !.revision[b] = Len(revisions) + 1]
            /\ UNCHANGED outcome
  /\ UNCHANGED <<item, left, scanning, reach, plan, runs, upsets, late>>

Dropped(b) == WithTracks(item[b], Kept(task.seen[b], task.method[b]), task.seen[b].off)

Drop(b) ==
  /\ task.phase = "dropping" /\ task.cur = b
  /\ item' = [item EXCEPT ![b] = Dropped(b)]
  /\ task' = [task EXCEPT !.phase =
       CASE task.method[b] \in {"rescan-one", "clear"} -> "rescanning"
         [] task.method[b] = "records-only" -> "finishing"
         [] OTHER -> "touching"]
  /\ UNCHANGED <<left, scanning, reach, plan, revisions, outcome, runs, upsets, late>>

\* utimes on the live file the touch was planned for, if it is still there.
Touch(b) ==
  /\ task.phase = "touching" /\ task.cur = b
  /\ reach
  /\ item' = [item EXCEPT ![b].changed = TRUE]
  /\ task' = IF task.method[b] = "touch" THEN [task EXCEPT !.phase = "rescanning"]
             ELSE [Over(task, b) EXCEPT !.wait = @ \cup {b}]
  /\ UNCHANGED <<left, scanning, reach, plan, revisions, outcome, runs, upsets, late>>

RescanItem(b) ==
  /\ task.phase = "rescanning" /\ task.cur = b
  /\ item' = [item EXCEPT ![b] = Rescanned(@)]
  /\ task' = [task EXCEPT !.phase = "finishing"]
  /\ UNCHANGED <<left, scanning, reach, plan, revisions, outcome, runs, upsets, late>>

Partial(b) == task.method[b] = "records-only"

\* The chapters finishRepair sends for a book that reads `it`, if any.
Cut(b, it) ==
  Trimmed(it.chapters, IF Partial(b) THEN Total(Live(task.seen[b])) ELSE it.length)

\* The undo record is completed with what the book now reads, and the book
\* checked against what was judged.
Closed(b) ==
  /\ revisions' = [revisions EXCEPT ![task.revision[b]] =
       [@ EXCEPT !.recs = item[b].recs, !.chapters = <<item[b].chapters>>]]
  /\ outcome' = [outcome EXCEPT ![b] =
       IF ~Verified(item[b], task.seen[b], ~Partial(b)) THEN "failed"
       ELSE IF Partial(b) THEN "partly" ELSE "repaired"]
  /\ task' = [Over(task, b) EXCEPT !.group = @ \ {b}]

AtFinish(b) ==
  \/ task.phase = "finishing" /\ task.cur = b
  \/ task.phase = "items" /\ b \in task.group

\* getItem answered and nothing needs trimming.
Finish(b) ==
  /\ AtFinish(b) /\ Cut(b, item[b]) = {}
  /\ Closed(b)
  /\ UNCHANGED <<item, left, scanning, reach, plan, runs, upsets, late>>

\* getItem answered with chapters that run over.
FinishLong(b) ==
  /\ AtFinish(b) /\ Cut(b, item[b]) # {}
  /\ task' = [task EXCEPT !.phase = "trimming", !.cur = b,
                          !.cut = CHOOSE c \in Cut(b, item[b]) : TRUE]
  /\ UNCHANGED <<item, left, scanning, reach, plan, revisions, outcome, runs, upsets, late>>

\* updateChapters, with the cut of the chapters that were read.
Trim(b) ==
  /\ task.phase = "trimming" /\ task.cur = b
  /\ item' = [item EXCEPT ![b].chapters = task.cut]
  /\ task' = [task EXCEPT !.phase = "closing", !.cut = <<>>]
  /\ UNCHANGED <<left, scanning, reach, plan, revisions, outcome, runs, upsets, late>>

Close(b) ==
  /\ task.phase = "closing" /\ task.cur = b
  /\ Closed(b)
  /\ UNCHANGED <<item, left, scanning, reach, plan, runs, upsets, late>>

\* The run ends without a report: an exception, or the process died.
Died(t) ==
  [t EXCEPT !.phase = "idle", !.todo = {}, !.targets = {}, !.cur = NoBook,
            !.cut = <<>>, !.wait = {}, !.group = {}, !.lib = NoLibrary]

\* A step of a book's repair failed: that is the book's failure, and the run's
\* if the run has been stopped.
Failed(b) ==
  IF task.stop
    THEN task' = Died(task) /\ outcome' = [c \in Books |-> "none"]
    ELSE /\ task' = [Over(task, b) EXCEPT !.group = @ \ {b}]
         /\ outcome' = [outcome EXCEPT ![b] = "failed"]

\* A request fails, having reached the server or not.
StepFails(b) ==
  /\ \/ task.phase \in {"dropping", "rescanning", "trimming", "closing"} /\ task.cur = b
     \/ AtFinish(b)
  /\ Upset
  /\ item' \in {item,
       [item EXCEPT ![b] = CASE task.phase = "dropping" -> Dropped(b)
                             [] task.phase = "rescanning" -> Rescanned(@)
                             [] task.phase = "trimming" -> [@ EXCEPT !.chapters = task.cut]
                             [] OTHER -> @]}
  /\ Failed(b)
  /\ UNCHANGED <<left, scanning, reach, plan, revisions, runs, late>>

\* The file to touch is out of reach by now.
TouchFails(b) ==
  /\ task.phase = "touching" /\ task.cur = b /\ ~reach
  /\ Failed(b)
  /\ UNCHANGED <<item, left, scanning, reach, plan, revisions, runs, upsets, late>>

--------------------------------------------------------------------------------
(***************************************************************************)
(* scanLibraryAndWait: one scan for all the bare files of a library, even  *)
(* when the run has been stopped.                                          *)
(***************************************************************************)
LoopOver == AtItems /\ (task.targets = {} \/ task.stop)

Settle(l) ==
  /\ LoopOver /\ \E b \in task.wait : LibraryOf[b] = l
  /\ task' = [task EXCEPT !.phase = "settling", !.lib = l]
  /\ UNCHANGED <<item, left, scanning, reach, plan, revisions, outcome, runs, upsets, late>>

\* A faulty variant for mutation: a scan already running is not waited out.
SettledAtOnce ==
  /\ task.phase = "settling"
  /\ task' = [task EXCEPT !.phase = "requesting"]
  /\ UNCHANGED <<item, left, scanning, reach, plan, revisions, outcome, runs, upsets, late>>

\* isScanningLibrary says no.
Settled ==
  /\ task.phase = "settling" /\ task.lib \notin scanning
  /\ task' = [task EXCEPT !.phase = "requesting"]
  /\ UNCHANGED <<item, left, scanning, reach, plan, revisions, outcome, runs, upsets, late>>

RequestScan ==
  /\ task.phase = "requesting"
  /\ ScanStarts(task.lib)
  /\ task' = [task EXCEPT !.phase = "awaiting"]
  /\ UNCHANGED <<item, reach, plan, revisions, outcome, runs, upsets, late>>

OfLib == {b \in task.wait : LibraryOf[b] = task.lib}

ScanDone ==
  /\ task.phase = "awaiting" /\ task.lib \notin scanning
  /\ task' = [task EXCEPT !.phase = "items", !.group = OfLib, !.wait = @ \ OfLib,
                          !.lib = NoLibrary]
  /\ UNCHANGED <<item, left, scanning, reach, plan, revisions, outcome, runs, upsets, late>>

\* Every book of the group is told why its scan was not seen to the end.
GivenUp ==
  /\ outcome' = [b \in Books |-> IF b \in OfLib THEN "failed" ELSE outcome[b]]
  /\ task' = [task EXCEPT !.phase = "items", !.wait = @ \ OfLib, !.lib = NoLibrary]

\* A faulty variant for mutation: the second wait has no deadline.
ScanTooLongOnce ==
  /\ task.phase = "settling" /\ task.lib \in scanning
  /\ GivenUp
  /\ late' = TRUE
  /\ UNCHANGED <<item, left, scanning, reach, plan, revisions, runs, upsets>>

\* Thirty minutes are over, in all, and a scan is still running; or a stopped
\* run is woken from its pause between two polls.
ScanTooLong ==
  /\ task.phase \in {"settling", "awaiting"} /\ task.lib \in scanning
  /\ GivenUp
  /\ late' = TRUE
  /\ UNCHANGED <<item, left, scanning, reach, plan, revisions, runs, upsets>>

ScanRefused ==
  /\ task.phase \in {"settling", "requesting", "awaiting"}
  /\ Upset
  /\ GivenUp
  /\ IF task.phase = "requesting" THEN ScanStarts(task.lib) \/ UNCHANGED <<scanning, left>>
     ELSE UNCHANGED <<scanning, left>>
  /\ UNCHANGED <<item, reach, plan, revisions, runs, late>>

--------------------------------------------------------------------------------
(***************************************************************************)
(* The end of a run, a stop, a crash, a revert.                            *)
(***************************************************************************)
Unreached == IF task.kind = "preview" THEN {} ELSE task.targets \cup task.todo

\* Outcomes an apply does not settle.
Keeps == {"not-reached", "needs-file-changes", "partly"}

EndRun ==
  LET final == [b \in Books |-> IF b \in Unreached THEN "not-reached" ELSE outcome[b]] IN
  /\ \/ LoopOver /\ task.wait = {}
     \/ task.kind = "preview" /\ task.phase = "items"
     \/ task.kind = "apply" /\ task.phase = "reading" /\ task.stop
  /\ outcome' = final
  /\ plan' = [b \in Books |->
       CASE task.kind = "preview" ->
              IF b \in task.targets THEN PlanOf(Dead(task.seen[b])) ELSE NoPlan
         [] task.kind = "repair" ->
              IF final[b] \in {"not-reached", "partly"} THEN PlanOf(Dead(task.seen[b])) ELSE NoPlan
         [] OTHER ->
              IF final[b] \in Keeps \cup {"none"} THEN plan[b] ELSE NoPlan]
  /\ task' = Died(task)
  /\ UNCHANGED <<item, left, scanning, reach, revisions, runs, upsets, late>>

StopRun ==
  /\ task.phase # "idle" /\ ~task.stop
  /\ Upset
  /\ task' = [task EXCEPT !.stop = TRUE]
  /\ UNCHANGED <<item, left, scanning, reach, plan, revisions, outcome, runs, late>>

Dies ==
  /\ task' = Died(task)
  /\ outcome' = [b \in Books |-> "none"]
  /\ UNCHANGED <<item, left, scanning, reach, plan, revisions, runs, late>>

\* collectItems throws when the run is stopped while it reads the library, and
\* doubledProgress while it asks about the books that are damaged.
ReadStopped ==
  /\ task.phase = "reading" /\ task.kind # "apply" /\ task.stop
  /\ task.todo # {} \/ \E b \in Books : outcome[b] # "unread" /\ Damaged(task.seen[b])
  /\ Dies /\ UNCHANGED upsets

\* The process dies.
Crash == task.phase # "idle" /\ Upset /\ Dies

\* changedSince, for a repair's lists.
ChangedSince(it, v) == it.recs # v.recs \/ v.chapters \notin {<<>>, <<it.chapters>>}

\* runRevertTask on one undo record.  Its reads and writes are taken apart,
\* and interleaved with the tasks, in PlanReplay.
Revert(v, force) ==
  LET r == revisions[v] IN
  /\ task.phase = "idle" /\ ~r.reverted
  /\ force \/ ~ChangedSince(item[r.book], r)
  /\ item' = [item EXCEPT ![r.book] =
       [@ EXCEPT !.recs = r.before.recs, !.off = r.before.off, !.chapters = r.before.chapters]]
  /\ revisions' = [revisions EXCEPT ![v].reverted = TRUE]
  /\ UNCHANGED <<left, scanning, reach, plan, task, outcome, runs, upsets, late>>

TaskStep ==
  \/ \E b \in Books : \/ Read(b) \/ Begin(b) \/ Drop(b) \/ Touch(b) \/ RescanItem(b)
                      \/ TouchFails(b) \/ Finish(b) \/ FinishLong(b) \/ Trim(b) \/ Close(b)
  \/ \E l \in Libraries : Settle(l)
  \/ CountProgress \/ Settled \/ RequestScan \/ ScanDone \/ ScanTooLong \/ ReadStopped \/ EndRun

Next ==
  \/ TaskStep
  \/ \E kind \in {"preview", "repair", "apply"} : StartRun(kind)
  \/ \E b \in Books : ReadFails(b) \/ StepFails(b) \/ ScanBook(b) \/ RemoveDead(b)
  \/ \E b \in Books, i, j \in Ino : Renumber(b, i, j)
  \/ \E l \in Libraries : ScanEnds(l) \/ OthersScan(l)
  \/ ScanRefused \/ StopRun \/ Crash \/ FlipReach
  \/ \E v \in DOMAIN revisions, force \in BOOLEAN : Revert(v, force)

\* The event loop keeps the task's promises going; the server visits the books
\* of a scan and takes a finished scan off its list.
Fairness ==
  /\ WF_vars(TaskStep)
  /\ \A b \in Books : WF_vars(ScanBook(b))
  /\ \A l \in Libraries : WF_vars(ScanEnds(l))

Spec == Init /\ [][Next]_vars /\ Fairness

\* Nobody moves a file of a book, or edits its tracks, between its being judged
\* and the end of its repair.  (A file that is moved, dropped and moved back
\* has lost the exclusion somebody gave it.)
InRepair(b) == b \in task.targets \cup task.wait \cup task.group \cup {task.cur}
Undisturbed ==
  [][\A b \in Books :
       RemoveDead(b) \/ (\E i, j \in Ino : Renumber(b, i, j)) => ~InRepair(b)]_vars

--------------------------------------------------------------------------------
(***************************************************************************)
(* Properties.                                                             *)
(***************************************************************************)
\* A repair takes: while nothing fails, nobody edits, stops or gives up, no
\* book's repair ends in failure, whatever library scans others start, and
\* whatever was repaired, kept or reverted before.
QuietRepairsTake ==
  upsets = 0 /\ ~late => \A b \in Books : outcome[b] # "failed"

\* A book is reported repaired, or partly so, only when no record of it is
\* dead, every live track is back, exclusions somebody chose still stand
\* (except where the list was rebuilt from nothing), its chapters end within
\* it and, unless that is still owed, its length is what its tracks add up to.
RepairedIsWhole ==
  [][\A b \in Books :
       outcome[b] # outcome'[b] /\ outcome'[b] \in {"repaired", "partly"} =>
         LET seen == task.seen[b]
             now == item'[b]
             total == Total(Live(seen))
         IN
         /\ Dead(now) = {} /\ Live(seen) \subseteq now.recs
         /\ task.method[b] # "clear" => Live(seen) \cap seen.off \subseteq now.off
         /\ outcome'[b] = "repaired" => now.length = total
         /\ \A k \in DOMAIN now.chapters : now.chapters[k] <= total]_vars

\* Every record a run drops is in an undo record that is still pending, unless
\* it appeared after the run read the book.
DropsAreOnRecord ==
  [][\A b \in Books : task' # task =>
       item[b].recs \ item'[b].recs \subseteq
         (Ino \ task.seen[b].recs) \cup
         UNION {revisions[v].before.recs :
                  v \in {w \in DOMAIN revisions : revisions[w].book = b /\ ~revisions[w].reverted}}]_vars

\* Every run ends, however busy others keep the server with library scans.
RunsEnd == task.phase # "idle" ~> task.phase = "idle"

=================================================================================

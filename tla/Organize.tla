-------------------------------- MODULE Organize --------------------------------
(***************************************************************************)
(* Moving books into the folders a template names (core/organize.ts), and  *)
(* carrying such a plan out later (the move branch of core/apply.ts).  The *)
(* disk is a function from paths to what is there; a run works through its *)
(* plans with one filesystem call at a time, while another hand may put a  *)
(* file anywhere, a call may fail and the process may die.                 *)
(***************************************************************************)
EXTENDS Integers, Sequences, FiniteSets, SequencesExt

CONSTANTS
  Books,
  Library,      \* Library[b]: the library b is in
  Parts,        \* Parts[b]: the names of the files of b
  First,        \* First[b]: where b is to begin with, a folder or a loose file
  Root,         \* Root[b]: the folder of its library b is to be filed under
  Layout,       \* Layout[known][b]: the template rendered, with the series or not
  Mounts,       \* the paths other filesystems are mounted at, and the roots
  Roots,        \* the folders AudiobookShelf watches
  Strangers,    \* Strangers[s]: where another hand may put the file s
  MaxRuns,      \* bound: runs
  MaxUpsets     \* bound: faults and files of other hands

Path == Seq(STRING)
Folder == <<>>       \* what is at the path of a folder; a file is a name
Nowhere == <<>>
Kinds == {"plan", "organize", "apply"}

VARIABLES
  disk,         \* path -> Folder or the file there
  server,       \* where AudiobookShelf has each book, and whether as a loose file
  kept,         \* the moves the last report can still have applied: book -> plan
  run,          \* the locals of runOrganizeTask, or of the apply task
  runs, upsets, \* how many there have been (bounded)
  hand,         \* history: the files of other hands, and which came in a move's way
  untold,       \* history: books moved since their library was last asked to scan
  began         \* history: where each book was when the run began

vars == <<disk, server, kept, run, runs, upsets, hand, untold, began>>

--------------------------------------------------------------------------------
(***************************************************************************)
(* Paths and the calls that change them.                                   *)
(***************************************************************************)
Parent(p) == Front(p)
Under(d, p) == {q \in DOMAIN d : IsPrefix(p, q)}
Inside(d, p) == Under(d, p) \ {p}
Ancestors(p) == {SubSeq(p, 1, i) : i \in 1 .. Len(p) - 1}
Rebase(q, from, to) == to \o SubSeq(q, Len(from) + 1, Len(q))

\* The device a path is on: the innermost mount around it.
Device(p) == CHOOSE m \in Mounts : /\ IsPrefix(m, p)
                                   /\ \A n \in Mounts : IsPrefix(n, p) => Len(n) <= Len(m)

\* mkdirInheriting: the folders that are missing, unless a file is in the way.
CanMake(d, p) == \A q \in Ancestors(p) : q \in DOMAIN d => d[q] = Folder
WithFolders(d, p) == [q \in Ancestors(p) \cup DOMAIN d |-> IF q \in DOMAIN d THEN d[q] ELSE Folder]

\* rename(2): a folder only takes the place of an empty folder, a file that of
\* a file.
CanRename(d, from, to) ==
  \/ to \notin DOMAIN d
  \/ d[from] = Folder /\ d[to] = Folder /\ Inside(d, to) = {}
  \/ d[from] # Folder /\ d[to] # Folder
Renamed(d, from, to) ==
  LET rest == DOMAIN d \ (Under(d, from) \cup Under(d, to)) IN
  [q \in rest \cup {Rebase(q, from, to) : q \in Under(d, from)} |->
     IF q \in rest THEN d[q] ELSE d[Rebase(q, to, from)]]

Put(d, p, what) == [q \in DOMAIN d \cup {p} |-> IF q = p THEN what ELSE d[q]]
Without(d, p) == [q \in DOMAIN d \ {p} |-> d[q]]

\* All the files of b are in the folder p.
WholeIn(d, b, p) == \A n \in Parts[b] : Append(p, n) \in DOMAIN d /\ d[Append(p, n)] = <<b, n>>
Homes(d, b) == {p \in DOMAIN d : WholeIn(d, b, p)}

\* Where AudiobookShelf finds b when it looks in p: a file in a root is loose.
Place(b, p) ==
  IF p \in Roots THEN [at |-> Append(p, CHOOSE n \in Parts[b] : TRUE), loose |-> TRUE]
  ELSE [at |-> p, loose |-> FALSE]

--------------------------------------------------------------------------------
Plan == [from : Path, to : Path, root : Path, file : BOOLEAN]
IsPlans(f) == DOMAIN f \subseteq Books /\ \A b \in DOMAIN f : f[b] \in Plan
NoPlans == [b \in {} |-> {}]
Codes == {"single-file", "declined", "in-place", "planned", "not-reached", "blocked",
          "moved", "changed-since", "missing", "none"}
NoRows == [b \in Books |-> "none"]

Idle == [phase |-> "idle", kind |-> "plan", single |-> FALSE, noScan |-> FALSE,
         abort |-> FALSE, todo |-> <<>>, plans |-> NoPlans, rows |-> NoRows,
         due |-> {}, copied |-> {}, dir |-> Nowhere, depth |-> 0, touched |-> {}]

Working == {"next", "checked", "made", "copying", "removing", "pruning", "scanning"}

\* The run's plans are among the books it read, and the stored plans are the
\* ones no run has carried out.
TypeOK ==
  /\ \A b \in Books : server[b].at \in Path /\ server[b].loose \in BOOLEAN
  /\ IsPlans(kept) /\ IsPlans(run.plans)
  /\ run.phase \in {"idle", "returned", "threw"} \cup Working
  /\ run.kind \in Kinds /\ run.todo \in Seq(DOMAIN run.plans)
  /\ run.rows \in [Books -> Codes]
  /\ run.touched \subseteq {Library[b] : b \in Books}
  /\ run.depth \in 0 .. 3
  /\ runs \in 0 .. MaxRuns /\ upsets \in 0 .. MaxUpsets

--------------------------------------------------------------------------------
(***************************************************************************)
(* What a run means to do.                                                 *)
(***************************************************************************)
\* fileTarget: a loose file goes into the folder the template names, under its
\* title, which is the name a loose file has here to begin with.
Target(b, layout, place) ==
  Root[b] \o layout \o (IF place.loose THEN <<Last(place.at)>> ELSE <<>>)

\* planMoveOutcome: in place if the path below the root is the rendered one.
CodeOf(r, b, layout, place) ==
  IF place.loose /\ ~r.single THEN "single-file"
  ELSE IF place.at = Nowhere \/ layout = Nowhere THEN "declined"
  ELSE IF Tail(place.at) = Tail(Target(b, layout, place)) THEN "in-place"
  ELSE "planned"

\* The listing: the books of unread answered with their short form alone.
Listed(r, unread) ==
  LET layout(b) == Layout[b \notin unread][b]
      rows == [b \in Books |-> CodeOf(r, b, layout(b), server[b])]
      due == {b \in Books : rows[b] = "planned"}
  IN [r EXCEPT
        !.rows = rows, !.todo = SetToSeq(due),
        !.plans = [b \in due |-> [from |-> server[b].at, to |-> Target(b, layout(b), server[b]),
                                  root |-> Root[b], file |-> server[b].loose]]]

\* The rows that keep their plan for later.
Kept(r) ==
  LET open == {b \in DOMAIN r.plans : r.rows[b] \in {"planned", "not-reached", "blocked"}} IN
  [b \in open |-> r.plans[b]]

Upset == upsets < MaxUpsets /\ upsets' = upsets + 1

Start(kind) ==
  /\ run.phase \in {"idle", "returned", "threw"} /\ runs < MaxRuns
  /\ kind = "apply" => kept # NoPlans
  /\ runs' = runs + 1
  /\ \E single \in BOOLEAN, noScan \in BOOLEAN, unread \in SUBSET Books :
       LET r == [Idle EXCEPT !.kind = kind, !.single = single, !.noScan = noScan, !.phase = "next"] IN
       /\ kind = "plan" => ~noScan
       /\ kind = "apply" => ~noScan /\ ~single /\ unread = {}
       /\ upsets' = upsets + Cardinality(unread) /\ upsets' <= MaxUpsets
       /\ run' = IF kind = "apply" THEN [r EXCEPT !.plans = kept, !.todo = SetToSeq(DOMAIN kept)]
                 ELSE Listed(r, unread)
  /\ began' = [b \in Books |-> Homes(disk, b)]
  /\ UNCHANGED <<disk, server, kept, hand, untold>>

Finish(r) ==
  /\ run' = [r EXCEPT !.phase = "returned", !.todo = <<>>]
  /\ kept' = Kept(r)

\* A faulty variant for mutation: a stopped run leaves without its scan.
EndUnlessStopped(r) ==
  IF r.touched = {} \/ r.noScan \/ r.abort THEN Finish(r)
  ELSE run' = [r EXCEPT !.phase = "scanning", !.todo = <<>>] /\ UNCHANGED kept

\* Past the loop: the libraries with a move in them are scanned.
End(r) ==
  IF r.touched = {} \/ r.noScan THEN Finish(r)
  ELSE run' = [r EXCEPT !.phase = "scanning", !.todo = <<>>] /\ UNCHANGED kept

\* A stop between two books: the rest were not reached.
Marked(r) == [r EXCEPT !.rows = [b \in Books |->
  IF b \in ToSet(r.todo) THEN "not-reached" ELSE r.rows[b]]]

Skip(r, code) == [r EXCEPT !.phase = "next", !.rows[Head(r.todo)] = code, !.todo = Tail(@)]

\* A faulty variant for mutation: what is there already is not looked for.
BlockedOnlyBySource(d, plan) ==
  plan.from \notin DOMAIN d \/ (d[plan.from] = Folder) = plan.file

\* moveBlockedReason
Blocked(d, plan) ==
  \/ plan.from \notin DOMAIN d
  \/ plan.to \in DOMAIN d
  \/ (d[plan.from] = Folder) = plan.file

--------------------------------------------------------------------------------
(***************************************************************************)
(* The loop over the plans, one filesystem call at a time.                 *)
(***************************************************************************)
Now == run.plans[Head(run.todo)]
Stays == UNCHANGED <<server, runs, upsets, hand, began>>

\* decideOrganize: where AudiobookShelf has the book by the time of an apply.
Strayed == run.kind = "apply" /\ server[Head(run.todo)].at # Nowhere
             /\ Tail(server[Head(run.todo)].at) # Tail(Now.from)

\* An apply asks for the book anew: an answer that does not come settles the row.
NextPlan ==
  /\ run.phase = "next" /\ Stays /\ UNCHANGED <<disk, untold>>
  /\ IF run.todo = <<>> \/ run.kind = "plan" THEN End(run)
     ELSE IF run.abort THEN End(Marked(run))
     ELSE /\ UNCHANGED kept
          /\ \/ run.kind = "apply" /\ run' = Skip(run, "missing")
             \/ run' = IF Strayed THEN Skip(run, "changed-since")
                       ELSE IF Blocked(disk, Now) THEN Skip(run, "blocked")
                       ELSE [run EXCEPT !.phase = "checked"]

Throw == run' = [run EXCEPT !.phase = "threw"]

MakeFolders ==
  /\ run.phase = "checked" /\ Stays /\ UNCHANGED <<kept, untold>>
  /\ IF Now.from \in DOMAIN disk /\ CanMake(disk, Now.to)
     THEN disk' = WithFolders(disk, Now.to) /\ run' = [run EXCEPT !.phase = "made"]
     ELSE Throw /\ UNCHANGED disk

Prune(r) == [r EXCEPT !.phase = "pruning", !.dir = Parent(Now.from), !.depth = 0,
                      !.due = {}, !.copied = {}]

\* Neither rename nor cp puts a folder into itself.
Rename ==
  /\ run.phase = "made" /\ Stays /\ UNCHANGED <<kept, untold>>
  /\ IF IsPrefix(Now.from, Now.to)
     THEN Throw /\ UNCHANGED disk
     ELSE IF Device(Now.from) # Device(Now.to)
     THEN /\ run' = [run EXCEPT !.phase = "copying", !.due = Under(disk, Now.from)]
          /\ UNCHANGED disk
     ELSE IF CanRename(disk, Now.from, Now.to)
     THEN disk' = Renamed(disk, Now.from, Now.to) /\ run' = Prune(run)
     ELSE Throw /\ UNCHANGED disk

\* cp: what it finds, each folder before what is in it; it overwrites.
Copy ==
  /\ run.phase = "copying" /\ Stays /\ UNCHANGED <<kept, untold>>
  /\ \E q \in Under(disk, Now.from) \ run.copied :
       LET to == Rebase(q, Now.from, Now.to) IN
       /\ q = Now.from \/ Parent(q) \in run.copied
       /\ IF to \in DOMAIN disk /\ (disk[to] = Folder) # (disk[q] = Folder)
          THEN Throw /\ UNCHANGED disk
          ELSE disk' = Put(disk, to, disk[q]) /\ run' = [run EXCEPT !.copied = @ \cup {q}]

\* A faulty variant for mutation: the copy counts as done with its first file.
CopiedAny(r) == r.due \cap r.copied # {}

Copied(r) == r.due \subseteq r.copied

CopyEnds ==
  /\ run.phase = "copying" /\ Copied(run) /\ Stays
  /\ run' = [run EXCEPT !.phase = "removing"]
  /\ UNCHANGED <<disk, kept, untold>>

\* rm -r: whatever is there, what is inside a folder before the folder.
Delete ==
  /\ run.phase = "removing" /\ Stays /\ UNCHANGED <<kept, untold>>
  /\ \/ \E q \in Under(disk, Now.from) :
          /\ Inside(disk, q) = {}
          /\ disk' = Without(disk, q) /\ UNCHANGED run
     \/ Under(disk, Now.from) = {} /\ run' = Prune(run) /\ UNCHANGED disk

\* pruneEmptyParents: empty, and below the root the plan names.
Prunable(d, dir, root) ==
  /\ dir \in DOMAIN d /\ Inside(d, dir) = {}
  /\ dir # root /\ IsPrefix(root, dir)

Moved(r) == [Skip(r, "moved") EXCEPT !.touched = @ \cup {Library[Head(r.todo)]}, !.dir = Nowhere,
                                     !.depth = 0]

PruneOne ==
  /\ run.phase = "pruning" /\ Stays /\ UNCHANGED kept
  /\ IF run.depth < 3 /\ run.dir # Nowhere /\ Prunable(disk, run.dir, Now.root)
     THEN /\ disk' = Without(disk, run.dir)
          /\ run' = [run EXCEPT !.dir = Parent(@), !.depth = @ + 1]
          /\ UNCHANGED untold
     ELSE run' = Moved(run) /\ untold' = untold \cup {Head(run.todo)} /\ UNCHANGED disk

\* scanLibrary is asked of each library in turn.
RequestScan ==
  /\ run.phase = "scanning" /\ Stays /\ UNCHANGED disk
  /\ \E lib \in run.touched :
       /\ untold' = {b \in untold : Library[b] # lib}
       /\ IF run.touched = {lib} THEN Finish([run EXCEPT !.touched = {}])
          ELSE run' = [run EXCEPT !.touched = @ \ {lib}] /\ UNCHANGED kept

--------------------------------------------------------------------------------
(***************************************************************************)
(* What happens around it.                                                 *)
(***************************************************************************)
\* A call to the filesystem or the server fails for good: the report is lost.
Fail ==
  /\ run.phase \in Working \ {"next"} /\ Upset /\ Throw
  /\ UNCHANGED <<disk, server, kept, runs, hand, untold, began>>

Crash ==
  /\ run.phase \in Working /\ Upset
  /\ run' = Idle
  /\ UNCHANGED <<disk, server, kept, runs, hand, untold, began>>

Stop ==
  /\ run.phase \in Working /\ run.kind # "plan" /\ ~run.abort
  /\ run' = [run EXCEPT !.abort = TRUE]
  /\ UNCHANGED <<disk, server, kept, runs, upsets, hand, untold, began>>

Meddled(p) == /\ run.phase \in {"checked", "made", "copying", "removing"}
              /\ IsPrefix(Now.from, p) \/ IsPrefix(Now.to, p)

\* Another hand puts a file on the disk.
Arrive(s) ==
  /\ Upset
  /\ Strangers[s] \notin DOMAIN disk /\ CanMake(disk, Strangers[s])
  /\ hand[s] = "away"
  /\ disk' = Put(WithFolders(disk, Strangers[s]), Strangers[s], <<s>>)
  /\ hand' = [hand EXCEPT ![s] = IF Meddled(Strangers[s]) THEN "in the way" ELSE "put"]
  /\ UNCHANGED <<server, kept, run, runs, untold, began>>

\* AudiobookShelf looks at the disk, asked or not: a book that is where it was
\* stays, one that is elsewhere is found there.
Scan ==
  /\ server' = [b \in Books |->
       IF Homes(disk, b) = {} \/ \E p \in Homes(disk, b) : Place(b, p) = server[b] THEN server[b]
       ELSE Place(b, CHOOSE p \in Homes(disk, b) : TRUE)]
  /\ server' # server
  /\ UNCHANGED <<disk, kept, run, runs, upsets, hand, untold, began>>

--------------------------------------------------------------------------------
\* The folders and files there are to begin with.
FirstFolders ==
  LET named == Roots \cup Mounts \cup
                 {First[b] : b \in {b \in Books : Parent(First[b]) \notin Roots \/ Last(First[b]) \notin Parts[b]}}
  IN named \cup UNION {Ancestors(p) : p \in named \cup {First[b] : b \in Books}}
FirstFiles(b) ==
  {Append(IF First[b] \in FirstFolders THEN First[b] ELSE Parent(First[b]), n) : n \in Parts[b]}

\* Paths are paths; no watched folder is inside another; a book is inside one,
\* and is the one file it consists of if it is loose there.
ASSUME OrganizeAssumption ==
  /\ IsFiniteSet(Books) /\ Roots \cup Mounts \subseteq Path \ {Nowhere}
  /\ \A r, s \in Roots : IsPrefix(r, s) => r = s
  /\ \A b \in Books :
       /\ Parts[b] # {} /\ Parts[b] \subseteq STRING
       /\ First[b] \in Path /\ \E r \in Roots : IsStrictPrefix(r, First[b])
       /\ Root[b] \in Roots /\ \A known \in BOOLEAN : Layout[known][b] \in Path
       /\ First[b] \in FirstFolders \/ Parts[b] = {Last(First[b])}
       /\ FirstFiles(b) \cap FirstFolders = {}
       /\ \A c \in Books \ {b} : FirstFiles(b) \cap FirstFiles(c) = {}
  /\ \A s \in DOMAIN Strangers : Strangers[s] \in Path \ {Nowhere}

Init ==
  /\ disk = [p \in FirstFolders \cup UNION {FirstFiles(b) : b \in Books} |->
               IF p \in FirstFolders THEN Folder
               ELSE <<CHOOSE b \in Books : p \in FirstFiles(b), Last(p)>>]
  /\ server = [b \in Books |-> [at |-> First[b], loose |-> disk[First[b]] # Folder]]
  /\ kept = NoPlans /\ run = Idle /\ runs = 0 /\ upsets = 0 /\ untold = {}
  /\ hand = [s \in DOMAIN Strangers |-> "away"] /\ began = [b \in Books |-> {}]

Step == \/ NextPlan \/ MakeFolders \/ Rename \/ Copy \/ CopyEnds \/ Delete \/ PruneOne
        \/ RequestScan

Next ==
  \/ \E kind \in Kinds : Start(kind)
  \/ Step
  \/ Fail \/ Crash \/ Stop \/ Scan
  \/ \E s \in DOMAIN Strangers : Arrive(s)

Spec == Init /\ [][Next]_vars

--------------------------------------------------------------------------------
(***************************************************************************)
(* Properties.                                                             *)
(***************************************************************************)
\* Whatever fails wherever, every book is whole in some folder, and so is every
\* file another hand put there, unless it came where a move had already looked
\* (organize.ts movePath, moveBlockedReason).
NothingIsLost ==
  /\ \A b \in Books : Homes(disk, b) # {}
  /\ \A s \in DOMAIN Strangers : hand[s] = "put" => \E p \in DOMAIN disk : disk[p] = <<s>>

\* Tidying up never removes a folder AudiobookShelf watches, not even when its
\* last book has been filed under another one (organize.ts pruneEmptyParents).
RootsStay == Roots \subseteq DOMAIN disk

\* Nothing on the disk is without the folder it is in.
IsTree == \A p \in DOMAIN disk : \A q \in Ancestors(p) : q \in DOMAIN disk /\ disk[q] = Folder

\* At every moment of a run, a copy half made or half removed included, the disk is
\* a tree that still holds every watched folder, every book and every file of
\* another hand (organize.ts movePath, pruneEmptyParents, moveBlockedReason).
DiskIsSound == IsTree /\ RootsStay /\ NothingIsLost

\* The report of a run that returned is what happened to the disk: a book it
\* calls moved, and that was whole where it was planned from, is at the place
\* planned and no longer there; every other book is wherever it was (organize.ts runOrganizeTask, apply.ts).
ReportMatchesDisk ==
  run.phase = "returned" => \A b \in Books :
    IF run.rows[b] = "moved"
    THEN LET plan == run.plans[b]
             home(p) == IF plan.file THEN Parent(p) ELSE p
         IN home(plan.from) \in began[b] => /\ home(plan.to) \in Homes(disk, b)
                                         /\ home(plan.from) \notin Homes(disk, b)
    ELSE began[b] \subseteq Homes(disk, b)

\* What ReportMatchesDisk takes for granted beyond the instance that is checked: the
\* folder a move works on has no file of another book below it (movePath takes
\* along whatever is there, and the other book's row says nothing of it).
Alone ==
  run.phase \in {"checked", "made", "copying", "removing"} =>
    \A q \in Under(disk, Now.from) : \A b \in Books \ {Head(run.todo)} : \A n \in Parts[b] :
      disk[q] # <<b, n>>

\* A run that returns has told AudiobookShelf of every move it made, stopped or
\* not: between a book's move and the return, its library was asked to scan
\* (organize.ts 589-592, "never left pointing at paths that moved").
ServerIsTold ==
  run.phase = "returned" /\ ~run.noScan
    => \A b \in Books : ~(b \in untold /\ run.rows[b] = "moved")

=================================================================================

--------------------------------- MODULE Sweep ----------------------------------
(***************************************************************************)
(* The three commands that go over a whole library and write to its books: *)
(* rate (core/rate.ts), metadata (core/metadata.ts) and normalize          *)
(* (core/normalize.ts), with the reading (context.ts), the limited map     *)
(* that judges the books (providers/http.ts) and the write that records    *)
(* its undo first (core/revisions.ts).  What is judged of one book is free *)
(* here: the rules are in Normalize, the answers in Lookups.               *)
(*                                                                         *)
(* Every part of a book is a set of values: its tags, its description      *)
(* ("blurb", {} when blank) and its authors ("names").  A task runs from   *)
(* one await to the next as one action; a request is on its way in between *)
(* and people, or a run in another process, may act: an Edit.              *)
(***************************************************************************)
EXTENDS Naturals, Sequences, FiniteSets, SequencesExt

CONSTANTS
  Books,
  Values,     \* Values[s]: what part s of a book may hold
  Butler,     \* the tags rate owns
  Work,       \* the tag that carries a work key
  Shelf,      \* what every book says before anything happens
  Concurrency,\* settings.providerConcurrency
  Kinds,      \* the commands people run
  MaxUpsets   \* bound: edits by other hands, failed requests, crashes

Parts == {"tags", "blurb", "names"}
Item == [tags : SUBSET Values["tags"], blurb : SUBSET Values["blurb"],
         names : SUBSET Values["names"]]
\* A verdict, a patch and its inverse say something of some parts.
IsPatch(p) == DOMAIN p \subseteq Parts /\ \A s \in DOMAIN p : p[s] \subseteq Values[s]
Nothing == [s \in {} |-> {}]

ASSUME SweepAssumption ==
  /\ IsFiniteSet(Books) /\ DOMAIN Values = Parts
  /\ Butler \subseteq Values["tags"] /\ Work \in Values["tags"] \ Butler
  /\ Shelf \in [Books -> Item]
  /\ Kinds \subseteq {"rate", "metadata", "normalize"}
  /\ Concurrency \in Nat \ {0}
  /\ MaxUpsets \in Nat

VARIABLES
  shelf,      \* the server: what each book says
  allow,      \* settings.allowMetadataRewrite
  run,        \* the task's locals
  report,     \* run_items of the run, once it has returned
  revisions,  \* undo records, oldest first
  moved,      \* history: parts other hands changed since the run read them
  landed,     \* history: writes that reached the server, and what they replaced
  upsets

vars == <<shelf, allow, run, report, revisions, moved, landed, upsets>>

\* `full` is false for a minified copy, which has no structured author list.
Reading == [says : Item, full : BOOLEAN]
NoReading == [says |-> [s \in Parts |-> {}], full |-> FALSE]

\* A book's row; the code not-written is `unwritten`.
IsRow(row) == /\ row.status \in {"clean", "skipped", "action"}
              /\ IsPatch(row.plan) /\ row.unwritten \in BOOLEAN
IsRevision(v) == /\ v.book \in Books
                 /\ IsPatch(v.before) /\ IsPatch(v.after)
Landing == [book : Books, was : Item, stale : SUBSET Parts,
            full : BOOLEAN]

Idle == [phase |-> "idle", kind |-> "none", real |-> FALSE, force |-> FALSE,
         mayReplace |-> FALSE, abort |-> FALSE, seen |-> [b \in Books |-> NoReading],
         unread |-> {}, items |-> <<>>, open |-> {}, busy |-> {},
         verdicts |-> [b \in {} |-> Nothing], stopped |-> FALSE, todo |-> {},
         written |-> {}]

\* The task's locals.
IsRun(r) ==
  /\ DOMAIN r = DOMAIN Idle
  /\ r.phase \in {"idle", "listing", "expanding", "judging", "sending",
                  "sent", "returned", "threw"}
  /\ r.kind \in Kinds \cup {"none"}
  /\ {r.real, r.force, r.mayReplace, r.abort, r.stopped} \subseteq BOOLEAN
  /\ r.seen \in [Books -> Reading]
  /\ r.unread \cup r.written \cup DOMAIN r.verdicts \subseteq Books
  /\ r.items \in Seq(Books)
  /\ r.open \cup r.busy \cup r.todo \subseteq DOMAIN r.items
  /\ \A b \in DOMAIN r.verdicts : IsPatch(r.verdicts[b])

TypeOK ==
  /\ shelf \in [Books -> Item] /\ allow \in BOOLEAN
  /\ IsRun(run)
  /\ DOMAIN report \subseteq Books
  /\ \A b \in DOMAIN report : IsRow(report[b])
  /\ \A k \in DOMAIN revisions : IsRevision(revisions[k])
  /\ moved \subseteq Books \X Parts
  /\ landed \subseteq Landing
  /\ upsets \in 0 .. MaxUpsets

--------------------------------------------------------------------------------
(***************************************************************************)
(* What a run understands of a book it read.                               *)
(***************************************************************************)
\* itemAuthors: a flattened list with a comma in it is not read at all.
Current(reading, s) ==
  IF s = "names" /\ ~reading.full /\ Cardinality(reading.says[s]) > 1 THEN {}
  ELSE reading.says[s]

\* A faulty variant for mutation: the flattened values stand for the part.
InverseKeepsOnly(reading, patch) ==
  [s \in DOMAIN patch |-> reading.says[s] \cap patch[s]]

\* inversePatch: what the parts a patch sets said, the author list from the
\* structured field alone.
InversePatch(reading, patch) ==
  [s \in DOMAIN patch |-> IF s = "names" /\ ~reading.full THEN {} ELSE reading.says[s]]

\* isAdditive: nothing was there; a work key is proposed where there is none.
Additive(reading, s) == s = "tags" \/ Current(reading, s) = {}

\* rateItem keeps every tag that is not rate's own.
RateVerdicts(reading) ==
  {[s \in {"tags"} |-> (reading.says["tags"] \ Butler) \cup generated] : generated \in SUBSET Butler}

\* planMetadata: the first answer that says something the book does not.
MetadataVerdicts(reading, overwrite) ==
  {Nothing} \cup
  IF reading.says["blurb"] # {} /\ ~overwrite THEN {}
  ELSE {[s \in {"blurb"} |-> {text}] : text \in Values["blurb"]}

\* planNormalize: an author list that is never empty, a work key, or both.
NormalizeVerdicts(reading) ==
  {[s \in parts |-> IF s = "names" THEN people ELSE reading.says["tags"] \cup {Work}] :
     parts \in SUBSET {"names", "tags"}, people \in SUBSET Values["names"] \ {{}}}

\* A part that would be left as it is, is not proposed.
Proposed(reading, verdict) ==
  [s \in {s \in DOMAIN verdict : verdict[s] # Current(reading, s)} |-> verdict[s]]

Verdicts(r, b) ==
  {Proposed(r.seen[b], v) : v \in
     CASE r.kind = "rate" -> RateVerdicts(r.seen[b])
       [] r.kind = "metadata" -> MetadataVerdicts(r.seen[b], r.force)
       [] r.kind = "normalize" -> NormalizeVerdicts(r.seen[b])}

\* A faulty variant for mutation: the switch is not asked.
WritableAll(r, b) == r.verdicts[b]

\* What of a verdict may be written: normalize holds replacements back unless
\* the switch was on when the run began.
Writable(r, b) ==
  LET v == r.verdicts[b] IN
  IF r.kind # "normalize" \/ r.mayReplace THEN v
  ELSE [s \in {s \in DOMAIN v : Additive(r.seen[b], s)} |-> v[s]]

Rated(item) == item.tags \cap Butler # {}

--------------------------------------------------------------------------------
(***************************************************************************)
(* The server and the people who use it.                                   *)
(***************************************************************************)
Upset == upsets < MaxUpsets /\ upsets' = upsets + 1

\* Another hand adds or removes a tag or an author, or writes the description.
Edit(b, s) ==
  /\ Upset
  /\ \E v \in Values[s] : shelf' = [shelf EXCEPT ![b][s] =
       IF v \in @ THEN @ \ {v} ELSE IF s = "blurb" THEN {v} ELSE @ \cup {v}]
  /\ moved' = moved \cup {<<b, s>>}
  /\ UNCHANGED <<allow, run, report, revisions, landed>>

FlipSwitch ==
  /\ Upset
  /\ allow' = ~allow
  /\ UNCHANGED <<shelf, run, report, revisions, moved, landed>>

--------------------------------------------------------------------------------
(***************************************************************************)
(* The end of a run, and the loop that writes.                             *)
(***************************************************************************)
Judged(r) == DOMAIN r.verdicts

\* The books passed over because they carry a rating already.
PassedOver(r) ==
  IF r.kind = "rate" /\ ~r.force THEN {b \in Books : Rated(r.seen[b].says)} ELSE {}

\* A faulty variant for mutation: a plan is kept for a dry run only.
RowOfDryRun(r, b) ==
  [status |-> IF r.verdicts[b] = Nothing THEN "clean"
              ELSE IF Writable(r, b) = Nothing THEN "skipped" ELSE "action",
   plan |-> IF r.real THEN Nothing ELSE r.verdicts[b],
   unwritten |-> r.real /\ Writable(r, b) # Nothing /\ b \notin r.written]

\* The row of a judged book: its plan is kept unless this run wrote it.
RowOf(r, b) ==
  [status |-> IF r.verdicts[b] = Nothing THEN "clean"
              ELSE IF Writable(r, b) = Nothing THEN "skipped" ELSE "action",
   plan |-> IF b \in r.written THEN Nothing ELSE r.verdicts[b],
   unwritten |-> r.real /\ Writable(r, b) # Nothing /\ b \notin r.written]

Skipped == [status |-> "skipped", plan |-> Nothing, unwritten |-> FALSE]

\* reportItems, and the counts the run returns.
Return(r) ==
  /\ run' = [r EXCEPT !.phase = "returned", !.stopped = @ \/ r.abort]
  /\ report' = [b \in Judged(r) \cup PassedOver(r) |->
                 IF b \in Judged(r) THEN RowOf(r, b) ELSE Skipped]
  /\ UNCHANGED revisions

\* applyPatch up to its request: the undo record, then the write.
Record(r, b) ==
  /\ revisions' = Append(revisions, [book |-> b,
                       before |-> InversePatch(r.seen[b], Writable(r, b)), after |-> Writable(r, b)])
  /\ run' = [r EXCEPT !.phase = "sending"]
  /\ UNCHANGED report

\* Books are written in the order of the listing: `todo` holds their places.
Turn(r) == Min(r.todo)
Target(r) == r.items[Turn(r)]

\* The top of the write loop, and what follows it.
Continue(r) ==
  IF r.todo = {} \/ r.abort THEN Return(r) ELSE Record(r, Target(r))

\* The map has resolved: what is to be written.
Settle(r) ==
  LET due(b) == b \in Judged(r) /\ Writable(r, b) # Nothing IN
  Continue([r EXCEPT !.todo = {i \in DOMAIN r.items : r.real /\ due(r.items[i])}])

--------------------------------------------------------------------------------
(***************************************************************************)
(* mapLimitPartial: a worker that is free looks at the signal, then claims *)
(* the next book; the map resolves when the last worker is done.           *)
(***************************************************************************)
First(places, n) == {i \in places : Cardinality({j \in places : j < i}) < n}

Claimed(r, n) ==
  [r EXCEPT !.phase = "judging", !.busy = @ \cup First(r.open, n),
            !.open = @ \ First(r.open, n)]

JoinOr(r) ==
  IF r.busy = {} THEN Settle(r)
  ELSE run' = r /\ UNCHANGED <<report, revisions>>

\* n workers look for a book each.
Claim(r, n) ==
  JoinOr(IF r.abort THEN [r EXCEPT !.phase = "judging", !.stopped = TRUE] ELSE Claimed(r, n))

\* `open` are the places of the listing nobody has claimed.
StartMap(r) ==
  Claim([r EXCEPT !.open = {i \in DOMAIN r.items : r.items[i] \notin PassedOver(r)}],
        Concurrency)

Noted(verdicts, b, v) ==
  [c \in {b} \cup DOMAIN verdicts |-> IF c = b THEN v ELSE verdicts[c]]

\* The worker on place i has its verdict; a look at the cache may need no await
\* at all, which is only a shorter wait.
Judge(i) ==
  LET r == run  b == r.items[i] IN
  /\ r.phase = "judging" /\ i \in r.busy
  /\ \E v \in Verdicts(r, b) :
       Claim([r EXCEPT !.busy = @ \ {i}, !.verdicts = Noted(@, b, v)], 1)
  /\ UNCHANGED <<shelf, allow, moved, landed, upsets>>

\* A stop fails the lookup in flight.
JudgeAborted(i) ==
  LET r == run IN
  /\ r.phase = "judging" /\ i \in r.busy /\ r.abort
  /\ JoinOr([r EXCEPT !.busy = @ \ {i}, !.stopped = TRUE])
  /\ UNCHANGED <<shelf, allow, moved, landed, upsets>>

--------------------------------------------------------------------------------
(***************************************************************************)
(* Starting and reading.                                                   *)
(***************************************************************************)
Ended(r) == r.phase \in {"idle", "returned", "threw"}

\* `force` is rate's --force and metadata's --overwrite.
Start(kind, real, force) ==
  /\ run.phase = "idle"
  /\ run' = [Idle EXCEPT !.phase = "listing", !.kind = kind, !.real = real,
               !.force = force /\ kind # "normalize", !.mayReplace = allow]
  /\ UNCHANGED <<shelf, allow, report, revisions, moved, landed, upsets>>

Throw == run' = [run EXCEPT !.phase = "threw"] /\ UNCHANGED <<report, revisions>>

\* The library is listed, in one page.
List ==
  LET r == [run EXCEPT !.seen = [b \in Books |-> [says |-> shelf[b], full |-> FALSE]],
                          !.items = SetToSeq(Books), !.unread = Books] IN
  /\ run.phase = "listing"
  /\ CASE r.abort -> Throw
       [] ~r.abort /\ r.kind = "normalize" ->
            /\ run' = [r EXCEPT !.phase = "expanding"]
            /\ UNCHANGED <<report, revisions>>
       [] ~r.abort /\ r.kind # "normalize" -> StartMap(r)
  /\ moved' = {}
  /\ UNCHANGED <<shelf, allow, landed, upsets>>

AfterExpand(r) ==
  IF r.unread = {} THEN StartMap(r)
  ELSE run' = r /\ UNCHANGED <<report, revisions>>

\* normalize reads each book in full.
Expand(b) ==
  LET r == run IN
  /\ r.phase = "expanding" /\ b \in r.unread /\ ~r.abort
  /\ AfterExpand([r EXCEPT !.unread = @ \ {b},
                              !.seen[b] = [says |-> shelf[b], full |-> TRUE]])
  /\ moved' = {m \in moved : m[1] # b}
  /\ UNCHANGED <<shelf, allow, landed, upsets>>

\* A book that cannot be read in full is judged on its minified copy.
ExpandFails(b) ==
  LET r == run IN
  /\ r.phase = "expanding" /\ b \in r.unread /\ ~r.abort
  /\ Upset
  /\ AfterExpand([r EXCEPT !.unread = @ \ {b}])
  /\ UNCHANGED <<shelf, allow, moved, landed>>

\* mapLimit raises a stop as the error it was.
ExpandAborted ==
  /\ run.phase = "expanding" /\ run.abort
  /\ Throw
  /\ UNCHANGED <<shelf, allow, moved, landed, upsets>>

--------------------------------------------------------------------------------
(***************************************************************************)
(* Writing.                                                                *)
(***************************************************************************)
\* The PATCH reaches the server, which replaces each list it is given.
Land ==
  LET r == run  b == Target(r)  patch == Writable(r, b) IN
  /\ r.phase = "sending"
  /\ shelf' = [shelf EXCEPT ![b] = [s \in Parts |-> IF s \in DOMAIN patch THEN patch[s] ELSE @[s]]]
  /\ landed' = landed \cup {[book |-> b, was |-> shelf[b],
                 stale |-> {s \in Parts : <<b, s>> \in moved}, full |-> r.seen[b].full]}
  /\ run' = [run EXCEPT !.phase = "sent"]
  /\ UNCHANGED <<allow, report, revisions, moved, upsets>>

Answered ==
  LET r == run IN
  /\ r.phase = "sent"
  /\ Continue([r EXCEPT !.todo = @ \ {Turn(r)}, !.written = @ \cup {Target(r)}])
  /\ UNCHANGED <<shelf, allow, moved, landed, upsets>>

\* A request that fails, its write having landed or not, ends the run with
\* nothing reported; so does a failed listing.
RequestFails ==
  /\ run.phase \in {"listing", "sending", "sent"}
  /\ Upset
  /\ Throw
  /\ UNCHANGED <<shelf, allow, moved, landed>>

\* The process ends.
Crash ==
  /\ ~Ended(run)
  /\ Upset
  /\ run' = [run EXCEPT !.phase = "threw"]
  /\ UNCHANGED <<shelf, allow, report, revisions, moved, landed>>

\* Someone stops the run.
Stop ==
  /\ ~Ended(run) /\ ~run.abort
  /\ run' = [run EXCEPT !.abort = TRUE]
  /\ UNCHANGED <<shelf, allow, report, revisions, moved, landed, upsets>>

--------------------------------------------------------------------------------
Init ==
  /\ shelf = Shelf /\ allow \in BOOLEAN
  /\ run = Idle
  /\ report = [b \in {} |-> Skipped]
  /\ revisions = <<>>
  /\ moved = {}
  /\ landed = {}
  /\ upsets = 0

Step ==
  \/ List
  \/ \E b \in Books : Expand(b)
  \/ ExpandAborted
  \/ \E i \in run.busy : Judge(i) \/ JudgeAborted(i)
  \/ Land
  \/ Answered

Next ==
  \/ \E kind \in Kinds, real, force \in BOOLEAN : Start(kind, real, force)
  \/ Step
  \/ \E b \in Books : ExpandFails(b)
  \/ RequestFails
  \/ Crash
  \/ Stop
  \/ \E b \in Books, s \in Parts : Edit(b, s)
  \/ FlipSwitch

Spec == Init /\ [][Next]_vars

--------------------------------------------------------------------------------
(***************************************************************************)
(* Properties.                                                             *)
(***************************************************************************)
Lost(b, s) == shelf[b][s] \ shelf'[b][s]

\* What a run takes away, it may: rate its own tags, metadata nothing unless
\* told to overwrite, normalize nothing while the rewrite switch was off when it
\* began.  Anything else a write takes away came after the run read the book,
\* or was an author list it could not read in full.
TakesOnlyWhatCameLater ==
  [][Land =>
       LET r == run  b == Target(r) IN
       \A s \in Parts :
         \/ <<b, s>> \in moved
         \/ CASE r.kind = "rate" -> Lost(b, s) \subseteq Butler
              [] r.kind = "metadata" -> r.force \/ Lost(b, s) = {}
              [] r.kind = "normalize" ->
                   \/ r.mayReplace
                   \/ Lost(b, s) = {}
                   \/ s = "names" /\ ~r.seen[b].full]_vars

\* Every write that reached the server has an undo record, and putting the
\* record back restores each part as it was when the write replaced it: unless
\* somebody changed that part after the run read the book, or it is an author
\* list read from a minified copy.
UndoTellsTheTruth ==
  \A l \in landed : \E k \in DOMAIN revisions :
    /\ revisions[k].book = l.book
    /\ \A s \in DOMAIN revisions[k].before :
         \/ s \in l.stale
         \/ s = "names" /\ ~l.full
         \/ revisions[k].before[s] = l.was[s]

\* The report of a run that returned accounts for every book: one with no row
\* was never reached and the run says it was stopped; one whose plan is kept
\* was not written; one decided on and neither written nor kept does not exist;
\* and a real run that was not stopped leaves nothing writable unwritten.
ReportIsWhatHappened ==
  run.phase = "returned" =>
    LET r == run
        wrote(b) == \E l \in landed : l.book = b
    IN \A b \in Books :
         IF b \notin DOMAIN report THEN r.stopped /\ ~wrote(b)
         ELSE /\ report[b].plan # Nothing => ~wrote(b)
              /\ report[b].status = "action" /\ report[b].plan = Nothing => wrote(b)
              /\ report[b].unwritten => r.stopped /\ report[b].plan # Nothing

================================================================================

------------------------------- MODULE PlanReplay -------------------------------
(***************************************************************************)
(* Carrying out what a run decided, and putting it back: `apply`           *)
(* (src/core/apply.ts), the undo records every write leaves                *)
(* (src/core/revisions.ts, src/db/revisions.ts), `revert`                  *)
(* (src/core/revert.ts) and the per-book rows that keep a run's plans      *)
(* (src/db/runItems.ts), against an AudiobookShelf server that other       *)
(* people edit at the same time.                                           *)
(*                                                                         *)
(* Modelled plan kinds: rate (tags), metadata and normalize (text fields). *)
(* Between two awaits a task is one action; every request to the server is *)
(* an await, so anything may happen between the read of a book and the     *)
(* write that follows from it.                                             *)
(***************************************************************************)
EXTENDS Naturals, Sequences, FiniteSets

CONSTANTS
  Books, Fields, Tags,
  Texts,      \* values of a text field; "" is blank, absent or null
  Library,    \* what every book says before anything happens
  Recorded,   \* Recorded[s][b]: the plan that run s, a dry run, kept for b
  Workers,    \* processes that carry out applies: serve's queue, a CLI
  Reverters,  \* HTTP requests or CLI processes that carry out reverts
  Careful,    \* TRUE: people keep out of the program's way, see CarefulEdit
  Forces,     \* answers to `--force` that people give a revert
  MaxRuns,    \* bound: ids of runs, sources included
  MaxEdits,   \* bound: edits made by people
  MaxFaults   \* bound: failed requests and crashes

Content == [text : [Fields -> Texts], tags : SUBSET Tags]
Source == DOMAIN Recorded
RunId == 1 .. MaxRuns
NoRun == 0

Change == [from : Texts, to : Texts, additive : BOOLEAN]
IsPlan(p) ==
  /\ p.kind \in {"rate", "metadata", "normalize"}
  /\ DOMAIN p.change \subseteq Fields
  /\ \A f \in DOMAIN p.change : p.change[f] \in Change
  /\ p.added \subseteq Tags
  /\ p.removed \subseteq Tags

\* AbsMediaPatch: the fields it sets, and the whole tag list if it sets one.
Patch == [text : UNION {[S -> Texts] : S \in SUBSET Fields},
          tags : {{}} \cup {{T} : T \in SUBSET Tags}]

ASSUME PlanReplayAssumption ==
  /\ "" \in Texts
  /\ Library \in [Books -> Content]
  /\ MaxRuns \in Nat /\ MaxEdits \in Nat /\ MaxFaults \in Nat
  /\ Careful \in BOOLEAN
  /\ Forces \in SUBSET BOOLEAN
  /\ \E n \in 0 .. MaxRuns : Source = 1 .. n
  /\ \A s \in Source : /\ DOMAIN Recorded[s] \subseteq Books
                      /\ \A b \in DOMAIN Recorded[s] : IsPlan(Recorded[s][b])

VARIABLES
  shelf,      \* the server: what each book says
  gone,       \* books deleted from the server
  mayReplace, \* settings.allowMetadataRewrite
  rows,       \* run_items: code and plan by run and book
  revisions,  \* the revisions table, oldest first
  lastRun,    \* the highest run id handed out
  apply,      \* runApplyTask's locals, by worker
  revert,     \* runRevertTask's locals, by reverter
  hand,       \* history: what people last gave each field of each book
  edits,      \* how many edits people have made (bounded)
  faults      \* how many requests have failed (bounded)

vars == <<shelf, gone, mayReplace, rows, revisions, lastRun, apply, revert,
          hand, edits, faults>>

\* A plan travels from row to row unaltered, so a row names the run whose
\* decision it carries; NoRun is no plan.  "none" is no row.
Row == [code : {"none", "planned", "written", "already-applied", "held-back",
                "changed-since", "missing", "not-reached"},
        plan : {NoRun} \cup Source]
NoRow == [code |-> "none", plan |-> NoRun]

NoPatch == [text |-> [f \in {} |-> ""], tags |-> {}]

IdleApply == [phase |-> "idle", run |-> NoRun, from |-> NoRun, real |-> FALSE,
              mayReplace |-> FALSE, plans |-> [b \in Books |-> NoRun], todo |-> {}, stop |-> FALSE, settled |-> {},
              report |-> [b \in Books |-> NoRow], revision |-> 0]
IdleRevert == [force |-> FALSE, todo |-> {}, chosen |-> {}]

\* `landed` is history: whether the write behind a revision reached the server.
Revision == [run : RunId, book : Books, before : Patch,
             after : Patch, landed : BOOLEAN, reverted : BOOLEAN]

ApplyState ==
  [phase : {"idle", "loop", "writing"}, run : {NoRun} \cup RunId,
   from : {NoRun} \cup RunId, real : BOOLEAN, mayReplace : BOOLEAN,
   plans : [Books -> {NoRun} \cup Source], todo : SUBSET Books,
   stop : BOOLEAN, settled : SUBSET Books, report : [Books -> Row],
   revision : Nat]

TypeOK ==
  /\ shelf \in [Books -> Content]
  /\ gone \in SUBSET Books
  /\ mayReplace \in BOOLEAN
  /\ rows \in [RunId -> [Books -> Row]]
  /\ revisions \in Seq(Revision)
  /\ lastRun \in 0 .. MaxRuns
  /\ apply \in [Workers -> ApplyState]
  /\ revert \in [Reverters ->
       [force : BOOLEAN, todo : SUBSET Nat, chosen : SUBSET Nat]]
  /\ hand \in [Books -> Content]
  /\ edits \in 0 .. MaxEdits
  /\ faults \in 0 .. MaxFaults

Init ==
  /\ shelf = Library
  /\ gone = {}
  /\ mayReplace \in BOOLEAN
  /\ rows = [r \in RunId |-> [b \in Books |->
       IF r \in Source /\ b \in DOMAIN Recorded[r]
         THEN [code |-> "planned", plan |-> r] ELSE NoRow]]
  /\ revisions = <<>>
  /\ lastRun \in 0 .. MaxRuns /\ Source = 1 .. lastRun
  /\ apply = [w \in Workers |-> IdleApply]
  /\ revert = [v \in Reverters |-> IdleRevert]
  /\ hand = Library
  /\ edits = 0
  /\ faults = 0

--------------------------------------------------------------------------------
(***************************************************************************)
(* Patches.                                                                *)
(***************************************************************************)
\* What patchItemMedia does to a book: tags are replaced wholesale.
Patched(c, p) ==
  [text |-> [f \in Fields |->
               IF f \in DOMAIN p.text THEN p.text[f] ELSE c.text[f]],
   tags |-> IF p.tags = {} THEN c.tags ELSE UNION p.tags]

\* A faulty variant for mutation: a field that was blank has no inverse.
InversePatchWithoutBlanks(c, p) ==
  [text |-> [f \in {g \in DOMAIN p.text : c.text[g] # ""} |-> c.text[f]],
   tags |-> IF p.tags = {} THEN {} ELSE {c.tags}]

\* inversePatch: only the fields the outgoing patch touches.
InversePatch(c, p) ==
  [text |-> [f \in DOMAIN p.text |-> c.text[f]],
   tags |-> IF p.tags = {} THEN {} ELSE {c.tags}]

\* changedSince: the book no longer reads the way the patch left it.
ChangedSince(c, after) == Patched(c, after) # c

(***************************************************************************)
(* Deciding about one book: decide, decideRate, decideMetadata,            *)
(* decideNormalize.                                                        *)
(***************************************************************************)
\* The book does not say yet what the plan would make it say.
Open(p, c) == {f \in DOMAIN p.change : c.text[f] # p.change[f].to}

\* Faulty variants for mutation: the switch is not asked; the value a plan
\* was decided against is not compared.
HeldNever(p, c, may) == {}
OutdatedNever(p, c, may) == {}

\* isAdditive, and the switch that lets a normalize replace values.
Held(p, c, may) ==
  {f \in Open(p, c) : /\ p.kind = "normalize" /\ ~may
                      /\ p.change[f].from # "" /\ ~p.change[f].additive}

Outdated(p, c, may) ==
  {f \in Open(p, c) \ Held(p, c, may) : c.text[f] # p.change[f].from}

Keep(p, c, may) == (Open(p, c) \ Held(p, c, may)) \ Outdated(p, c, may)

NextTags(p, c) == (c.tags \ p.removed) \cup p.added

PatchFor(p, c, may) ==
  [text |-> [f \in Keep(p, c, may) |-> p.change[f].to],
   tags |-> IF p.kind = "rate" /\ NextTags(p, c) # c.tags
              THEN {NextTags(p, c)} ELSE {}]

Verdict(p, c, may) ==
  CASE PatchFor(p, c, may) # NoPatch -> "write"
    [] Held(p, c, may) # {} -> "held-back"
    [] Outdated(p, c, may) # {} -> "changed-since"
    [] OTHER -> "already-applied"

--------------------------------------------------------------------------------
(***************************************************************************)
(* apply.                                                                  *)
(***************************************************************************)
Waiting(r) == {b \in Books : rows[r][b].plan # NoRun}
Busy(w) == apply[w].phase # "idle"
Restoring(v) == revert[v].todo # {} \/ revert[v].chosen # {}

\* runApplyTask up to its first await: the rows are read once, the switches
\* are the ones the run's context was opened with.
ApplyBegin(w, from, items, real) ==
  /\ ~Busy(w) /\ lastRun < MaxRuns
  /\ from \in 1 .. lastRun
  /\ Waiting(from) \cap items # {}
  /\ Careful => ~ (\E u \in Workers : Busy(u)) /\ ~ (\E v \in Reverters : Restoring(v))
  /\ lastRun' = lastRun + 1
  /\ apply' = [apply EXCEPT ![w] =
       [IdleApply EXCEPT !.phase = "loop", !.run = lastRun + 1, !.from = from,
                         !.real = real, !.mayReplace = mayReplace,
                         !.plans = [b \in Books |-> rows[from][b].plan],
                         !.todo = Waiting(from) \cap items]]
  /\ UNCHANGED <<shelf, gone, mayReplace, rows, revisions, revert, hand, edits, faults>>

\* The loop moves on from book b, having reported it.
Reported(a, b, code, plan) ==
  [a EXCEPT !.phase = "loop", !.todo = @ \ {b},
            !.report[b] = [code |-> code, plan |-> plan],
            !.settled = IF a.real /\ plan = NoRun THEN @ \cup {b} ELSE @]

AtBook(w, b) ==
  /\ apply[w].phase = "loop" /\ ~apply[w].stop /\ b \in apply[w].todo

\* getItem failed, for whatever reason: reported as missing, and settled.
ReadFails(w, b) ==
  /\ AtBook(w, b)
  /\ b \in gone \/ faults < MaxFaults
  /\ faults' = IF b \in gone THEN faults ELSE faults + 1
  /\ apply' = [apply EXCEPT ![w] = Reported(@, b, "missing", NoRun)]
  /\ UNCHANGED <<shelf, gone, mayReplace, rows, revisions, lastRun, revert, hand, edits>>

PlanOf(w, b) == Recorded[apply[w].plans[b]][b]

\* getItem answered and the task ran on to its next await.  A write starts
\* with applyPatch, which records the way back before it sends the request.
Visit(w, b) ==
  LET a == apply[w]
      p == PlanOf(w, b)
      patch == PatchFor(p, shelf[b], a.mayReplace)
      verdict == Verdict(p, shelf[b], a.mayReplace)
      kept == a.plans[b]
  IN
  /\ AtBook(w, b) /\ b \notin gone
  /\ \/ /\ verdict = "write" /\ a.real
        /\ revisions' = Append(revisions,
             [run |-> a.run, book |-> b, before |-> InversePatch(shelf[b], patch),
              after |-> patch, landed |-> FALSE, reverted |-> FALSE])
        /\ apply' = [apply EXCEPT ![w].phase = "writing",
                                  ![w].revision = Len(revisions) + 1]
     \/ /\ verdict = "write" /\ ~a.real
        /\ apply' = [apply EXCEPT ![w] = Reported(@, b, "planned", kept)]
        /\ UNCHANGED revisions
     \/ /\ verdict # "write"
        /\ apply' = [apply EXCEPT ![w] =
             Reported(@, b, verdict, IF verdict = "held-back" THEN kept ELSE NoRun)]
        /\ UNCHANGED revisions
  /\ UNCHANGED <<shelf, gone, mayReplace, rows, lastRun, revert, hand, edits, faults>>

\* A faulty variant for mutation: a patch without tags is sent with none.
LandWithoutTags(w) ==
  LET r == revisions[apply[w].revision]
  IN /\ shelf' = [shelf EXCEPT ![r.book] =
         Patched(@, [r.after EXCEPT !.tags = {UNION r.after.tags}])]
     /\ revisions' = [revisions EXCEPT ![apply[w].revision].landed = TRUE]

\* The patch request of worker w reaches the server.
Land(w) ==
  LET r == revisions[apply[w].revision]
  IN /\ shelf' = [shelf EXCEPT ![r.book] = Patched(@, r.after)]
     /\ revisions' = [revisions EXCEPT ![apply[w].revision].landed = TRUE]

Write(w) ==
  /\ apply[w].phase = "writing"
  /\ revisions[apply[w].revision].book \notin gone
  /\ Land(w)
  /\ apply' = [apply EXCEPT ![w] =
       Reported(@, revisions[apply[w].revision].book, "written", NoRun)]
  /\ UNCHANGED <<gone, mayReplace, rows, lastRun, revert, hand, edits, faults>>

\* The patch is refused, because the book has been deleted: applyPatch throws,
\* and the run ends with no report and nothing settled.
WriteRefused(w) ==
  /\ apply[w].phase = "writing"
  /\ revisions[apply[w].revision].book \in gone
  /\ apply' = [apply EXCEPT ![w] = IdleApply]
  /\ UNCHANGED <<shelf, gone, mayReplace, rows, revisions, lastRun, revert, hand, edits, faults>>

\* A faulty variant for mutation: the failed patch is swallowed and the book
\* reported as written.
ApplyDiesQuietly(w) ==
  /\ apply[w].phase = "writing" /\ faults < MaxFaults
  /\ faults' = faults + 1
  /\ apply' = [apply EXCEPT ![w] =
       Reported(@, revisions[apply[w].revision].book, "written", NoRun)]
  /\ UNCHANGED <<shelf, gone, mayReplace, rows, revisions, lastRun, revert, hand, edits>>

\* The process dies, or the patch fails after its retries.  A request under
\* way may have reached the server all the same.
ApplyDies(w) ==
  /\ Busy(w) /\ faults < MaxFaults
  /\ faults' = faults + 1
  /\ apply' = [apply EXCEPT ![w] = IdleApply]
  /\ \/ /\ apply[w].phase = "writing"
        /\ revisions[apply[w].revision].book \notin gone
        /\ Land(w)
     \/ UNCHANGED <<shelf, revisions>>
  /\ UNCHANGED <<gone, mayReplace, rows, lastRun, revert, hand, edits>>

\* JobRunner.cancel on the run: seen between whole books.
StopApply(w) ==
  /\ Busy(w) /\ ~apply[w].stop
  /\ apply' = [apply EXCEPT ![w].stop = TRUE]
  /\ UNCHANGED <<shelf, gone, mayReplace, rows, revisions, lastRun, revert, hand, edits, faults>>

\* The report: books that were not reached keep their plan.
ReportRows(a) ==
  [b \in Books |-> IF b \in a.todo THEN [code |-> "not-reached", plan |-> a.plans[b]]
                                   ELSE a.report[b]]

\* clearRunItemPlans.
Cleared(items, settled) ==
  [b \in Books |-> IF b \in settled THEN [items[b] EXCEPT !.plan = NoRun] ELSE items[b]]

\* A faulty variant for mutation: every selected book is settled at the end.
ApplyEndClearsAll(w) ==
  LET a == apply[w] IN
  /\ a.phase = "loop" /\ (a.todo = {} \/ a.stop)
  /\ rows' = [rows EXCEPT ![a.run] = a.report, ![a.from] = Cleared(rows[a.from], Books)]
  /\ apply' = [apply EXCEPT ![w] = IdleApply]
  /\ UNCHANGED <<shelf, gone, mayReplace, revisions, lastRun, revert, hand, edits, faults>>

\* The run's own rows are replaced by its report, then the settled plans are
\* cleared from the run they came from.
ApplyEnd(w) ==
  LET a == apply[w] IN
  /\ a.phase = "loop" /\ (a.todo = {} \/ a.stop)
  /\ rows' = [rows EXCEPT ![a.run] = ReportRows(a),
                          ![a.from] = Cleared(rows[a.from], a.settled)]
  /\ apply' = [apply EXCEPT ![w] = IdleApply]
  /\ UNCHANGED <<shelf, gone, mayReplace, revisions, lastRun, revert, hand, edits, faults>>

\* The process dies between the two: the report is kept, nothing is cleared.
ApplyDiesReported(w) ==
  LET a == apply[w] IN
  /\ a.phase = "loop" /\ (a.todo = {} \/ a.stop) /\ faults < MaxFaults
  /\ faults' = faults + 1
  /\ rows' = [rows EXCEPT ![a.run] = ReportRows(a)]
  /\ apply' = [apply EXCEPT ![w] = IdleApply]
  /\ UNCHANGED <<shelf, gone, mayReplace, revisions, lastRun, revert, hand, edits>>

--------------------------------------------------------------------------------
(***************************************************************************)
(* revert.  It runs inside the HTTP request that asked for it, not in the  *)
(* queue.                                                                  *)
(***************************************************************************)
RevertBegin(v, run, force) ==
  /\ ~Restoring(v)
  /\ Careful => ~ (\E w \in Workers : Busy(w)) /\ ~ (\E u \in Reverters : Restoring(u))
  /\ revert' = [revert EXCEPT ![v] =
       [force |-> force, chosen |-> {},
        todo |-> {i \in DOMAIN revisions : revisions[i].run = run /\ ~revisions[i].reverted}]]
  /\ revert'[v].todo # {}
  /\ UNCHANGED <<shelf, gone, mayReplace, rows, revisions, lastRun, apply, hand, edits, faults>>

\* inspect: every revision is looked at, oldest first, before any is restored.
Inspect(v) ==
  LET i == CHOOSE i \in revert[v].todo : \A j \in revert[v].todo : i <= j
      r == revisions[i]
      restorable == r.book \notin gone /\ (revert[v].force \/ ~ChangedSince(shelf[r.book], r.after))
  IN
  /\ revert[v].todo # {}
  /\ \/ /\ revert' = [revert EXCEPT ![v].todo = @ \ {i},
                                    ![v].chosen = IF restorable THEN @ \cup {i} ELSE @]
        /\ UNCHANGED faults
     \/ /\ faults < MaxFaults \* getItem failed: skipped
        /\ faults' = faults + 1
        /\ revert' = [revert EXCEPT ![v].todo = @ \ {i}]
  /\ UNCHANGED <<shelf, gone, mayReplace, rows, revisions, lastRun, apply, hand, edits>>

Newest(v) == CHOOSE i \in revert[v].chosen : \A j \in revert[v].chosen : j <= i

PutBack(i) ==
  shelf' = [shelf EXCEPT ![revisions[i].book] = Patched(@, revisions[i].before)]

AtRestore(v) == revert[v].todo = {} /\ revert[v].chosen # {}

\* Newest first: the patch lands, then markReverted.
Restore(v) ==
  LET i == Newest(v) IN
  /\ AtRestore(v) /\ revisions[i].book \notin gone
  /\ PutBack(i)
  /\ revisions' = [revisions EXCEPT ![i].reverted = TRUE]
  /\ revert' = [revert EXCEPT ![v].chosen = @ \ {i}]
  /\ UNCHANGED <<gone, mayReplace, rows, lastRun, apply, hand, edits, faults>>

\* The book was deleted after it was inspected: the whole revert throws.
RestoreRefused(v) ==
  /\ AtRestore(v) /\ revisions[Newest(v)].book \in gone
  /\ revert' = [revert EXCEPT ![v] = IdleRevert]
  /\ UNCHANGED <<shelf, gone, mayReplace, rows, revisions, lastRun, apply, hand, edits, faults>>

\* The process dies, or a request fails: what is chosen and not yet restored
\* stays as it is.  A patch under way may have landed, unmarked.
RevertDies(v) ==
  /\ Restoring(v) /\ faults < MaxFaults
  /\ faults' = faults + 1
  /\ revert' = [revert EXCEPT ![v] = IdleRevert]
  /\ \/ AtRestore(v) /\ revisions[Newest(v)].book \notin gone /\ PutBack(Newest(v))
     \/ UNCHANGED shelf
  /\ UNCHANGED <<gone, mayReplace, rows, revisions, lastRun, apply, hand, edits>>

--------------------------------------------------------------------------------
(***************************************************************************)
(* Everybody else.                                                         *)
(***************************************************************************)
\* Careful people leave a book alone while the program is between reading and
\* writing it, and type values of their own rather than ones it has written.
InHand(b) ==
  \/ \E w \in Workers : apply[w].phase = "writing" /\ revisions[apply[w].revision].book = b
  \/ \E v \in Reverters : \E i \in revert[v].chosen : revisions[i].book = b

CarefulEdit(b, p) ==
  /\ ~InHand(b)
  /\ \A i \in DOMAIN revisions : revisions[i].book = b =>
       LET after == revisions[i].after IN
       /\ \A f \in DOMAIN p.text \cap DOMAIN after.text : p.text[f] # after.text[f]
       /\ p.tags # {} => p.tags # after.tags

\* Someone gives book b a value in AudiobookShelf.
Edit(b, p) ==
  /\ b \notin gone /\ edits < MaxEdits
  /\ Patched(shelf[b], p) # shelf[b]
  /\ Careful => CarefulEdit(b, p)
  /\ shelf' = [shelf EXCEPT ![b] = Patched(@, p)]
  /\ hand' = [hand EXCEPT ![b] = Patched(@, p)]
  /\ edits' = edits + 1
  /\ UNCHANGED <<gone, mayReplace, rows, revisions, lastRun, apply, revert, faults>>

Delete(b) ==
  /\ b \notin gone /\ edits < MaxEdits
  /\ gone' = gone \cup {b}
  /\ edits' = edits + 1
  /\ UNCHANGED <<shelf, mayReplace, rows, revisions, lastRun, apply, revert, hand, faults>>

\* Someone flips "Allow metadata rewrite" in Settings.
FlipSwitch ==
  /\ mayReplace' = ~mayReplace
  /\ UNCHANGED <<shelf, gone, rows, revisions, lastRun, apply, revert, hand, edits, faults>>

OneField == {[text |-> [g \in {f} |-> t], tags |-> {}] : f \in Fields, t \in Texts}
OneTag(b) == {[text |-> [f \in {} |-> ""],
               tags |-> {IF t \in shelf[b].tags THEN shelf[b].tags \ {t}
                                                ELSE shelf[b].tags \cup {t}}] : t \in Tags}

ApplyStep(w) ==
  \/ \E from \in RunId, items \in SUBSET Books, real \in BOOLEAN : ApplyBegin(w, from, items, real)
  \/ \E b \in Books : Visit(w, b) \/ ReadFails(w, b)
  \/ Write(w) \/ WriteRefused(w) \/ ApplyDies(w) \/ StopApply(w)
  \/ ApplyEnd(w) \/ ApplyDiesReported(w)

RevertStep(v) ==
  \/ \E run \in RunId, force \in Forces : RevertBegin(v, run, force)
  \/ Inspect(v) \/ Restore(v) \/ RestoreRefused(v) \/ RevertDies(v)

PeopleStep ==
  \/ \E b \in Books : Delete(b) \/ \E p \in OneField \cup OneTag(b) : Edit(b, p)
  \/ FlipSwitch

Next ==
  \/ \E w \in Workers : ApplyStep(w)
  \/ \E v \in Reverters : RevertStep(v)
  \/ PeopleStep

Spec == Init /\ [][Next]_vars
--------------------------------------------------------------------------------
(***************************************************************************)
(* What holds whatever people and the network do.                          *)
(***************************************************************************)
Program == edits' = edits

\* Write-ahead undo (applyPatch): whenever the program changes a book, the
\* revisions table already holds that change, or the change is a revision
\* being put back.
WriteAhead ==
  [][\A b \in Books : Program /\ shelf'[b] # shelf[b] =>
       \E i \in DOMAIN revisions :
         /\ revisions[i].book = b
         /\ shelf'[b] \in {Patched(shelf[b], revisions[i].after),
                          Patched(shelf[b], revisions[i].before)}]_vars

Settling == {"written", "already-applied", "changed-since", "missing"}

\* A decision is offered until an apply has reported what became of it: a
\* stop, a failed request or a crash loses none (runApplyTask's `settled`).
NothingForgotten ==
  \A b \in Books :
    LET decided == {s \in Source : b \in DOMAIN Recorded[s]}
        offered == {rows[r][b].plan : r \in RunId}
        reports == {r \in RunId \ Source : rows[r][b].code \in Settling}
    IN Cardinality(decided \ offered) <= Cardinality(reports)

\* The report of a run and its undo records tell the same story: a book is
\* reported as written exactly when a write of that run to it landed.
ReportMatchesUndo ==
  \A r \in RunId, b \in Books : rows[r][b].code # "none" =>
    (rows[r][b].code = "written" <=>
       \E i \in DOMAIN revisions :
         revisions[i].run = r /\ revisions[i].book = b /\ revisions[i].landed)

(***************************************************************************)
(* What holds as long as people are careful.                               *)
(***************************************************************************)
Writing(w, b) ==
  apply[w].phase = "writing" /\ revisions[apply[w].revision].book = b

\* A value somebody gave a book is only ever replaced by an apply whose plan
\* was decided against that very value, and a tag only by a rating that
\* decided about that tag; a revert never replaces one.
HandEditsSurvive ==
  [][\A b \in Books : Program =>
       /\ \A f \in Fields :
            shelf'[b].text[f] # shelf[b].text[f] /\ shelf[b].text[f] = hand[b].text[f]
              => \E w \in Workers : /\ Writing(w, b)
                                    /\ PlanOf(w, b).change[f].from = shelf[b].text[f]
       /\ \A t \in Tags :
            (t \in shelf'[b].tags) # (t \in shelf[b].tags)
              => \/ \E w \in Workers : /\ Writing(w, b)
                                       /\ t \in PlanOf(w, b).added \cup PlanOf(w, b).removed
                 \/ ~ (\E w \in Workers : Busy(w)) /\ shelf[b].tags # hand[b].tags]_vars

\* With "Allow metadata rewrite" off when a run began, a normalize fills
\* blanks and adds to lists, and replaces nothing.
SwitchHonoured ==
  [][\A w \in Workers, b \in Books : Program /\ Writing(w, b) /\ ~apply[w].mayReplace =>
       \A f \in Fields : shelf'[b].text[f] # shelf[b].text[f] =>
         LET p == PlanOf(w, b) IN
         p.kind = "normalize" => shelf[b].text[f] = "" \/ p.change[f].additive]_vars

\* What of book b a revert could still put back: revisions that set field f,
\* and revisions that set the tags.
Pending(b) == {i \in DOMAIN revisions : revisions[i].book = b /\ ~revisions[i].reverted}

TextPending(b, f) ==
  {i \in Pending(b) : f \in DOMAIN revisions[i].after.text \cap DOMAIN revisions[i].before.text}

TagsPending(b) ==
  {i \in Pending(b) : revisions[i].after.tags # {} /\ revisions[i].before.tags # {}}

\* What each of them left there, and what it found.
TextAfter(b, f) == [i \in TextPending(b, f) |-> revisions[i].after.text[f]]
TextBefore(b, f) == [i \in TextPending(b, f) |-> revisions[i].before.text[f]]
TagsAfter(b) == [i \in TagsPending(b) |-> UNION revisions[i].after.tags]
TagsBefore(b) == [i \in TagsPending(b) |-> UNION revisions[i].before.tags]

\* Reverting the revisions S, newest first, brings value s back to value h:
\* each finds what it left there and puts back what it found.
Leads(S, after, before, s, h) ==
  /\ S = {} => s = h
  /\ \A k \in S : (\A j \in S : j <= k) => after[k] = s
  /\ \A k \in S : (\A j \in S : k <= j) => before[k] = h
  /\ \A j, k \in S : j < k /\ (\A i \in S : i <= j \/ k <= i) => before[k] = after[j]

Way(pending, after, before, s, h) ==
  \E S \in SUBSET pending : Leads(S, after, before, s, h)

\* "Every applied change records how to put it back": from what a book says
\* now, pending revisions lead back to what people last made it say.
WayBack ==
  \A b \in Books \ gone :
    /\ \A f \in Fields : Way(TextPending(b, f), TextAfter(b, f), TextBefore(b, f),
                           shelf[b].text[f], hand[b].text[f])
    /\ Way(TagsPending(b), TagsAfter(b), TagsBefore(b), shelf[b].tags, hand[b].tags)

\* No value comes back: no pending revision left what people last wrote, and
\* two that left the same value found the same value.  Where this fails, the
\* older of two runs that wrote one value can be reverted past what somebody
\* typed between them.
NoReturn(pending, after, before, h) ==
  /\ \A i \in pending : after[i] # h
  /\ \A i, j \in pending : after[i] = after[j] => before[i] = before[j]

NoValueReturns ==
  \A b \in Books :
    /\ \A f \in Fields :
         NoReturn(TextPending(b, f), TextAfter(b, f), TextBefore(b, f), hand[b].text[f])
    /\ NoReturn(TagsPending(b), TagsAfter(b), TagsBefore(b), hand[b].tags)

================================================================================

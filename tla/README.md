# TLA+ models of abs-butler

abs-butler curates an AudiobookShelf library: it rates, fills, normalizes,
moves and repairs books, from a CLI or from `abs-butler serve`, a web server with
a job queue and a scheduler. This directory models the parts of it whose
correctness depends on order, interleaving, failure or on evidence being combined.

`tlc -config JobRunner_runs.cfg JobRunner.tla` checks a run, `tlapm AccessProofs.tla`
checks a module of proofs. `PROJECT.json` lists the runs, the source lines behind each
definition, the mutants that show each property can fail, the hazards and the theorems.

Every run's cfg names the properties of behaviour; each module also defines a type
invariant (`TypeOK`, or `KeyTypeOK`, `RatingTypeOK`, `TailTypeOK`), which holds on the same instances when added as an
INVARIANT and is what the other properties presuppose.

## Inventory

Paths are relative to the repository's `src/`.

| Component | State | Operations | What makes it correct |
| --- | --- | --- | --- |
| Job runner (`core/jobs.ts`) | `queue`, `active`, `activeController`, `draining`, `stopped`, a poller | `recover`, `enqueue`, `cancel`, `drain`/`runQueue`, `execute`, `retain`, `tickSchedules`, `stop`, `drained` | one run at a time, in order, none lost while the process lives, every run's end visible in the table |
| Runs table (`db/runs.ts`) | status by id | create, mark running, complete, reconcile, prune | a status says what is going on |
| Schedules (`db/schedules.ts`) | enabled, next due time | create, update, delete, due, re-anchor | due work is queued once |
| CLI runs (`core/execute.ts`) | a row of the runs table | `withRun` | the same history and undo as the server's runs |
| Apply (`core/apply.ts`, `core/plans.ts`) | plans kept per book, a report, the settled books | replay all or some, as a preview or for real | nothing replaced that was not decided about, no decision lost |
| Undo records (`core/revisions.ts`, `db/revisions.ts`) | one revision per write | record, list, mark reverted, complete | recorded before written; leads back to what was there |
| Revert (`core/revert.ts`) | the revisions it chose | inspect all, restore newest first | an edited book is left alone |
| Run items (`db/runItems.ts`) | per-book rows with code and plan | replace, list plans, clear plans, prune to ten runs | the report is the truth about the run |
| Rate, metadata, normalize (`core/*.ts`) | the library as it was listed | list, expand, judge in parallel, write one by one, report | undo records and reports tell the truth; an edit made meanwhile is not lost silently |
| Rating rules (`content/ageRating.ts`, `providers/*`) | a book's tags | weigh labels, score bands and flags, infer from silence, render as tags | no source louder than what it says; no stale tag |
| Normalize rules (`core/normalize.ts`, `core/matching.ts`) | names of a whole library | consensus, series profile, votes of sources | nobody credited or dropped on one word; the nights come to rest |
| Repair (`core/repair.ts`) | dead records, an open revision, rescans and scans under way | assess, begin, rescan, finish, one library scan for many bare files | only dead records are dropped; partial work is owed, not forgotten |
| Organize (`core/organize.ts`, `core/template.ts`) | paths on disk | plan, check blocked, move, prune parents, rescan | nothing lost or overwritten; the server is told |
| Lookups (`core/lookup.ts`, `db/lookups.ts`, `providers/http.ts`) | cached answers with expiry, refusals per provider | look up, give up, retry, limited-concurrency map | an answer is used as long as it deserves, a refusal is not cached |
| Connection (`db/connection.ts`, `core/crypto.ts`) | sealed API key, key file | save, update, disconnect, rotate, upgrade | the key can always be unsealed |
| Sign-in (`web/auth.ts`, `web/throttle.ts`, `db/sessions.ts`) | claim and window, sessions, failures by address | claim, set up, sign in and out, change password | one claimant; guesses slow down, owners do not |
| The page of a run (`web/src/pages/RunDetail.tsx`, `lib.tsx`, `components/LogStream.tsx`) | a polled run, a report, picks, a log tail | follow, filter, pick, apply, stop, tail | what is applied was seen; report and log come to be shown |
| Server process, HTTP API, settings, logs table | process, switches, rows | start, stop, route, read and flip, append and list | modelled where the parts above use them |
| Everything else | - | audit, capability probes, install, update check, commands, the other pages | I/O, parsing and layout |

How they interact: the API and the scheduler call `enqueue`; the runner executes
`runTask` with an abort signal; tasks ask the providers through `lookupItem` and its
shared cache and write to AudiobookShelf only through `applyPatch`, which leaves a
revision first; a run's report and plans go to `run_items`; `apply` replays them as
another run; `revert` replays revisions, but inside its HTTP request rather than in the
queue. A CLI process does all of this too, against the same SQLite file and key file,
with no coordination except the file system's and the database's. AudiobookShelf itself
is edited by other people, and the library's folders by other programs, at any time. The
page polls all of it over HTTP.

What is hard: the promise chain of the queue; a restart between any two statements;
retention deleting rows that others still use; reads that are old when the write they
justify is made; requests whose answer is lost; work that is stopped half-way and picked
up again by another run; two files that only make sense together; evidence that is
summed over sources of unequal reliability; answers that overtake each other. The
hazards are listed one by one, with their lines and properties, in `PROJECT.json`.

## Modules

| Module | Models | Proofs |
| --- | --- | --- |
| `SerialRuns` | what a reader of the runs table is promised: a serial, first-come queue | |
| `JobRunner` | runner, runs table, schedules, server process, CLI processes | `JobRunnerProofs` |
| `PlanReplay` | apply, undo records, revert, against a shelf that people edit | `PlanReplayProofs` |
| `Repair` | the repair task and its replay, beside the server's rescans and scans | `SumProofs` |
| `Sweep` | rate, metadata and normalize over a library that was listed once | `SweepProofs` |
| `Lookups` | the provider cache, retries, giving up | `LookupsProofs` |
| `Organize` | moves on a tree of folders with two devices | `OrganizeProofs` |
| `Keys` | key file, sealed row, processes | `AccessProofs` |
| `SignIn` | setup, login, throttle, sessions | `AccessProofs` |
| `Normalize` | the evidence rules, night after night | `LookupsProofs` |
| `Ratings` | labels, bands, flags, tags of one book | `SumProofs` |
| `RunPage` | the page of a run: hook, report, picks, apply, stop | `RunViewProofs` |
| `LogTail` | the log of a run from the buffer to the page | `RunViewProofs` |
| `MC...` | instances for TLC; `MCRunView` composes `RunPage` and `LogTail` | |

### JobRunner and SerialRuns

`status`, `trigger`, `lastId`, `schedule` and `due` are durable. `queue`, `active`,
`aborted`, `draining` and `stopped` are the fields of a `JobRunner` object and
vanish when the process does. A JavaScript function runs to its next `await` without
interruption, so `enqueue` (row, push, `drain`, the loop's first `shift`, and
`execute` up to the task) is one action, and a `runQueue` turn is another. `execute` may end on
the spot when `openContext` throws. The scheduler's loop over due
schedules is one step per schedule with nothing else of the server in between,
while the CLI and the clock go on; it re-anchors the schedule and then makes the run, and
either write may fail (`TickFails`), which ends the tick. `upsets` counts such failures and the
deaths of the process. `retain` may do its pruning or fail silently.
`Abstract` says that all of this implements `SerialRuns`, seen through the table.

Abstractions: time is "due or not"; ids stand for `queued_at`, which they agree
with unless the clock is set back; `historyLimit` is constant; a task is a span
between two actions with three outcomes.

### PlanReplay

A book is a few text fields and a set of tags. A *source* is a dry run whose plans
are the constant `Recorded`; plans are copied between rows unaltered, so a row names
the source of its plan. `Visit` is one turn of `runApplyTask`'s loop: the answer of
`getItem`, the decision, and either a report row or the recording of a revision;
`Write` is the patch request that follows in a later step, and anything may happen in
between. `ApplyEnd` stores the report and clears the settled plans; `ApplyDiesReported`
is a crash between the two. `Inspect` and `Restore` are the two loops of `runRevertTask`. A failed
request or a crash drops the task's locals; a patch under way may have landed.

`WayBack` follows each field back by itself: the pending revisions that set it form a chain in
which each found what the one before it left (`Leads`); the last one left what the book says and
the first one found what people last wrote. Some may be left out (`Way`): those whose write never
landed.

History variables: `hand` (what people last gave each field) and `landed` in a
revision (whether its write reached the server). No action reads them.

`Careful = TRUE` restricts people, not the program: they do not edit a book the
program is between reading and writing, do not start an apply and a revert at once,
and do not type a value the program has just written. What holds without it is
checked without it (`PlanReplay_open`).

Abstractions: rows are visited in any order (the code has one order, by row id, that
nothing else determines); null, missing and empty text are one blank; the display
text of list fields stands for the list; `work` and `tag` proposals of a normalize are
left out, as is the pruning of run items. Repair and organize plans are in `Repair` and
`Organize`.

### Repair

A book is its files on disk, its records (inodes), which of them are excluded, its
length and its chapters; `changed` says that the server would notice a rescan. A task
goes through `repairItems`: `Begin` opens the undo record, `Drop` patches the tracks,
`Touch` or one more dropped live track makes the rescan count, `RescanItem`, `Finish`,
`Trim`, `Close` follow, each a request that may fail or land with its answer lost
(`StepFails`, a bare file's last steps after the shared scan included). Bare files share one library scan (`Settle`, `RequestScan`, `ScanDone`,
`ScanTooLong`). AudiobookShelf's scan visits books one at a time and may be started by
others (`OthersScan`); storage renumbers inodes and people delete records. `Revert` puts
a repair back in one step, between runs.

A dry run and `--apply` read the whole library, then count the listening positions saved against a
doubled length (`CountProgress`, which a stop ends, `ReadStopped`), and only then judge; what the
install may touch is looked up in between. An apply of a recorded run judges book by book (`Read`).

Abstractions: rebuilding of tracks is allowed throughout (the switch that turns the
method off is left out); one task at a time; the mount and the setting that allow
touching a file are one flag; a `clear` repair forgets which tracks were excluded, in the
code as in the model, and `RepairedIsWhole` exempts it. With more upsets than the instance has
(a file renumbered, its dead record removed, the file given its old number back) an excluded file
is back without its exclusion when the book is closed; `Undisturbed` says that nobody does such a
thing to a book under repair, and the proof presupposes it.

`Listed` says that to begin with the server has a record of every file a book has. Where it has none,
a rescan finds one more track than the repair kept, the length differs and the code
reports the repair failed, so `QuietRepairsTake` presupposes it.

### Sweep

One run of rate, metadata or normalize: `List` and `Expand` read the books (minified and
then in full, where a full read may fail), `Claim`, `Judge` and `JoinOr` are the workers
of `mapLimitPartial`, `Continue`/`Settle` the loop that writes, `Record` and `Land` the two halves of
`applyPatch`. What is judged is free within what the rules may say (`RateVerdicts`,
`MetadataVerdicts`, `NormalizeVerdicts`). People edit, requests fail, the run is
stopped, the process dies, the switch is flipped, at any step.

### Lookups

`look[w]` is a lookup in flight: which provider it is at, which request of its question,
which attempt. `Use` reads the cache and decides (fresh, given up, ask); `Answer`,
`Exhausted`, `Fails`, `Denied` and `Wake` are `getJson` with its one retry; `Returned` and
`Refused` are what the lookup does with it. `known` is the truth: since which day the
provider would have an answer. `Rejected` is a 4xx that is neither a refusal nor a 404, which
`getJson` reports as no answer. Time is in days, the expiry's unit; a lookup takes minutes, so that
days pass between lookups.

### Organize

The disk is a function from paths to folders or files. A run takes its plans in order:
`NextPlan` (the stop, the blocked check), `MakeFolders`, `Rename` or `Copy`/`CopyEnds`/`Delete` across
devices (a copy is whole or partial when it dies), `PruneOne` level by level, `Moved`,
`RequestScan`. Other programs put files where they like; any call may be refused; the
process may die at any point. `began` and `untold` are histories.

Folders may be nested: the instance has a book whose target lies inside the folder it is
in, where `rename` refuses and the run throws. What is left of a half-deleted book is a
matter of which files are still in its old folder.

In the instance no book's folder is inside another's. `DiskIsSound` and `ServerIsTold` are
proved without that; `ReportMatchesDisk` needs it (`Alone`), for moving the outer book takes the
inner one along unreported.

An apply's book that cannot be read is passed over as missing, which settles its plan.

Abstractions: a listing is one step; the files have the names the template would give them, so
that a loose file goes to its new folder under the name it has (`fileTarget` names it by its title).

### Keys

`file` is `secret.key`, `row` the connection row as the key its token is sealed under,
`cached[p]` the key a process remembers, `env` BUTLER_SECRET. An operation of a process
(read, create exclusively, fill, seal, open, upgrade, rotate, and the three steps that put the
old key back when the row could not be written) goes file access by file access. `loss` records
what can part the row from the key in force: a process that died in a rotation between the
emptying of the file and the row, with a token to re-encrypt; a write of the key file that failed
once it was empty or while the old key was put back; a changed BUTLER_SECRET; two commands that
crossed. `filed` records every key the file has held: what a backup of it can be.

### SignIn

One action per handler. The throttle's entries, claims and sessions carry their times;
`Restart` forgets the throttle and the claims and opens a new setup window. `failed` and
`proven` are histories. Hashes are equality, tokens are numbers. The doubling delay is a
recursive function of the failures (`Delays`), as is the sum of the delays so far (`Waited`).

### Normalize

A night is a run over the library with the rewrite switch on: consensus spellings,
profiles of series, voters, who may be added, outvoted, withdrawn, and the one proposal
for each of authors, narrators, series and genres. Names are spellings; what `util/text.ts`
makes of them is given by constant functions. AudiobookShelf resolves names to records
(`Resolved`). A filtered or sorted list is given by the places it keeps and their order
(`Picked`, `Kept`), a library's mentions of names by book and place.

Abstractions: an author agrees or not (no agreement by surname alone, worth 0.8); tags,
titles, subtitles and the work identity go through the same `propose` and are left out;
the instance lets two narrations at a ratio of one make a narrator by trade, where the
code wants five and four.

### Ratings

What the catalogues say becomes signals with a weight; rules score them into bands and
flags (`Summed` over the providers, of the `Weight` of what each says); `Rate` writes the tags. A label stands for all the texts one pattern matches.
Arithmetic is exact where the code's is floating point; ties that floating point would
break otherwise are not distinguished. Averages and evidence lines are left out. A catalogue
may answer with several editions, as `assessContent` allows; the rating task passes it the
best of each (`lookup.ts:178-186`), so the model has more behaviours than that task.

### RunPage, LogTail and MCRunView

`hook` is `useAsync` of the run, `panel` the report with filter, picks and the apply in
progress, `net` the requests on their way. The server reads or acts when a request is
sent; answers come in any order. An effect's clean-up disowns its answers, so they are
dropped from `net` at once, except an apply's. `LogTail` follows the lines from `execute`'s
buffer through `flush`, the table and `listLogs` to the page; polls overlap.
`MCRunView` is the page with both. They share no variable, so each behaviour of the pair
is a behaviour of each; following one while the other stands still loses nothing and
keeps the instance finite and small.

Abstractions: paging and search are other filters; labels and wording are left out. Lines that a
task's leftover workers say after one of them threw (`http.ts:140`) come after the final flush,
reach neither table nor page, and are left out of `LogTail`: `LogIsRead` is about the lines the
run said before it was over.

## Runs

| Run (config) | Bounds | Shows |
| --- | --- | --- |
| `runner` (`JobRunner_runs`) | 3 runs, limit 1, 1 schedule, 1 upset | queue and table agree, a stop is honoured, `SerialRuns` is implemented, accepted runs end, due schedules get runs |
| `replay_open` | 2 applies at once, 1 revert, forced or not, 1 edit, 1 fault, 4 runs | writes are recorded first, nothing is forgotten, report and undo records agree |
| `replay_careful` | 1 apply, reverts, 2 edits, 1 fault, 4 runs | undo leads back, hand edits survive, the switch holds |
| `repair_mend` | a folder book and a bare file, 2 runs, 1 upset | undisturbed repairs take, a success left the book whole, drops are on record, runs end |
| `sweep_write` | 3 books, 2 workers, 1 upset | undo and report tell the truth, only later edits are overwritten |
| `lookups_cache` | 2 lookups at once of 4, 1 provider, 4 days, 2 runs | answers are timely, refusals bounded, rows true |
| `organize_move` | 3 books, 2 devices, 2 roots, 2 runs, 2 upsets | the disk is sound, the report matches it, the server is told |
| `keys_rotate` | server and command, 4 keys, 2 upsets | the token opens or a backup opens it, the server's key is the one in force |
| `signin_doors` | 2 browsers, 2 passwords, 6 ticks, 3 tokens | the throttle is fair, sessions are of this password, the claim is exclusive |
| `normalize_nights` | 10,512 libraries and answers of 4 books | nobody leaves unopposed or joins on one word, guesses do not rename, nights come to rest |
| `ratings_bands` | 5 catalogues, 2 editions each, 2 thresholds | loudness is earned, adult has a reason, no tag outlives its evidence |
| `run_view` (`RunView_follow`) | 2 runs, 2 books, 2 requests at once, 4 clicks, 1 lost answer; 4 lines, 2 to an answer, 2 upsets | only what was seen is applied, no hole, report and log come to be shown |

Deadlock is checked where the system cannot stop (`runner`, `repair_mend`,
`normalize_nights`, `ratings_bands`); in the others the bounds on runs, days or clicks, or a
dead process, let a behaviour end.

Why the bounds are enough. Three runs give one executing, one waiting and one ended or
cancelled; a retention limit of one makes pruning reach waiting and executing rows, as a
limit of ten does with more runs. `JobRunner_tick` checks the schedules again with two of them, two
upsets and two runs, so that a failure ends a tick with another schedule still due. Two sources on one book, with two more runs, allow
apply, failed apply and retry, or preview and apply, with reverts of each. The repair
library has every method: touch, drop a live track, clear, and the shared scan; a second
run repairs what the first left over. Two workers over three books make one worker take
two books while the other is at the end of the list. Four days around a retention of
three cross every expiry, that of a miss (a day) and that of a hit. Two editions with
the same target make a collision, the loose file in an emptied root makes the pruning
reach the root. Four keys are one per process, a rotation, and one more. The throttle's
durations are scaled down so that a wait, the cap and forgetting all fit into six ticks.
The libraries of a series of four books contain a minority, a majority and a tie for each
field, and second spellings of both a person and a series. Two editions tell a sum from a
maximum; five catalogues give every band a supporter. Two requests at once and two polls
are the smallest number that can overtake each other; an answer of two lines is shorter
than what a run of four says.

State counts: `runner` 271,114, `replay_open` 1,770,112, `replay_careful` 229,918,
`repair_mend` 904,321, `sweep_write` 558,048, `lookups_cache` 616,905, `organize_move`
361,937, `keys_rotate` 5,059,635, `signin_doors` 1,391,608, `normalize_nights` 23,410,
`ratings_bands` 164,112, `run_view` 469,592; each takes between seconds and a minute or two.

### What the properties say

- `QueueMatchesTable`, `StopIsHonoured`, `Abstract`: the volatile queue and the table never
  disagree about who waits; a run somebody stopped is not recorded as a success.
- `DueSchedulesAreServed`: a schedule has a run for every interval that is over, unless a write
  failed between re-anchoring it (`jobs.ts:263`) and the row (`:265`) or somebody edited it, and
  a due schedule gets a run, of this interval or a later one, whatever fails in between. The code
  does not make up for an interval lost to a failed write; the next one follows.
- `NothingForgotten`, `ReportMatchesUndo`, `WriteAhead`: a decision is carried out, on offer, or
  given up for a reason the report states; a report of a write has its undo record.
- `WayBack`, `HandEditsSurvive`, `SwitchHonoured`: from any moment, reverting what is pending
  leads to what people last wrote, and nothing else of what they wrote is replaced.
- `QuietRepairsTake`, `RepairedIsWhole`, `DropsAreOnRecord`: a repair that nothing disturbs does
  not fail, one that reports success left no dead record and no file without one.
- `UndoTellsTheTruth`, `ReportIsWhatHappened`, `TakesOnlyWhatCameLater`: a book's undo record
  holds what it held when listed; a write can only lose an edit made after the listing.
- `AnswersAreTimely`, `RefusalsAreBounded`, `RowsAreAnswers`: by age and by kind, an answer is
  used as long as `ttlFor` means it to be; in flight lookups cannot pile up refusals.
- `DiskIsSound`, `ReportMatchesDisk`, `ServerIsTold`; `ServerKnowsItsKey`;
  `ThrottleIsFair`, `SessionsAreOfThisPassword`, `ClaimIsExclusive`: see the comments above each.
- `RowOpens`: the token opens for a process that starts now unless `loss` names a reason; and
  whatever happens it is sealed under a key the file has held, unless two commands crossed, so
  that a backup of the file opens it, as the error of `decryptSecret` says.
- `NobodyLeavesUnopposed`, `NobodyJoinsOnOneWord`, `GuessesDoNotRename`, `Settles`: the rules
  for a single field do not combine into what none of them allows.
- `LoudnessIsEarned`, `AdultHasAReason`, `NoTagOutlivesItsEvidence`: a rating depends on what
  is said, not on how often, and a second rating leaves nothing of the first behind.
- `OnlyWhatWasSeen`, `NoHole`, `ReportIsShown`, `LogIsRead`: the page against overtaking.

## Where the code and its documentation disagree

Met while modelling; the properties above are stated so that they hold of the code as it
is, and the exceptions they make are these. Seven have a config that ends in a
counterexample: `Ratings_shelf`, `LogTail_twice`, `RunPage_stopping`, `Normalize_converge`,
`Normalize_doubled`, `PlanReplay_returns`, `Keys_midway`.

*Runner.* `docs/web-ui.md` says a restart does not lose the queue; `recover` fails the
waiting runs (`db/runs.ts:143`). Retention deletes waiting rows by age. A CLI run that is
alive is failed by a server that starts, then succeeds.

*Apply and revert.* `docs/runs.md:74` says held changes stay waiting; a partly written book is
settled whole. `apply.ts:217` takes any failed read for a deletion and drops the plan.
`revisions.ts:64` calls replaying a redundant record harmless; it undoes the retry's write.
A book edited after the revert's check is overwritten (`docs/runs.md:102`). A revert beside an
apply uses up the record (`web/api.ts:425`).
`docs/runs.md:102` says an item edited since the run is skipped by its revert; `changedSince`
compares values, so that an edit is not noticed when a later run has written the same value again.
Reverting the older of two such runs then takes the book past what somebody typed in
between, which no pending record leads back to (`PlanReplay_returns`; `NoValueReturns` rules it out).

*Repair.* A repair that failed part-way has an undo record whose revert refuses until the
book looks as the record expects (`repair.ts:539`).

*Lookups.* `lookup.ts:155` says an outage is not stored; a provider that answers an outage
with an empty list is stored as a miss (`providers/audible.ts:160`). So is one that answers the
retry of a refused request with a 4xx other than 404 (`http.ts:72`). The comment on
`queryKey` (`lookup.ts:91`) says an identifier decides the answer; providers that ask by title
are keyed by it too. "Skipping a provider for the rest of this run" is undone by a success
that was already in flight.

*Normalize.* `normalize.ts:586` calls a change reported every night the one failure a
set-and-forget tool cannot have; `propose` returns before it weighs the evidence when a source agrees
with the book as it stands (`:791`), so the library's majority spelling and a provider's
replace each other on alternate nights (`Converges`; `Settles` exempts books on which they
contradict each other). A minified copy with a name containing `&` is split (`:548`). A book
that was written loses the proposals that were held back (`:1452`). A vote on a series renames the first
entry even when it names the second. A list of authors is kept from "a provider that lists fewer
authors than the library" (`:931`) by comparing lengths; a source that credits one author in two
spellings passes, and the co-author is lost on its word alone (`Normalize_doubled`; `CreditedOnce`
rules it out). `normalizePersonName` drops the role of a name such as "Ann - foreword" and
`normalizeAuthor` does not, so that the tidied name is another person's to the rules
(`TidyKeepsPerson` rules it out).

*Organize.* A minified copy lifts a filed book out of its series folder, against
`organize.ts:482`. A book whose folder holds its own target cannot be renamed into it, so
that every run throws until somebody moves it by hand. A throw in the middle of a plan loses the report and the rescan, against
`:589`.

*Keys.* `crypto.ts:168-171` says that nothing of a rotation is durable before its commit, so that one
failing midway leaves the old key file, and everything under it, intact. The code installs the
new key first (`connection.ts:210`), emptying the file before it fills it (`crypto.ts:184`), and
writes the row after (`:212`). A death in between, or a failed write of the emptied file, leaves a
token the key in force does not open, until the old file is restored or the token is entered
again (`Keys_midway` finds it; `RotationIsSafe` is the comment's claim). `RowOpens` exempts it by `loss`.
A process that dies while writing the key file leaves it empty, and one that loses the race to
create it may read it empty (`crypto.ts:58`).

*Ratings.* `ageRating.ts:70` wants the kids' shelf quieter than a precise label "however many
sources repeat it"; three of them outvote a picture book (0.27 + 0.27 + 0.24 > 0.70). The
confidence of an inference from silence may exceed that of a weak stated label (`:150`).

*The page.* Log lines can be shown twice by overlapping polls, against `LogStream.tsx:8`.
"Stopping" is carried over to the page of another run. A failed log poll hides the log until
a later one brings lines; after the last poll there is none. `listLogs` keeps the newest
lines, so more than 1000 new ones at once leave a gap (`NoHole` exempts these). A poll that
fails takes the panels, the picks and "applying" with them. An apply's late answer
navigates people away from where they have gone.

## Fairness

`JobRunner!Fairness` gives strong fairness to `Drain` and `Finish`: other callbacks
may come first but a resolved promise is run, and a task ends because its loops are
finite and its requests are retried a bounded number of times. A service manager
restarts the process (weak fairness of `Start`), shutdown's bounded wait ends (of the
exits), the poller fires every thirty seconds (of `Tick`), a round of it is carried out or fails
(of `TickSchedule \/ TickFails`), and an interval that nobody edits passes (of `Elapse`).
Failures of a tick's writes are bounded by `MaxUpsets`: the database is not broken for good.
Users and the CLI owe nothing.

`Repair!Fairness`: the task's own steps are weakly fair (a promise is run, a request is
answered or times out), and so are the server's visits of a scan and its end.
`RunPage!Fairness`: queued runs start and tasks end, the poller's interval fires, and an answer
that is not lost arrives. `LogTail!TailFairness`: the same for the log, with arrivals in order
of sending as the only ones that are owed. Nothing is owed by people, faults or clicks.
`Normalize!Nights`: the nights keep coming (`Nightfall`), as cron keeps its schedule; nothing more is
owed for `Settles`. The other modules state safety only and assume no fairness.

## Proofs

Every theorem holds for all values of the constants that satisfy the module's named
assumption. Nine state more, and say nothing where it fails: `SwitchHonouredHolds`,
`WayBackHolds` and `HandEditsSurviveHolds` that people keep out of the program's way (`Careful`), the
last two also that nobody forces a revert and no value comes back (`NoValueReturns`);
`QuietRepairsTakeHolds` that the server has a record of every file to begin with (`Listed`);
`RepairedIsWholeHolds` that every file plays and a bare book is one file (`Audible`, `OneFile`) and
that nobody edits a book under repair (`Undisturbed`); `ReportMatches` that no folder is moved with
another book's files in it (`Alone`); `NobodyLeavesHolds`, `NobodyJoinsHolds` and `GuessesDoNotRenameHolds`
that a tidied name is the same person's (`TidyKeepsPerson`), the first also that no source credits
anybody twice (`CreditedOnce`). The runs that check the properties satisfy all of it but
`Undisturbed`, of which they break no more than one upset can.
Each theorem `XHolds` states the property `X` of a run. The properties are seldom
inductive; what follows is what had to be added to them, and why.

`JobRunnerProofs`. `Inv` joins the type invariant with what the safety properties need:
ids beyond `lastId` are absent and untriggered, a queue holds no id twice and
only server ids, an active run implies `draining`, an abort belongs to an active run, and nothing
volatile outlives the process. `TypeCorrect`, `QueueMatchesTableHolds`, `SerialExecutionHolds`,
`QueueInOrderHolds` and `NeverAsleepHolds` follow; `Refinement` uses the invariant to
map every step to a step or a stutter of `SerialRuns`; `StopIsHonouredHolds` follows from the
invariant step by step, and so does `IntervalsHaveRunsHolds`, the safety half of
`DueSchedulesAreServed`, for any number of schedules.

`PlanReplayProofs`. Types alone are not inductive: a write uses `revision`, a revert uses
`chosen`, a decision uses the plan a row names, all remembered across awaits. `RowsInv`,
`WorkersInv` and `RevertersInv` say that these pointers still lead to a revision of the table and
to a decision about that very book (`PointersHold`), and `WriteAheadHolds` follows.
`ReportMatchesUndoHolds` and `NothingForgottenHolds` need a story of every apply
(`StoryInv`): a run under way has an id of its own and no report yet, no two of them have
the same, and what its report says so far is what landed. `SwitchHonouredHolds` needs `CareInv`: a
write about to be sent is still the patch that the book, unedited since, calls for.

`WayBackHolds` keeps a chain for every field (`WayInv`) through each of the four things that can
happen to it: a revision is recorded (the chain does not use it yet), its write lands (it goes
on top: it found what the chain led from), a revert lands and its record is spent (the chain is cut
below it, `CutAt`), somebody types (the empty chain). That a restored revision is in the chain,
or restores nothing that is there, is `HeldInv`: what a revert has chosen to restore the book still says, for nobody else
writes meanwhile; and `NoValueReturns` says which of the records the value can be from.
`HandEditsSurviveHolds` follows: a book that says what somebody typed has the empty chain, so that
no pending revision left that value and a revert replaces nothing.

`LookupsProofs`. `RefusalsBounded` counts: refusals so far plus the lookups that may still be
refused never exceed the bound (`RefusalInv`), because a lookup that starts asking checks the
count first. `RowsTold` needs that what a lookup remembers of its earlier requests of the same
question was said in vain (`AskedInVain` in `ShapeInv`), since a miss speaks for all of them.
`AnswersTimely` looks at every use of a row (`Timely`): it is fresh, and then `RowsInv` dates what it
says, or the provider has refused; that a miss's term never exceeds a hit's is arithmetic (`TtlBounds`).

`LookupsProofs`, Normalize. The invariant (`NightInv`) is only that lists are lists of known names; the
work is in one night. Winners and k-th places are CHOSEN, and `Ranks` (a finite set under a strict
total order has one element for every rank) says that they exist, so that a filtered list keeps
exactly what passed (`KeptIs`) and the library's spelling of a name is of the same person
(`SpellingIs`). Then what is written to a field is one of the list as it was, its tidying, its
spelling in the library or the vote (`SettledIs`), less whom the rules withdraw (`AuthorsAre`), and each of them
is asked what the property asks. That a vote no shorter than the list takes nobody out unless it
brings somebody in is a pigeonhole (`NobodyLeftOut`), and it is there that `CreditedOnce` is needed: TLC
found the counterexample when the proof asked for it.

`SweepProofs`. A run goes through a listing with the positions of its workers: `EarlyInv` says that
nothing is judged or written before its phase, `WorkInv` that the listing has each book
once and that what is remembered of it is what was read, or was changed since, `JudgeInv` that
without a stop every place was passed over, is judged or is still some worker's, `WriteInv` that the list
of written books is right but for the answer under way, `RecordInv` that the last undo record is that of the
write under way. `TypeCorrect`, `UndoTellsTheTruthHolds`,
`ReportIsWhatHappenedHolds` and `TakesOnlyWhatCameLaterHolds` follow.

`OrganizeProofs`. `ServerTold` by `RunInv`: while a run works, every book it has marked moved and
not yet told of has its library among those to be scanned; the loop at the end empties
that set. `DiskSound` by `SoundInv`: what AudiobookShelf and the plans name are places
under a root (`ServerInv`, `PlansInv`), every book is somewhere in a tree (`DiskInv`), and what the
call about to be made relies on still holds when it is made (`StepInv`: the source is what
the plan says, the target holds nothing that counts, its parents are there; a copy has so far
the same at both ends; while the source is removed every book is at home elsewhere; what is
pruned is a folder). TLC confirmed `SoundInv` on the run's instance before it was proved.
`ReportMatches` by `ReportInv`: the books whose rows say moved have been moved, every other one but the
book at hand is where it was (`NamesInv`, `TodoInv`, `BooksInv`), and the book at hand is whole at
its target before anything of its source goes (`HeadInv`), so that a failure leaves either end whole.

`AccessProofs`, Keys: `KeyTypeCorrect`, `TokenOpens` (`RowOpens`), `ServerInStep`
(`ServerKnowsItsKey`). `FitInv` says what a half-done operation owes: when nothing is lost, a
process that fills the file is alone and nothing is sealed yet, and a rotation that has
the file but not the row is the server's own. `MadeInv` keeps keys fresh, `StepsInv` says what each
step has already read. The second half of `RowOpens` is in `FiledInv`, with what
it takes: a rotation about to write the row has its key in the file already.

`AccessProofs`, SignIn: `SessionsAreProven` and `OneClaimant` (`ClaimIsExclusive`) from `PasswordInv`: there is never both a
password and a claim, and without a password nobody is signed in. `ThrottleFair` from
`ThrottleInv`, which ties an entry to the history of failures: it counts those since
the last gap long enough to forget, and each of them came when the wait after the one before was over.
So failures without such a gap are at least `Waited` apart, and the delays, which double up to a
cap, fit only so often into the time remembered. Delays and their sums are recursive
functions; induction over them is stated for sets of numbers (`SetInduction`), for which
the library's well-foundedness of the naturals suffices, and `Recursion` shows that such functions exist.

`SumProofs`. That a sum over a finite set may be taken in any order, grows with its terms and is
zero only if they are, is shown for the smallest set for which it could fail. For Ratings,
`HeardInv` says that answers are lists of known signals and `SettledInv` that the tags after a
rating are those of the assessment; `AdultHasAReasonHolds`, `TagsHaveEvidence`
(`NoTagOutlivesItsEvidence`) and `LoudnessIsEarnedHolds` are then facts about `Assess`. For Repair, `MendInv`
gives `RepairTypeCorrect`, and with the dropping step's own record pending (`DropInv`)
`DropsOnRecord`. `QuietRepairsTakeHolds` goes by stages (`QuietInv`, confirmed by TLC first, on 408,749 states of an
instance with three runs): the server knows every file and no undo record would make it
forget one (`ShelfInv`), no book is in two stages (`StageInv`), a book is as it was read until
its drop and then right or due for a scan (`BegunInv`), and one that waits for the
library's scan is right once a scan that began after its touch has visited it (`ScanInv`).
`RepairedIsWholeHolds` has to hold through failures and stops, where none of this is so. The check
before a success looks at records and length; `WholeInv` (confirmed by TLC on 6,980,835 states with
two upsets) adds what it does not look at: a book waiting for its drop still has the
tracks that were read, one that has had it keeps their exclusions, and one about to be closed
has been scanned since its touch, so that no scan of others changes the book between the
cut of its chapters and the check (`PlacesInv`, `VisitInv`).

`RunViewProofs`. `PageTypeCorrect`; `SeenBeforeApplied` (`OnlyWhatWasSeen`): the answer on its way is
about the run the page is of (`ReplyInv`), and report, picks and the open dialog hold only books that were on
the screen in that run's report (`SeenInv`). `TailHasNoHole` (`NoHole`): lines up to the page's place are
covered, and so are those up to the place every poll on its way started from (`NetInv`):
an answer out of order can only start where the page had already been.

Only model-checked:
- all liveness (`AcceptedRunsEnd`, the second half of `DueSchedulesAreServed`, `RunsEnd`, `Settles`, `ReportIsShown`,
  `LogIsRead`), which is out of this prover's reach under fairness;
- that normalize leaves no genre or author twice (`NightTypeOK`): `Once` is a fold, and what it
  computes for every input is induction over data.

## Not modelled

- Audit, discovery: read-only reports. Capability, mounts, deployment, install, update check:
  inspection of the machine and the network, which keep no state the rest depends on.
- Text helpers, templates, and the parsing of provider answers: given by constants where a
  model needs their result. Titles, subtitles, tags and work identity of normalize.
- The HTTP client's own retry loop, routing and static files; migrations; retention of logs,
  lookups, run items and sessions by age.
- The list of runs, schedules, settings and connection pages, which render what the API
  answers and post forms; paging and search of a report.
- Commands: argument parsing around the modelled tasks.

## What could come next

A composition of `Sweep` with
`PlanReplay` in which a revert crosses a sweep; title and work identity in `Normalize`; the
client's retry loop under `Lookups`' fault model.

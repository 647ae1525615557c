------------------------------- MODULE JobRunner -------------------------------
(***************************************************************************)
(* The serial job runner of `abs-butler serve` (src/core/jobs.ts), the     *)
(* runs table it keeps its history in (src/db/runs.ts), the schedules it   *)
(* polls (src/db/schedules.ts), and the CLI, which executes runs of its    *)
(* own in another process against the same database (src/core/execute.ts). *)
(*                                                                         *)
(* Durable state (SQLite) survives a crash; the queue, the active run and  *)
(* the flags are fields of a JobRunner object and do not.  A handler that  *)
(* runs without an await is one action: the event loop lets nothing else   *)
(* in.  CLI steps interleave with everything, as another process does.     *)
(***************************************************************************)
EXTENDS Naturals, Sequences, FiniteSets

CONSTANTS
  MaxRuns,       \* bound: ids the runs table hands out (AUTOINCREMENT)
  HistoryLimit,  \* settings.historyLimit: rows a retention pass keeps
  Schedules,     \* rows of the schedules table that may exist
  MaxUpsets      \* bound: deaths of the server process, writes refused to a tick

ASSUME JobRunnerAssumption ==
  /\ MaxRuns \in Nat
  /\ HistoryLimit \in Nat \ {0}
  /\ MaxUpsets \in Nat
  /\ Schedules \cap {"none", "manual", "cli"} = {}

VARIABLES
  status,    \* runs.status by id; "absent" before, "pruned" after its row
  trigger,   \* who asked for it: a schedule, "manual" (web) or "cli"
  lastId,    \* the highest id handed out
  schedule,  \* schedules.enabled, or "none" when there is no such row
  due,       \* next_run_at <= now
  up,        \* the serve process is alive
  queue,     \* JobRunner.queue
  active,    \* JobRunner.active, NoRun for null
  aborted,   \* activeController.signal.aborted
  draining,  \* JobRunner.draining
  stopped,   \* JobRunner.stopped
  ticking,   \* due schedules the tickSchedules loop has not reached yet
  cli,       \* CLI processes: how far withRun has come, by run id
  upsets     \* how often the server died or a tick failed (bounded)

durable == <<status, trigger, lastId, schedule, due>>
runner == <<queue, active, aborted, draining>>
vars == <<status, trigger, lastId, schedule, due, up, queue, active, aborted,
          draining, stopped, ticking, cli, upsets>>

RunId == 1 .. MaxRuns
NoRun == 0
Ended == {"success", "failed", "cancelled"}
Status == {"absent", "queued", "running", "pruned"} \cup Ended
Trigger == {"none", "manual", "cli"} \cup Schedules

\* A run the server executes, as opposed to one a CLI process executes.
ServerRun(r) == trigger[r] \notin {"none", "cli"}

Queued == {queue[i] : i \in DOMAIN queue}

TypeOK ==
  /\ status \in [RunId -> Status]
  /\ trigger \in [RunId -> Trigger]
  /\ lastId \in 0 .. MaxRuns
  /\ schedule \in [Schedules -> {"none", "off", "on"}]
  /\ due \in [Schedules -> BOOLEAN]
  /\ up \in BOOLEAN
  /\ queue \in Seq(RunId)
  /\ active \in {NoRun} \cup RunId
  /\ aborted \in BOOLEAN
  /\ draining \in BOOLEAN
  /\ stopped \in BOOLEAN
  /\ ticking \in SUBSET Schedules
  /\ cli \in [RunId -> {"none", "created", "running"}]
  /\ upsets \in 0 .. MaxUpsets

(***************************************************************************)
(* The runs table.                                                         *)
(***************************************************************************)
\* createRun: a row in 'queued', under the next id.
Created(id) == [status EXCEPT ![id] = "queued"]

\* markRunning, completeRun: an UPDATE of a row that is gone changes nothing.
Update(st, r, to) ==
  IF st[r] = "pruned" THEN st ELSE [st EXCEPT ![r] = to]

Rows(st) == {r \in RunId : st[r] \notin {"absent", "pruned"}}
Newer(st, r) == {q \in Rows(st) : q > r}

\* pruneRuns: ids stand for (queued_at, id), which agree on a clock that is
\* not set back.  Whatever state a row is in, it goes by its age alone.
Prune(st) ==
  [r \in RunId |->
     IF r \in Rows(st) /\ Cardinality(Newer(st, r)) >= HistoryLimit
       THEN "pruned" ELSE st[r]]

\* retain: the pass sits in a try block that swallows whatever it throws.
Retained(st) == {Prune(st), st}

\* A faulty variant for mutation: recovery that forgets the queued rows.
ReconciledRunningOnly(st) ==
  [r \in RunId |-> IF st[r] = "running" THEN "failed" ELSE st[r]]

\* reconcileOrphanedRuns.
Reconciled(st) ==
  [r \in RunId |-> IF st[r] \in {"running", "queued"} THEN "failed" ELSE st[r]]

--------------------------------------------------------------------------------
Init ==
  /\ status = [r \in RunId |-> "absent"]
  /\ trigger = [r \in RunId |-> "none"]
  /\ lastId = 0
  /\ schedule = [s \in Schedules |-> "none"]
  /\ due = [s \in Schedules |-> FALSE]
  /\ up = FALSE
  /\ queue = <<>>
  /\ active = NoRun
  /\ aborted = FALSE
  /\ draining = FALSE
  /\ stopped = FALSE
  /\ ticking = {}
  /\ cli = [r \in RunId |-> "none"]
  /\ upsets = 0

\* The event loop is free to take the next callback.
Idle == up /\ ticking = {}

(***************************************************************************)
(* One turn of the runQueue loop up to its first real await: shift, then   *)
(* the part of `execute` that is synchronous.  The row may be gone, or     *)
(* cancelled; openContext or checkLocalRoot may throw, which ends the run  *)
(* as failed on the spot; or the task is under way.  `draining` stays set  *)
(* in all three cases, because `await this.execute()` yields.              *)
(***************************************************************************)
Launch(q, st) ==
  LET r == Head(q)
      gone == st[r] \in {"cancelled", "pruned"}
  IN
  /\ queue' = Tail(q)
  /\ draining' = TRUE
  /\ aborted' = FALSE
  /\ \/ /\ gone
        /\ active' = NoRun
        /\ status' = st
     \/ /\ ~gone
        /\ active' = r
        /\ status' = Update(st, r, "running")
     \/ /\ ~gone
        /\ active' = NoRun
        /\ status' \in Retained(Update(Update(st, r, "running"), r, "failed"))

(***************************************************************************)
(* enqueue: createRun, push, drain.  `idle` is drain's own condition; when *)
(* it holds the call runs straight into runQueue.                          *)
(***************************************************************************)
AdmitIf(t, q, idle) ==
  /\ lastId < MaxRuns
  /\ lastId' = lastId + 1
  /\ trigger' = [trigger EXCEPT ![lastId + 1] = t]
  /\ IF idle
       THEN Launch(q, Created(lastId + 1))
       ELSE /\ queue' = q
            /\ status' = Created(lastId + 1)
            /\ UNCHANGED <<active, aborted, draining>>

\* Faulty variants for mutation: drain without one of its two conditions,
\* and a queue that is a stack.
AdmitAlways(t) == AdmitIf(t, Append(queue, lastId + 1), ~stopped)
Admit(t) ==
  AdmitIf(t, Append(queue, lastId + 1), ~draining /\ ~stopped)

\* POST /api/runs and /api/runs/:id/apply.
Enqueue ==
  /\ Idle
  /\ Admit("manual")
  /\ UNCHANGED <<schedule, due, up, stopped, ticking, cli, upsets>>

\* Faulty variant for mutation: the loop gives up before the queue is empty.
DrainOnce ==
  /\ Idle /\ draining /\ active = NoRun
  /\ draining' = FALSE
  /\ UNCHANGED <<durable, up, queue, active, aborted, stopped, ticking, cli, upsets>>

\* The runQueue loop, resumed after `await this.execute(runId)`.
Drain ==
  /\ Idle /\ draining /\ active = NoRun
  /\ \/ /\ queue # <<>> /\ ~stopped
        /\ Launch(queue, status)
     \/ /\ queue = <<>> \/ stopped
        /\ draining' = FALSE
        /\ UNCHANGED <<status, queue, active, aborted>>
  /\ UNCHANGED <<trigger, lastId, schedule, due, up, stopped, ticking, cli, upsets>>

(***************************************************************************)
(* The task has returned or thrown: the rest of `execute`.  A run that was *)
(* asked to stop is recorded as cancelled either way.                      *)
(***************************************************************************)
FinishAs(outcomes) ==
  /\ Idle /\ active # NoRun
  /\ \E s \in outcomes : status' \in Retained(Update(status, active, s))
  /\ active' = NoRun
  /\ aborted' = FALSE
  /\ UNCHANGED <<trigger, lastId, schedule, due, up, queue, draining, stopped,
                 ticking, cli, upsets>>

\* Faulty variant for mutation: a stopped task that threw counts as failed.
FinishUnaware ==
  FinishAs(IF aborted THEN {"cancelled", "failed"} ELSE {"success", "failed"})

Finish ==
  FinishAs(IF aborted THEN {"cancelled"} ELSE {"success", "failed"})

(***************************************************************************)
(* cancel(runId): a queued run is dropped from the queue and closed, the   *)
(* active one is asked to stop; any other answer is "already finished".    *)
(***************************************************************************)
\* queue.splice(index, 1).
Without(q, i) == [j \in 1 .. Len(q) - 1 |-> IF j < i THEN q[j] ELSE q[j + 1]]

CancelQueued(r) ==
  /\ Idle
  /\ \E i \in DOMAIN queue :
       /\ queue[i] = r
       /\ queue' = Without(queue, i)
  /\ status' = Update(status, r, "cancelled")
  /\ UNCHANGED <<trigger, lastId, schedule, due, up, active, aborted, draining,
                 stopped, ticking, cli, upsets>>

CancelActive(r) ==
  /\ Idle /\ r \notin Queued /\ r = active /\ ~aborted
  /\ aborted' = TRUE
  /\ UNCHANGED <<durable, up, queue, active, draining, stopped, ticking, cli, upsets>>

(***************************************************************************)
(* Schedules.  Time is abstract: an interval elapses whenever it likes.    *)
(***************************************************************************)
\* createSchedule; updateSchedule with `enabled`, with `intervalMinutes`
\* (which re-anchors) or with both; deleteSchedule.
EditSchedule(s) ==
  /\ Idle
  /\ \/ /\ schedule[s] = "none"
        /\ \E e \in {"off", "on"} : schedule' = [schedule EXCEPT ![s] = e]
        /\ due' = [due EXCEPT ![s] = FALSE]
     \/ /\ schedule[s] # "none"
        /\ \E e \in {"off", "on"}, d \in {due[s], FALSE} :
             /\ schedule' = [schedule EXCEPT ![s] = e]
             /\ due' = [due EXCEPT ![s] = d]
     \/ /\ schedule[s] # "none"
        /\ schedule' = [schedule EXCEPT ![s] = "none"]
        /\ due' = [due EXCEPT ![s] = FALSE]
  /\ UNCHANGED <<status, trigger, lastId, up, runner, stopped, ticking, cli, upsets>>

Elapse(s) ==
  /\ schedule[s] # "none" /\ ~due[s] /\ s \notin ticking
  /\ due' = [due EXCEPT ![s] = TRUE]
  /\ UNCHANGED <<status, trigger, lastId, schedule, up, runner, stopped, ticking,
                 cli, upsets>>

\* dueSchedules.
DueSchedules == {s \in Schedules : schedule[s] = "on" /\ due[s]}

\* tickSchedules, its query: the loop then runs to its end undisturbed.
Tick ==
  /\ Idle /\ ~stopped
  /\ DueSchedules # {}
  /\ ticking' = DueSchedules
  /\ UNCHANGED <<durable, up, runner, stopped, cli, upsets>>

\* Faulty variant for mutation: against stacking, no run is made while one of the
\* schedule is waiting, but the next interval has begun.
TickScheduleBusy(s) ==
  /\ up /\ s \in ticking
  /\ due' = [due EXCEPT ![s] = FALSE]
  /\ IF \E r \in Queued : trigger[r] = s
       THEN UNCHANGED <<status, trigger, lastId, runner>> ELSE Admit(s)
  /\ ticking' = ticking \ {s}
  /\ UNCHANGED <<schedule, up, stopped, cli, upsets>>

\* One round of the loop: markScheduleRun, then enqueue.
TickSchedule(s) ==
  /\ up /\ s \in ticking
  /\ due' = [due EXCEPT ![s] = FALSE]
  /\ Admit(s)
  /\ ticking' = ticking \ {s}
  /\ UNCHANGED <<schedule, up, stopped, cli, upsets>>

Upset == upsets < MaxUpsets /\ upsets' = upsets + 1

\* A write throws: before the re-anchoring, or between it and the new row.
\* The catch block ends the loop, so the other schedules wait for a tick.  (At the
\* bound on ids no row can be made.)
TickFails(s) ==
  /\ up /\ s \in ticking
  /\ Upset \/ (lastId = MaxRuns /\ UNCHANGED upsets)
  /\ due' \in {due, [due EXCEPT ![s] = FALSE]}
  /\ ticking' = {}
  /\ UNCHANGED <<status, trigger, lastId, schedule, up, runner, stopped, cli>>

(***************************************************************************)
(* The server process.                                                     *)
(***************************************************************************)
\* startWebServer: recover, then startScheduler, which ticks at once.
Start ==
  /\ ~up
  /\ up' = TRUE
  /\ status' = Reconciled(status)
  /\ ticking' = DueSchedules
  /\ UNCHANGED <<trigger, lastId, schedule, due, runner, stopped, cli, upsets>>

\* The process is gone and its memory with it; the database is as it was.
Down ==
  /\ up' = FALSE
  /\ queue' = <<>>
  /\ active' = NoRun
  /\ aborted' = FALSE
  /\ draining' = FALSE
  /\ stopped' = FALSE
  /\ ticking' = {}
  /\ UNCHANGED <<durable, cli>>

Crash == up /\ Upset /\ Down

(***************************************************************************)
(* A log line of a run whose row retention has deleted: the foreign key of *)
(* logs.run_id refuses the insert, flush throws out of its interval timer  *)
(* (or out of execute's finally), and nothing catches it.                  *)
(***************************************************************************)
OrphanedLogLine ==
  /\ Idle /\ active # NoRun
  /\ status[active] = "pruned"
  /\ Down
  /\ UNCHANGED upsets

\* stop(), on SIGTERM or SIGINT.
Stop ==
  /\ Idle /\ ~stopped
  /\ stopped' = TRUE
  /\ aborted' = (active # NoRun)
  /\ UNCHANGED <<durable, up, queue, active, draining, ticking, cli, upsets>>

\* drained() resolves, or its ten seconds are over; then the process ends.
Exit ==
  /\ Idle /\ stopped
  /\ Down
  /\ UNCHANGED upsets

ExitTimedOut == Exit /\ draining
ExitDrained == Exit /\ ~draining

(***************************************************************************)
(* A CLI process inside withRun.                                           *)
(***************************************************************************)
CliCreate ==
  /\ lastId < MaxRuns
  /\ lastId' = lastId + 1
  /\ trigger' = [trigger EXCEPT ![lastId + 1] = "cli"]
  /\ status' = Created(lastId + 1)
  /\ cli' = [cli EXCEPT ![lastId + 1] = "created"]
  /\ UNCHANGED <<schedule, due, up, runner, stopped, ticking, upsets>>

CliMark(r) ==
  /\ cli[r] = "created"
  /\ status' = Update(status, r, "running")
  /\ cli' = [cli EXCEPT ![r] = "running"]
  /\ UNCHANGED <<trigger, lastId, schedule, due, up, runner, stopped, ticking, upsets>>

\* The task ends well, which also prunes, or throws, which does not.
CliFinish(r) ==
  /\ cli[r] = "running"
  /\ \/ status' \in Retained(Update(status, r, "success"))
     \/ status' = Update(status, r, "failed")
  /\ cli' = [cli EXCEPT ![r] = "none"]
  /\ UNCHANGED <<trigger, lastId, schedule, due, up, runner, stopped, ticking, upsets>>

\* The process dies, or openContext throws outside withRun's try block: the
\* row keeps the status it had.
CliAbandon(r) ==
  /\ cli[r] # "none"
  /\ cli' = [cli EXCEPT ![r] = "none"]
  /\ UNCHANGED <<durable, up, runner, stopped, ticking, upsets>>

--------------------------------------------------------------------------------
Next ==
  \/ Enqueue
  \/ Drain
  \/ Finish
  \/ \E r \in RunId : CancelQueued(r) \/ CancelActive(r)
  \/ \E s \in Schedules :
       EditSchedule(s) \/ Elapse(s) \/ TickSchedule(s) \/ TickFails(s)
  \/ Tick
  \/ Start \/ Crash \/ OrphanedLogLine \/ Stop \/ ExitTimedOut \/ ExitDrained
  \/ CliCreate
  \/ \E r \in RunId : CliMark(r) \/ CliFinish(r) \/ CliAbandon(r)

Spec == Init /\ [][Next]_vars

(***************************************************************************)
(* Fairness.  A started task ends (every request it makes has a timeout    *)
(* and the library is finite); promise continuations and the 30-second     *)
(* poller are not starved by other callbacks; a process that was told to   *)
(* stop does; a service manager restarts a dead one; an interval, left     *)
(* alone, passes.  Nothing is assumed of the CLI or of users.              *)
(***************************************************************************)
Fairness ==
  /\ SF_vars(Drain) /\ SF_vars(Finish)
  /\ WF_vars(Start) /\ WF_vars(ExitTimedOut \/ ExitDrained)
  /\ WF_vars(Tick)
  /\ \A s \in Schedules :
       WF_vars(Elapse(s)) /\ WF_vars(TickSchedule(s) \/ TickFails(s))

FairSpec == Spec /\ Fairness

--------------------------------------------------------------------------------
\* What the queue and the table say of each other: a waiting id is a server
\* run whose row is still 'queued' (or was pruned under it), and, while the
\* server is up, no 'queued' row has been left out of the queue.
QueueMatchesTable ==
  /\ \A r \in Queued : ServerRun(r) /\ status[r] \in {"queued", "pruned"}
  /\ up => \A r \in RunId : ServerRun(r) /\ status[r] = "queued" => r \in Queued

\* "Runs execute one at a time on purpose": the only server run whose row
\* says 'running' is the one the runner holds, and the one it holds is
\* neither waiting nor already recorded as over.
SerialExecution ==
  /\ up => \A r \in RunId : ServerRun(r) /\ status[r] = "running" => r = active
  /\ active # NoRun =>
       /\ active \notin Queued
       /\ status[active] \in {"running", "pruned"}

\* No lost wake-up: work that may be started has a loop that will start it.
NeverAsleep == up /\ queue # <<>> /\ ~stopped => draining

\* Runs wait in the order they were accepted in, behind the active one.
QueueInOrder ==
  /\ \A i, j \in DOMAIN queue : i < j => queue[i] < queue[j]
  /\ active # NoRun => \A i \in DOMAIN queue : active < queue[i]

\* A run that was asked to stop, by cancel or by stop, never ends up as a
\* success or a failure while the server lives to record its end.
StopIsHonoured ==
  [][aborted /\ active # NoRun /\ active' # active /\ up'
       => status'[active] \in {"cancelled", "pruned"}]_vars

\* The runs table shows an abstract serial queue (SerialRuns.tla); the rows
\* of CLI runs, which the server does not order, are left out of the view.
View == [r \in RunId |-> IF ServerRun(r) THEN status[r] ELSE "absent"]

AbstractRuns == INSTANCE SerialRuns WITH life <- View

Abstract == AbstractRuns!Spec

\* Every run the server accepts comes to an end that the table shows, through
\* crashes, stops and restarts.
AcceptedRunsEnd ==
  \A r \in RunId :
    (ServerRun(r) /\ status[r] \in {"queued", "running"})
      ~> (status[r] \in Ended \cup {"pruned"})

\* The runs a schedule has been given.
RunsOf(s) == {r \in RunId : trigger[r] = s}

\* An interval that is over has its run in the step that starts the next one,
\* unless somebody edits the schedule or a write fails then (jobs.ts 263-269).
IntervalsHaveRuns ==
  [][\A s \in Schedules :
       due[s] /\ ~due'[s] /\ RunsOf(s)' = RunsOf(s)
         => EditSchedule(s) \/ Upset \/ lastId = MaxRuns]_vars

\* Only a failed write costs a schedule an interval, and no failure, stop, crash
\* or other schedule of the tick makes a due one wait for ever: it gets a run,
\* for this interval or a later one, unless it is switched off, deleted, or edited
\* again and again (or the bound on ids is reached).
DueSchedulesAreServed ==
  /\ IntervalsHaveRuns
  /\ \A s \in Schedules :
       \/ []<><<EditSchedule(s)>>_vars
       \/ \A n \in 0 .. MaxRuns - 1 :
            (s \in DueSchedules /\ Cardinality(RunsOf(s)) = n)
              ~> (Cardinality(RunsOf(s)) > n \/ schedule[s] # "on" \/ lastId = MaxRuns)

================================================================================

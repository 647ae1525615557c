---------------------------- MODULE JobRunnerProofs ----------------------------
(***************************************************************************)
(* Proofs about JobRunner, for every number of runs, schedules and upsets  *)
(* and every history limit.  The invariants the runs of JobRunner check    *)
(* are not inductive one by one; their conjunction with four facts about   *)
(* ids and about the idle process is.                                      *)
(***************************************************************************)
EXTENDS JobRunner, TLAPS

\* Ids are handed out in order, and exactly the ids handed out have a past.
IdsInv ==
  \A r \in RunId : /\ status[r] = "absent" <=> lastId < r
                   /\ trigger[r] = "none" <=> lastId < r

\* A process that is not running holds nothing.
DownInv ==
  ~up => /\ queue = <<>> /\ active = NoRun /\ ticking = {}
         /\ ~draining /\ ~stopped /\ ~aborted

\* The active run is a server run, and the loop that awaits it is running.
ActiveInv == active # NoRun => ServerRun(active) /\ draining

\* A CLI process works on rows of its own.
CliInv == \A r \in RunId : cli[r] # "none" => trigger[r] = "cli"

Inv ==
  /\ TypeOK
  /\ IdsInv /\ DownInv /\ ActiveInv /\ CliInv
  /\ QueueMatchesTable /\ SerialExecution /\ NeverAsleep /\ QueueInOrder

--------------------------------------------------------------------------------
(***************************************************************************)
(* The operators on the table.                                             *)
(***************************************************************************)
\* An UPDATE changes one row, and only one that exists.
LEMMA UpdateEffect ==
  ASSUME NEW st \in [RunId -> Status], NEW r \in RunId, NEW to \in Status
  PROVE  /\ Update(st, r, to) \in [RunId -> Status]
         /\ \A q \in RunId : q # r => Update(st, r, to)[q] = st[q]
         /\ Update(st, r, to)[r] = (IF st[r] = "pruned" THEN "pruned" ELSE to)
  BY DEF Update

\* A retention pass deletes existing rows and changes nothing else.
LEMMA RetainedEffect ==
  ASSUME NEW st \in [RunId -> Status], NEW st2 \in Retained(st)
  PROVE  /\ st2 \in [RunId -> Status]
         /\ \A q \in RunId : \/ st2[q] = st[q]
                             \/ st2[q] = "pruned" /\ st[q] # "absent"
<1>1. CASE st2 = st
  BY <1>1
<1>2. CASE st2 = Prune(st)
  BY <1>2 DEF Prune, Rows, Status
<1>3. QED
  BY <1>1, <1>2 DEF Retained

\* Recovery leaves no row queued or running.
LEMMA ReconciledEffect ==
  ASSUME NEW st \in [RunId -> Status]
  PROVE  /\ Reconciled(st) \in [RunId -> Status]
         /\ \A q \in RunId :
              Reconciled(st)[q] =
                (IF st[q] \in {"running", "queued"} THEN "failed" ELSE st[q])
  BY DEF Reconciled, Status, Ended

LEMMA EmptyQueue == <<>> \in Seq(RunId)
  OBVIOUS

\* The first element leaves the queue; the others move up by one.
LEMMA TailEffect ==
  ASSUME NEW q \in Seq(RunId), q # <<>>
  PROVE  /\ Head(q) \in RunId /\ Head(q) = q[1] /\ 1 \in DOMAIN q
         /\ Tail(q) \in Seq(RunId)
         /\ DOMAIN Tail(q) = 1 .. (Len(q) - 1) /\ DOMAIN q = 1 .. Len(q)
         /\ \A i \in DOMAIN Tail(q) : i + 1 \in DOMAIN q /\ Tail(q)[i] = q[i + 1]
  OBVIOUS

\* What the synchronous part of one turn of the loop does.
LEMMA LaunchEffect ==
  ASSUME NEW q \in Seq(RunId), q # <<>>, NEW st \in [RunId -> Status],
         st[Head(q)] \in {"queued", "pruned"},
         Launch(q, st)
  PROVE  /\ queue' = Tail(q)
         /\ draining' = TRUE /\ aborted' = FALSE
         /\ status' \in [RunId -> Status]
         /\ \A r \in RunId : r # Head(q) =>
              \/ status'[r] = st[r]
              \/ status'[r] = "pruned" /\ st[r] # "absent"
         /\ \/ active' = NoRun /\ status'[Head(q)] \in {"failed", "pruned"}
            \/ /\ active' = Head(q) /\ status'[Head(q)] = "running"
               /\ st[Head(q)] = "queued"
               /\ \A r \in RunId : r # Head(q) => status'[r] = st[r]
         /\ st[Head(q)] = "pruned" => status'[Head(q)] = "pruned"
<1> DEFINE h == Head(q)
           run == Update(st, h, "running")
           fail == Update(run, h, "failed")
<1>h. h \in RunId
  BY TailEffect
<1>s. "running" \in Status /\ "failed" \in Status
  BY DEF Status, Ended
<1>r. /\ run \in [RunId -> Status]
      /\ \A r \in RunId : r # h => run[r] = st[r]
      /\ run[h] = (IF st[h] = "pruned" THEN "pruned" ELSE "running")
  BY <1>h, <1>s, UpdateEffect
<1>f. /\ fail \in [RunId -> Status]
      /\ \A r \in RunId : r # h => fail[r] = st[r]
      /\ fail[h] = (IF st[h] = "pruned" THEN "pruned" ELSE "failed")
  <2>1. /\ fail \in [RunId -> Status]
        /\ \A r \in RunId : r # h => fail[r] = run[r]
        /\ fail[h] = (IF run[h] = "pruned" THEN "pruned" ELSE "failed")
    BY <1>h, <1>s, <1>r, UpdateEffect
  <2>2. QED
    BY <2>1, <1>r
<1>1. CASE st[h] \in {"cancelled", "pruned"} /\ active' = NoRun /\ status' = st
  BY <1>1, <1>h DEF Launch
<1>2. CASE st[h] \notin {"cancelled", "pruned"} /\ active' = h /\ status' = run
  BY <1>2, <1>h, <1>r DEF Launch
<1>3. CASE st[h] \notin {"cancelled", "pruned"} /\ active' = NoRun /\ status' \in Retained(fail)
  <2>1. /\ status' \in [RunId -> Status]
        /\ \A r \in RunId : \/ status'[r] = fail[r]
                            \/ status'[r] = "pruned" /\ fail[r] # "absent"
    BY <1>3, <1>f, RetainedEffect
  <2>2. QED
    BY <2>1, <1>3, <1>h, <1>f DEF Launch
<1>4. QED
  BY <1>1, <1>2, <1>3 DEF Launch

\* What enqueue does, in a state that satisfies the invariant: either the new
\* run joins the end of the queue, or an idle runner takes it at once.
LEMMA AdmitEffect ==
  ASSUME Inv, up, NEW t \in Trigger \ {"none", "cli"}, Admit(t)
  PROVE  /\ lastId + 1 \in RunId /\ lastId' = lastId + 1
         /\ trigger' = [trigger EXCEPT ![lastId + 1] = t]
         /\ status' \in [RunId -> Status]
         /\ \A r \in RunId : r # lastId + 1 =>
              \/ status'[r] = status[r]
              \/ status'[r] = "pruned" /\ status[r] # "absent"
         /\ \/ /\ draining \/ stopped
               /\ queue' = Append(queue, lastId + 1)
               /\ status' = [status EXCEPT ![lastId + 1] = "queued"]
               /\ UNCHANGED <<active, aborted, draining>>
            \/ /\ ~draining /\ ~stopped /\ active = NoRun
               /\ queue = <<>> /\ queue' = <<>>
               /\ draining' = TRUE /\ aborted' = FALSE
               /\ \/ active' = NoRun /\ status'[lastId + 1] \in {"failed", "pruned"}
                  \/ active' = lastId + 1 /\ status'[lastId + 1] = "running"
<1> DEFINE id == lastId + 1
           new == [status EXCEPT ![id] = "queued"]
<1>1. /\ id \in RunId /\ lastId' = id
      /\ trigger' = [trigger EXCEPT ![id] = t]
      /\ new \in [RunId -> Status] /\ new[id] = "queued"
      /\ \A r \in RunId : r # id => new[r] = status[r]
  BY JobRunnerAssumption DEF Admit, AdmitIf, Inv, TypeOK, RunId, Status
<1>2. CASE draining \/ stopped
  BY <1>1, <1>2 DEF Admit, AdmitIf, Created
<1>3. CASE ~draining /\ ~stopped
  <2>1. queue = <<>> /\ active = NoRun
    BY <1>3 DEF Inv, NeverAsleep, ActiveInv
  <2>2. /\ Append(queue, id) = <<id>> /\ <<id>> \in Seq(RunId) /\ <<id>> # <<>>
        /\ Head(<<id>>) = id /\ Tail(<<id>>) = <<>>
    BY <1>1, <2>1
  <2>3. Launch(<<id>>, new)
    BY <1>3, <2>2 DEF Admit, AdmitIf, Created
  <2>4. QED
    BY <1>1, <1>3, <2>1, <2>2, <2>3, LaunchEffect
<1>4. QED
  BY <1>2, <1>3

--------------------------------------------------------------------------------
(***************************************************************************)
(* The invariant.                                                          *)
(***************************************************************************)
LEMMA InitInv == Init => Inv
<1> SUFFICES ASSUME Init
             PROVE  Inv
  OBVIOUS
<1>1. TypeOK
  <2>1. /\ status \in [RunId -> Status] /\ trigger \in [RunId -> Trigger]
        /\ schedule \in [Schedules -> {"none", "off", "on"}]
        /\ due \in [Schedules -> BOOLEAN]
        /\ cli \in [RunId -> {"none", "created", "running"}]
    BY DEF Init, Status, Trigger
  <2>2. lastId \in 0 .. MaxRuns /\ upsets \in 0 .. MaxUpsets
    BY JobRunnerAssumption DEF Init
  <2>3. QED
    BY <2>1, <2>2, EmptyQueue DEF Init, TypeOK
<1>2. IdsInv /\ DownInv /\ ActiveInv /\ CliInv
  BY DEF Init, IdsInv, DownInv, ActiveInv, CliInv, RunId
<1>3. QueueMatchesTable /\ SerialExecution /\ NeverAsleep /\ QueueInOrder
  BY DEF Init, QueueMatchesTable, SerialExecution, NeverAsleep, QueueInOrder, Queued
<1>4. QED
  BY <1>1, <1>2, <1>3 DEF Inv

LEMMA AdmitInv ==
  ASSUME Inv, up, NEW t \in Trigger \ {"none", "cli"}, Admit(t),
         UNCHANGED <<schedule, up, stopped, cli, upsets>>,
         due' \in [Schedules -> BOOLEAN], ticking' \in SUBSET Schedules
  PROVE  Inv'
<1> DEFINE id == lastId + 1
<1>0. lastId \in Nat /\ lastId + 1 \in RunId
  <2>1. lastId \in Nat
    BY JobRunnerAssumption DEF Inv, TypeOK
  <2>2. QED
    BY <2>1, AdmitEffect
<1>1. /\ id \in RunId /\ lastId' = id
      /\ trigger' = [trigger EXCEPT ![id] = t]
      /\ status' \in [RunId -> Status]
      /\ \A r \in RunId : r # id =>
           \/ status'[r] = status[r]
           \/ status'[r] = "pruned" /\ status[r] # "absent"
  BY AdmitEffect
<1>2. /\ trigger' \in [RunId -> Trigger]
      /\ trigger'[id] = t /\ \A r \in RunId : r # id => trigger'[r] = trigger[r]
      /\ trigger[id] = "none" /\ status[id] = "absent" /\ cli[id] = "none"
      /\ \A r \in RunId : r # id => (lastId < r <=> lastId' < r)
  BY <1>0, <1>1 DEF Inv, TypeOK, IdsInv, CliInv, RunId
<1>3. \A i \in DOMAIN queue : queue[i] \in RunId /\ queue[i] < id
  <2> SUFFICES ASSUME NEW i \in DOMAIN queue
               PROVE  queue[i] \in RunId /\ queue[i] < id
    OBVIOUS
  <2>1. queue[i] \in RunId /\ ServerRun(queue[i])
    BY DEF Inv, TypeOK, QueueMatchesTable, Queued
  <2>2. QED
    BY <2>1, <1>0 DEF Inv, IdsInv, ServerRun, RunId
<1>4. CliInv' /\ DownInv'
  BY <1>1, <1>2 DEF Inv, CliInv, DownInv
<1>5. CASE /\ draining \/ stopped
           /\ queue' = Append(queue, id)
           /\ status' = [status EXCEPT ![id] = "queued"]
           /\ UNCHANGED <<active, aborted, draining>>
  <2>a. queue' \in Seq(RunId) /\ lastId' \in 0 .. MaxRuns
    BY <1>0, <1>1, <1>5 DEF Inv, TypeOK, RunId
  <2>1. TypeOK'
    BY <2>a, <1>1, <1>2, <1>5 DEF Inv, TypeOK
  <2>2. IdsInv'
    BY <1>1, <1>2, <1>5 DEF Inv, TypeOK, IdsInv, RunId
  <2>3. active # NoRun => active \in RunId /\ active # id /\ active < id
    BY <1>1, <1>2 DEF Inv, TypeOK, ActiveInv, IdsInv, ServerRun, RunId
  <2>4. ActiveInv'
    BY <1>1, <1>2, <1>5, <2>3 DEF Inv, TypeOK, ActiveInv, ServerRun
  <2>5. /\ queue \in Seq(RunId) /\ DOMAIN queue = 1 .. Len(queue)
        /\ DOMAIN queue' = 1 .. (Len(queue) + 1) /\ queue'[Len(queue) + 1] = id
        /\ \A i \in DOMAIN queue : i \in DOMAIN queue' /\ queue'[i] = queue[i]
    BY <1>1, <1>5 DEF Inv, TypeOK
  <2>6. Queued' = Queued \cup {id}
    BY <2>5 DEF Queued
  <2>7. QueueMatchesTable'
    <3>1. /\ \A r \in RunId : r # id => status'[r] = status[r] /\ trigger'[r] = trigger[r]
          /\ status'[id] = "queued" /\ trigger'[id] \notin {"none", "cli"}
          /\ up' = up
      BY <1>1, <1>2, <1>5 DEF Inv, TypeOK
    <3>2. \A r \in Queued : r \in RunId /\ r # id
      BY <1>1, <1>3 DEF Queued, RunId
    <3>3. QED
      BY <2>6, <3>1, <3>2, <1>1 DEF Inv, QueueMatchesTable, ServerRun
  <2>8. SerialExecution'
    BY <1>1, <1>2, <1>5, <2>3, <2>6 DEF Inv, TypeOK, SerialExecution, ServerRun
  <2>9. NeverAsleep'
    BY <1>5 DEF Inv, NeverAsleep
  <2>10. QueueInOrder'
    BY <1>1, <1>3, <1>5, <2>3, <2>5 DEF Inv, TypeOK, QueueInOrder, RunId
  <2>11. QED
    BY <1>4, <2>1, <2>2, <2>4, <2>7, <2>8, <2>9, <2>10 DEF Inv
<1>6. CASE /\ ~draining /\ ~stopped /\ active = NoRun
           /\ queue = <<>> /\ queue' = <<>>
           /\ draining' = TRUE /\ aborted' = FALSE
           /\ \/ active' = NoRun /\ status'[id] \in {"failed", "pruned"}
              \/ active' = id /\ status'[id] = "running"
  <2>a. /\ queue' \in Seq(RunId) /\ active' \in {NoRun} \cup RunId
        /\ draining' \in BOOLEAN /\ aborted' \in BOOLEAN

    BY <1>1, <1>6, EmptyQueue
  <2>b. /\ schedule' = schedule /\ up' = up /\ stopped' = stopped /\ cli' = cli
        /\ upsets' = upsets /\ lastId' \in 0 .. MaxRuns
    BY <1>0, <1>1 DEF RunId
  <2>1. TypeOK'
    BY <2>a, <2>b, <1>1, <1>2 DEF Inv, TypeOK
  <2>2. IdsInv'
    BY <1>1, <1>2, <1>6 DEF Inv, TypeOK, IdsInv, RunId
  <2>3. ActiveInv' /\ NeverAsleep' /\ QueueInOrder'
    BY <1>1, <1>2, <1>6 DEF ActiveInv, NeverAsleep, QueueInOrder, ServerRun
  <2>4. QueueMatchesTable' /\ SerialExecution'
    BY <1>1, <1>2, <1>6
       DEF Inv, TypeOK, QueueMatchesTable, SerialExecution, ServerRun, Queued, RunId, NoRun
  <2>5. QED
    BY <1>4, <2>1, <2>2, <2>3, <2>4 DEF Inv
<1>7. QED
  BY <1>5, <1>6, AdmitEffect

LEMMA DrainInv ==
  ASSUME Inv, Drain
  PROVE  Inv'
<1>u. /\ up /\ draining /\ active = NoRun
      /\ UNCHANGED <<trigger, lastId, schedule, due, up, stopped, ticking, cli, upsets>>
  BY DEF Drain, Idle
<1>1. CASE queue # <<>> /\ ~stopped /\ Launch(queue, status)
  <2> DEFINE h == Head(queue)
  <2>1. /\ queue \in Seq(RunId) /\ h \in RunId /\ h = queue[1] /\ 1 \in DOMAIN queue
        /\ Tail(queue) \in Seq(RunId)
        /\ DOMAIN Tail(queue) = 1 .. (Len(queue) - 1) /\ DOMAIN queue = 1 .. Len(queue)
        /\ \A i \in DOMAIN Tail(queue) :
             i + 1 \in DOMAIN queue /\ Tail(queue)[i] = queue[i + 1]
    BY <1>1, TailEffect DEF Inv, TypeOK
  <2>2. h \in Queued /\ ServerRun(h) /\ status[h] \in {"queued", "pruned"}
    BY <2>1 DEF Inv, QueueMatchesTable, Queued
  <2>3. /\ queue' = Tail(queue) /\ draining' = TRUE /\ aborted' = FALSE
        /\ status' \in [RunId -> Status]
        /\ \A r \in RunId : r # h =>
             status'[r] = status[r] \/ (status'[r] = "pruned" /\ status[r] # "absent")
        /\ \/ active' = NoRun /\ status'[h] \in {"failed", "pruned"}
           \/ active' = h /\ status'[h] = "running"
    <3>1. status \in [RunId -> Status] /\ status[Head(queue)] \in {"queued", "pruned"}
      BY <2>1, <2>2 DEF Inv, TypeOK
    <3>2. /\ queue' = Tail(queue) /\ draining' = TRUE /\ aborted' = FALSE
          /\ status' \in [RunId -> Status]
          /\ \A r \in RunId : r # h =>
               status'[r] = status[r] \/ (status'[r] = "pruned" /\ status[r] # "absent")
      BY <1>1, <2>1, <3>1, LaunchEffect
    <3>3. \/ active' = NoRun /\ status'[h] \in {"failed", "pruned"}
          \/ active' = h /\ status'[h] = "running"
      BY <1>1, <2>1, <3>1, LaunchEffect
    <3>4. QED
      BY <3>2, <3>3
  <2>4. /\ \A r \in Queued' : r \in Queued /\ r # h /\ h < r
        /\ \A r \in Queued : r # h => r \in Queued'
    <3>1. \A i \in DOMAIN Tail(queue) : queue[1] < queue[i + 1]
      BY <2>1 DEF Inv, QueueInOrder
    <3>2. \A i \in DOMAIN queue : i # 1 =>
            i - 1 \in DOMAIN Tail(queue) /\ Tail(queue)[i - 1] = queue[i]
      BY <2>1
    <3>3. \A r \in Queued' : r \in Queued /\ h < r
      BY <2>1, <2>3, <3>1 DEF Queued
    <3>4. ASSUME NEW r \in Queued, r # h
          PROVE  r \in Queued'
      <4>1. PICK i \in DOMAIN queue : queue[i] = r
        BY DEF Queued
      <4>2. i - 1 \in DOMAIN Tail(queue) /\ Tail(queue)[i - 1] = r
        BY <2>1, <3>2, <3>4, <4>1
      <4>3. QED
        BY <2>3, <4>2 DEF Queued
    <3>5. \A r \in Queued' : r # h
      BY <2>1, <3>3 DEF RunId
    <3>6. QED
      BY <3>3, <3>4, <3>5
  <2>5. h <= lastId /\ status[h] # "absent"
    BY <2>1, <2>2 DEF Inv, TypeOK, IdsInv, ServerRun, RunId
  <2>6. TypeOK'
    BY <1>u, <2>1, <2>3 DEF Inv, TypeOK
  <2>7. IdsInv' /\ DownInv' /\ CliInv' /\ NeverAsleep'
    BY <1>u, <2>1, <2>3, <2>5 DEF Inv, TypeOK, IdsInv, DownInv, CliInv, NeverAsleep, RunId
  <2>8. ActiveInv'
    BY <1>u, <2>2, <2>3 DEF ActiveInv, ServerRun
  <2>9. QueueMatchesTable'
    <3>1. \A i \in DOMAIN queue : queue[i] \in RunId
      BY DEF Inv, TypeOK
    <3>2. \A r \in Queued : r \in RunId
      BY <3>1 DEF Queued
    <3>3. \A r \in Queued' : r \in RunId
      BY <2>4, <3>2
    <3>4. QED
      BY <1>u, <2>2, <2>3, <2>4, <3>3 DEF Inv, QueueMatchesTable, ServerRun
  <2>10. SerialExecution'
    BY <1>u, <2>1, <2>3, <2>4 DEF Inv, SerialExecution, ServerRun, RunId, NoRun
  <2>11. QueueInOrder'
    <3>1. \A i, j \in DOMAIN Tail(queue) : i < j => Tail(queue)[i] < Tail(queue)[j]
      BY <2>1 DEF Inv, QueueInOrder
    <3>2. \A i \in DOMAIN Tail(queue) : h < Tail(queue)[i]
      BY <2>1 DEF Inv, QueueInOrder
    <3>3. QED
      BY <2>3, <3>1, <3>2 DEF QueueInOrder
  <2>12. QED
    BY <2>6, <2>7, <2>8, <2>9, <2>10, <2>11 DEF Inv
<1>2. CASE /\ queue = <<>> \/ stopped
           /\ draining' = FALSE
           /\ UNCHANGED <<status, queue, active, aborted>>
  <2>1. TypeOK' /\ IdsInv' /\ DownInv' /\ ActiveInv' /\ CliInv'
    BY <1>u, <1>2 DEF Inv, TypeOK, IdsInv, DownInv, ActiveInv, CliInv
  <2>2. QueueMatchesTable' /\ SerialExecution' /\ NeverAsleep'
    BY <1>u, <1>2
       DEF Inv, QueueMatchesTable, SerialExecution, NeverAsleep, Queued, ServerRun
  <2>3. QueueInOrder'
    BY <1>u, <1>2 DEF Inv, QueueInOrder
  <2>4. QED
    BY <2>1, <2>2, <2>3 DEF Inv
<1>3. QED
  BY <1>1, <1>2 DEF Drain

LEMMA FinishInv ==
  ASSUME Inv, Finish
  PROVE  Inv'
<1>1. /\ up /\ active # NoRun /\ active' = NoRun /\ aborted' = FALSE
      /\ UNCHANGED <<trigger, lastId, schedule, due, up, queue, draining, stopped,
                     ticking, cli, upsets>>
  BY DEF Finish, FinishAs, Idle
<1>2. active \in RunId /\ status \in [RunId -> Status] /\ active \notin Queued
  BY <1>1 DEF Inv, TypeOK, SerialExecution
<1>3. PICK s \in Ended : status' \in Retained(Update(status, active, s))
  BY DEF Finish, FinishAs, Ended
<1>4. /\ Update(status, active, s) \in [RunId -> Status]
      /\ \A q \in RunId : q # active => Update(status, active, s)[q] = status[q]
      /\ Update(status, active, s)[active] \in {"pruned", s}
  <2>1. s \in Status
    BY DEF Status
  <2>2. QED
    BY <1>2, <2>1, UpdateEffect
<1>5. /\ status' \in [RunId -> Status]
      /\ \A q \in RunId : q # active =>
           status'[q] = status[q] \/ (status'[q] = "pruned" /\ status[q] # "absent")
      /\ status'[active] \in {"pruned", s}
  <2> DEFINE st == Update(status, active, s)
  <2>1. /\ status' \in [RunId -> Status]
        /\ \A q \in RunId :
           \/ status'[q] = st[q]
           \/ status'[q] = "pruned" /\ st[q] # "absent"
    BY <1>3, <1>4, RetainedEffect
  <2>2. QED
    BY <2>1, <1>2, <1>4
<1>6. status[active] # "absent" /\ status'[active] \notin {"absent", "running", "queued"}
  BY <1>1, <1>2, <1>5 DEF Inv, SerialExecution, Ended
<1>7. TypeOK'
  BY <1>1, <1>5 DEF Inv, TypeOK
<1>8. IdsInv' /\ DownInv' /\ ActiveInv' /\ CliInv' /\ NeverAsleep' /\ QueueInOrder'
  BY <1>1, <1>2, <1>5, <1>6
     DEF Inv, IdsInv, DownInv, ActiveInv, CliInv, NeverAsleep, QueueInOrder
<1>9. QueueMatchesTable'
  <2>1. Queued' = Queued /\ \A r \in Queued : r \in RunId /\ r # active
    BY <1>1, <1>2 DEF Inv, TypeOK, Queued
  <2>2. QED
    BY <1>1, <1>2, <1>5, <1>6, <2>1 DEF Inv, QueueMatchesTable, ServerRun
<1>10. SerialExecution'
  BY <1>1, <1>2, <1>5, <1>6 DEF Inv, SerialExecution, ServerRun
<1>11. QED
  BY <1>7, <1>8, <1>9, <1>10 DEF Inv

LEMMA CancelQueuedInv ==
  ASSUME Inv, NEW r \in RunId, CancelQueued(r)
  PROVE  Inv'
<1>1. PICK k \in DOMAIN queue : queue[k] = r /\ queue' = Without(queue, k)
  BY DEF CancelQueued
<1>2. /\ up /\ status' = Update(status, r, "cancelled")
      /\ UNCHANGED <<trigger, lastId, schedule, due, up, active, aborted, draining,
                     stopped, ticking, cli, upsets>>
  BY DEF CancelQueued, Idle
<1>3. /\ queue \in Seq(RunId) /\ DOMAIN queue = 1 .. Len(queue) /\ Len(queue) \in Nat
      /\ k \in 1 .. Len(queue)
  BY <1>1 DEF Inv, TypeOK
<1>4. /\ queue' \in Seq(RunId) /\ DOMAIN queue' = 1 .. (Len(queue) - 1)
      /\ \A j \in DOMAIN queue' :
           queue'[j] = (IF j < k THEN queue[j] ELSE queue[j + 1])
  <2>1. \A j \in 1 .. (Len(queue) - 1) :
          (IF j < k THEN queue[j] ELSE queue[j + 1]) \in RunId
    BY <1>3
  <2>2. Len(queue) - 1 \in Nat
    BY <1>3
  <2>3. QED
    BY <1>1, <2>1, <2>2 DEF Without
<1>5. Queued' = Queued \ {r}
  <2>1. \A q \in Queued' : q \in Queued /\ q # r
    <3>1. \A j \in DOMAIN queue' :
            \E i \in DOMAIN queue : i # k /\ queue'[j] = queue[i]
      BY <1>3, <1>4
    <3>2. \A i \in DOMAIN queue : i # k => queue[i] # queue[k]
      <4>1. \A i \in DOMAIN queue : queue[i] \in Nat
        <5>1. \A i \in 1 .. Len(queue) : queue[i] \in RunId
          BY <1>3
        <5>2. QED
          BY <1>3, <5>1 DEF RunId
      <4>2. \A i, j \in DOMAIN queue : i < j => queue[i] < queue[j]
        BY DEF Inv, QueueInOrder
      <4>3. QED
        BY <1>3, <4>1, <4>2
    <3>3. QED
      BY <1>1, <3>1, <3>2 DEF Queued
  <2>2. \A q \in Queued : q # r => q \in Queued'
    <3>1. \A i \in DOMAIN queue : i # k =>
            \E j \in DOMAIN queue' : queue'[j] = queue[i]
      <4> SUFFICES ASSUME NEW i \in DOMAIN queue, i # k
                   PROVE  \E j \in DOMAIN queue' : queue'[j] = queue[i]
        OBVIOUS
      <4>1. CASE i < k
        BY <4>1, <1>3, <1>4
      <4>2. CASE i > k
        <5>1. i - 1 \in DOMAIN queue' /\ queue'[i - 1] = queue[i]
          BY <4>2, <1>3, <1>4
        <5>2. QED
          BY <5>1
      <4>3. QED
        BY <4>1, <4>2, <1>3
    <3>2. QED
      BY <1>1, <3>1 DEF Queued
  <2>3. QED
    BY <2>1, <2>2
<1>6. /\ status' \in [RunId -> Status]
      /\ \A q \in RunId : q # r => status'[q] = status[q]
      /\ status'[r] \in {"pruned", "cancelled"}
  <2>1. "cancelled" \in Status
    BY DEF Status, Ended
  <2>2. status \in [RunId -> Status]
    BY DEF Inv, TypeOK
  <2>3. QED
    BY <1>2, <2>1, <2>2, UpdateEffect
<1>7. r \in Queued /\ status[r] # "absent" /\ r # active
  BY <1>1 DEF Inv, Queued, QueueMatchesTable, SerialExecution, NoRun, RunId
<1>8. TypeOK'
  BY <1>2, <1>4, <1>6 DEF Inv, TypeOK
<1>9. IdsInv' /\ DownInv' /\ ActiveInv' /\ CliInv'
  BY <1>2, <1>6, <1>7 DEF Inv, IdsInv, DownInv, ActiveInv, CliInv, ServerRun
<1>10. QueueMatchesTable'
  <2>1. \A q \in Queued : q \in RunId
    BY DEF Inv, TypeOK, Queued
  <2>2. QED
    BY <1>2, <1>5, <1>6, <2>1 DEF Inv, QueueMatchesTable, ServerRun
<1>11. SerialExecution' /\ NeverAsleep'
  BY <1>1, <1>2, <1>5, <1>6, <1>7
     DEF Inv, TypeOK, SerialExecution, NeverAsleep, ServerRun
<1>12. QueueInOrder'
  <2>1. \A i, j \in DOMAIN queue' : i < j => queue'[i] < queue'[j]
    <3>1. \A i, j \in DOMAIN queue : i < j => queue[i] < queue[j]
      BY DEF Inv, QueueInOrder
    <3>2. QED
      BY <1>3, <1>4, <3>1
  <2>2. active # NoRun => \A i \in DOMAIN queue' : active < queue'[i]
    BY <1>3, <1>4 DEF Inv, QueueInOrder
  <2>3. QED
    BY <1>2, <2>1, <2>2 DEF QueueInOrder
<1>13. QED
  BY <1>8, <1>9, <1>10, <1>11, <1>12 DEF Inv

\* Steps that touch neither the table nor the queue nor the active run.
LEMMA QuietInv ==
  ASSUME Inv, TypeOK',
         UNCHANGED <<status, trigger, lastId, up, queue, active, draining>>,
         up \/ UNCHANGED <<aborted, stopped, ticking>>,
         stopped => stopped',
         \A r \in RunId : cli'[r] # "none" => cli[r] # "none"
  PROVE  Inv'
<1>1. IdsInv' /\ DownInv' /\ ActiveInv' /\ CliInv' /\ NeverAsleep'
  BY DEF Inv, IdsInv, DownInv, ActiveInv, CliInv, NeverAsleep, ServerRun
<1>2. QueueMatchesTable' /\ SerialExecution'
  BY DEF Inv, QueueMatchesTable, SerialExecution, Queued, ServerRun
<1>3. QueueInOrder'
  BY DEF Inv, QueueInOrder
<1>4. QED
  BY <1>1, <1>2, <1>3 DEF Inv

LEMMA DownKeepsInv ==
  ASSUME Inv, Down, upsets' \in 0 .. MaxUpsets
  PROVE  Inv'
<1>1. TypeOK'
  BY EmptyQueue DEF Inv, TypeOK, Down, durable
<1>2. IdsInv' /\ DownInv' /\ ActiveInv' /\ CliInv'
  BY DEF Inv, IdsInv, DownInv, ActiveInv, CliInv, Down, durable
<1>3. QueueMatchesTable' /\ SerialExecution' /\ NeverAsleep' /\ QueueInOrder'
  BY DEF QueueMatchesTable, SerialExecution, NeverAsleep, QueueInOrder, Queued, Down
<1>4. QED
  BY <1>1, <1>2, <1>3 DEF Inv

LEMMA StartInv ==
  ASSUME Inv, Start
  PROVE  Inv'
<1>1. /\ ~up /\ up' = TRUE /\ status' = Reconciled(status) /\ ticking' = DueSchedules
      /\ UNCHANGED <<trigger, lastId, schedule, due, queue, active, aborted, draining,
                     stopped, cli, upsets>>
  BY DEF Start, runner
<1>2. /\ status' \in [RunId -> Status]
      /\ \A q \in RunId :
           status'[q] = (IF status[q] \in {"running", "queued"} THEN "failed" ELSE status[q])
  BY <1>1, ReconciledEffect DEF Inv, TypeOK
<1>3. queue = <<>> /\ active = NoRun
  BY <1>1 DEF Inv, DownInv
<1>4. TypeOK'
  BY <1>1, <1>2 DEF Inv, TypeOK, DueSchedules
<1>5. IdsInv' /\ DownInv' /\ ActiveInv' /\ CliInv' /\ NeverAsleep' /\ QueueInOrder'
  BY <1>1, <1>2, <1>3
     DEF Inv, IdsInv, DownInv, ActiveInv, CliInv, NeverAsleep, QueueInOrder
<1>6. QueueMatchesTable' /\ SerialExecution'
  BY <1>1, <1>2, <1>3 DEF QueueMatchesTable, SerialExecution, Queued
<1>7. QED
  BY <1>4, <1>5, <1>6 DEF Inv

\* A CLI process changes rows that are not the server's, except that its
\* retention pass may delete any.
LEMMA CliRowsInv ==
  ASSUME Inv, NEW r \in RunId, trigger[r] = "cli",
         status' \in [RunId -> Status],
         \A q \in RunId : q # r =>
           \/ status'[q] = status[q]
           \/ status'[q] = "pruned" /\ status[q] # "absent",
         status[r] # "absent" /\ status'[r] # "absent",
         cli' \in [RunId -> {"none", "created", "running"}],
         \A q \in RunId : cli'[q] # "none" => cli[q] # "none",
         UNCHANGED <<trigger, lastId, schedule, due, up, runner, stopped, ticking, upsets>>
  PROVE  Inv'
<1>u. UNCHANGED <<queue, active, aborted, draining>>
  BY DEF runner
<1>1. TypeOK'
  BY <1>u DEF Inv, TypeOK
<1>2. IdsInv' /\ DownInv' /\ ActiveInv' /\ CliInv' /\ NeverAsleep' /\ QueueInOrder'
  BY <1>u
     DEF Inv, IdsInv, DownInv, ActiveInv, CliInv, NeverAsleep, QueueInOrder, ServerRun
<1>3. ~ServerRun(r)
  BY DEF ServerRun
<1>4. QueueMatchesTable'
  <2>1. Queued' = Queued /\ \A q \in Queued : q \in RunId /\ q # r
    BY <1>u, <1>3 DEF Inv, TypeOK, Queued, QueueMatchesTable
  <2>2. QED
    BY <1>u, <1>3, <2>1 DEF Inv, QueueMatchesTable, ServerRun
<1>5. SerialExecution'
  <2>1. Queued' = Queued /\ (active # NoRun => active \in RunId /\ active # r)
    BY <1>u, <1>3 DEF Inv, TypeOK, Queued, ActiveInv
  <2>2. QED
    BY <1>u, <1>3, <2>1 DEF Inv, SerialExecution, ServerRun
<1>6. QED
  BY <1>1, <1>2, <1>4, <1>5 DEF Inv

LEMMA CliCreateInv ==
  ASSUME Inv, CliCreate
  PROVE  Inv'
<1> DEFINE id == lastId + 1
<1>0. lastId \in Nat /\ id \in RunId
  BY JobRunnerAssumption DEF Inv, TypeOK, CliCreate, RunId
<1>1. /\ lastId' = id /\ lastId' \in 0 .. MaxRuns
      /\ trigger' = [trigger EXCEPT ![id] = "cli"]
      /\ status' = [status EXCEPT ![id] = "queued"]
      /\ cli' = [cli EXCEPT ![id] = "created"]
      /\ UNCHANGED <<schedule, due, up, queue, active, aborted, draining, stopped,
                     ticking, upsets>>
  BY <1>0 DEF CliCreate, Created, runner, RunId
<1>2. TypeOK'
  BY <1>0, <1>1 DEF Inv, TypeOK, Status, Trigger
<1>3. /\ status'[id] = "queued" /\ trigger'[id] = "cli"
      /\ \A r \in RunId : r # id =>
           status'[r] = status[r] /\ trigger'[r] = trigger[r] /\ cli'[r] = cli[r]
      /\ \A r \in RunId : r # id => (lastId < r <=> lastId' < r)
      /\ ~ServerRun(id)
  BY <1>0, <1>1 DEF Inv, TypeOK, IdsInv, RunId, ServerRun
<1>4. /\ \A q \in Queued : q \in RunId /\ q # id
      /\ active # NoRun => active \in RunId /\ active # id
      /\ Queued' = Queued
  BY <1>1, <1>3 DEF Inv, TypeOK, QueueMatchesTable, ActiveInv, Queued
<1>5. IdsInv' /\ DownInv' /\ ActiveInv' /\ CliInv' /\ NeverAsleep' /\ QueueInOrder'
  <2>1. IdsInv' /\ CliInv'
    BY <1>0, <1>1, <1>3 DEF Inv, IdsInv, CliInv, RunId
  <2>2. DownInv' /\ ActiveInv' /\ NeverAsleep' /\ QueueInOrder'
    BY <1>1, <1>3, <1>4 DEF Inv, DownInv, ActiveInv, NeverAsleep, QueueInOrder, ServerRun
  <2>3. QED
    BY <2>1, <2>2
<1>6. QueueMatchesTable' /\ SerialExecution'
  BY <1>1, <1>3, <1>4 DEF Inv, QueueMatchesTable, SerialExecution, ServerRun
<1>7. QED
  BY <1>2, <1>5, <1>6 DEF Inv

LEMMA CliFinishInv ==
  ASSUME Inv, NEW r \in RunId, CliFinish(r)
  PROVE  Inv'
<1>1. PICK s \in {"success", "failed"} :
        status' \in Retained(Update(status, r, s))
  BY DEF CliFinish, Retained
<1>2. /\ trigger[r] = "cli" /\ status[r] # "absent"
      /\ cli' = [cli EXCEPT ![r] = "none"]
      /\ UNCHANGED <<trigger, lastId, schedule, due, up, runner, stopped, ticking, upsets>>
  BY DEF CliFinish, Inv, CliInv, IdsInv
<1> DEFINE st == Update(status, r, s)
<1>3. /\ st \in [RunId -> Status] /\ st[r] # "absent"
      /\ \A q \in RunId : q # r => st[q] = status[q]
  <2>1. s \in Status /\ s # "absent" /\ status \in [RunId -> Status]
    BY DEF Status, Ended, Inv, TypeOK
  <2>2. /\ st \in [RunId -> Status]
        /\ \A q \in RunId : q # r => st[q] = status[q]
        /\ st[r] = (IF status[r] = "pruned" THEN "pruned" ELSE s)
    BY <2>1, UpdateEffect
  <2>3. QED
    BY <2>1, <2>2
<1>4. /\ status' \in [RunId -> Status]
      /\ \A q \in RunId :
           \/ status'[q] = st[q]
           \/ status'[q] = "pruned" /\ st[q] # "absent"
  BY <1>1, <1>3, RetainedEffect
<1>5. /\ cli' \in [RunId -> {"none", "created", "running"}]
      /\ \A q \in RunId : cli'[q] # "none" => cli[q] # "none"
  BY <1>2 DEF Inv, TypeOK
<1>6. QED
  BY <1>2, <1>3, <1>4, <1>5, CliRowsInv

LEMMA CliMarkInv ==
  ASSUME Inv, NEW r \in RunId, CliMark(r)
  PROVE  Inv'
<1>1. /\ trigger[r] = "cli" /\ status[r] # "absent" /\ cli[r] = "created"
      /\ status' = Update(status, r, "running")
      /\ cli' = [cli EXCEPT ![r] = "running"]
      /\ UNCHANGED <<trigger, lastId, schedule, due, up, runner, stopped, ticking, upsets>>
  BY DEF CliMark, Inv, CliInv, IdsInv
<1>2. /\ status' \in [RunId -> Status] /\ status'[r] # "absent"
      /\ \A q \in RunId : q # r => status'[q] = status[q]
  <2>1. "running" \in Status /\ status \in [RunId -> Status]
    BY DEF Status, Inv, TypeOK
  <2>2. QED
    BY <1>1, <2>1, UpdateEffect
<1>3. /\ cli' \in [RunId -> {"none", "created", "running"}]
      /\ \A q \in RunId : cli'[q] # "none" => cli[q] # "none"
  BY <1>1 DEF Inv, TypeOK
<1>4. QED
  BY <1>1, <1>2, <1>3, CliRowsInv

LEMMA StepInv ==
  ASSUME Inv, [Next]_vars
  PROVE  Inv'
<1>1. CASE Enqueue
  <2>1. /\ up /\ Admit("manual") /\ "manual" \in Trigger \ {"none", "cli"}
        /\ UNCHANGED <<schedule, due, up, stopped, ticking, cli, upsets>>
    BY <1>1 DEF Enqueue, Idle, Trigger
  <2>2. due' \in [Schedules -> BOOLEAN] /\ ticking' \in SUBSET Schedules
    BY <2>1 DEF Inv, TypeOK
  <2>3. QED
    BY <2>1, <2>2, AdmitInv
<1>2. CASE Drain
  BY <1>2, DrainInv
<1>3. CASE Finish
  BY <1>3, FinishInv
<1>4. ASSUME NEW r \in RunId, CancelQueued(r)
      PROVE  Inv'
  BY <1>4, CancelQueuedInv
<1>5. ASSUME NEW r \in RunId, CancelActive(r)
      PROVE  Inv'
  <2>1. /\ up /\ aborted' = TRUE
        /\ UNCHANGED <<status, trigger, lastId, schedule, due, up, queue, active,
                       draining, stopped, ticking, cli, upsets>>
    BY <1>5 DEF CancelActive, Idle, durable
  <2>2. TypeOK'
    BY <2>1 DEF Inv, TypeOK
  <2>3. QED
    BY <2>1, <2>2, QuietInv
<1>6. ASSUME NEW s \in Schedules, EditSchedule(s)
      PROVE  Inv'
  <2>1. UNCHANGED <<status, trigger, lastId, up, queue, active, aborted, draining,
                    stopped, ticking, cli, upsets>>
    BY <1>6 DEF EditSchedule, runner
  <2>2. TypeOK'
    BY <1>6, <2>1 DEF Inv, TypeOK, EditSchedule
  <2>3. QED
    BY <2>1, <2>2, QuietInv
<1>7. ASSUME NEW s \in Schedules, Elapse(s)
      PROVE  Inv'
  <2>1. /\ due' = [due EXCEPT ![s] = TRUE]
        /\ UNCHANGED <<status, trigger, lastId, schedule, up, queue, active, aborted,
                       draining, stopped, ticking, cli, upsets>>
    BY <1>7 DEF Elapse, runner
  <2>2. TypeOK'
    BY <2>1 DEF Inv, TypeOK
  <2>3. QED
    BY <2>1, <2>2, QuietInv
<1>8. ASSUME NEW s \in Schedules, TickSchedule(s)
      PROVE  Inv'
  <2>1. /\ up /\ Admit(s) /\ s \in Trigger \ {"none", "cli"}
        /\ due' = [due EXCEPT ![s] = FALSE] /\ ticking' = ticking \ {s}
        /\ UNCHANGED <<schedule, up, stopped, cli, upsets>>
    BY <1>8, JobRunnerAssumption DEF TickSchedule, Trigger
  <2>2. due' \in [Schedules -> BOOLEAN] /\ ticking' \in SUBSET Schedules
    BY <2>1 DEF Inv, TypeOK
  <2>3. QED
    BY <2>1, <2>2, AdmitInv
<1>9. ASSUME NEW s \in Schedules, TickFails(s)
      PROVE  Inv'
  <2>1. /\ up /\ due' \in {due, [due EXCEPT ![s] = FALSE]} /\ ticking' = {}
        /\ UNCHANGED <<status, trigger, lastId, schedule, up, queue, active, aborted,
                       draining, stopped, cli>>
    BY <1>9 DEF TickFails, runner
  <2>2. upsets' \in 0 .. MaxUpsets
    BY <1>9, JobRunnerAssumption DEF TickFails, Upset, Inv, TypeOK
  <2>3. TypeOK'
    BY <2>1, <2>2 DEF Inv, TypeOK
  <2>4. QED
    BY <2>1, <2>3, QuietInv
<1>10. CASE Tick
  <2>1. /\ up /\ ticking' = DueSchedules
        /\ UNCHANGED <<status, trigger, lastId, schedule, due, up, queue, active,
                       aborted, draining, stopped, cli, upsets>>
    BY <1>10 DEF Tick, Idle, durable, runner
  <2>2. TypeOK'
    BY <2>1 DEF Inv, TypeOK, DueSchedules
  <2>3. QED
    BY <2>1, <2>2, QuietInv
<1>11. CASE Start
  BY <1>11, StartInv
<1>12. CASE Crash
  <2>1. Down /\ upsets' \in 0 .. MaxUpsets
    BY <1>12, JobRunnerAssumption DEF Crash, Upset, Inv, TypeOK
  <2>2. QED
    BY <2>1, DownKeepsInv
<1>13. CASE OrphanedLogLine \/ ExitTimedOut \/ ExitDrained
  <2>1. Down /\ upsets' \in 0 .. MaxUpsets
    BY <1>13 DEF OrphanedLogLine, ExitTimedOut, ExitDrained, Exit, Inv, TypeOK
  <2>2. QED
    BY <2>1, DownKeepsInv
<1>14. CASE Stop
  <2>1. /\ up /\ stopped' = TRUE /\ aborted' \in BOOLEAN
        /\ UNCHANGED <<status, trigger, lastId, schedule, due, up, queue, active,
                       draining, ticking, cli, upsets>>
    BY <1>14 DEF Stop, Idle, durable
  <2>2. TypeOK'
    BY <2>1 DEF Inv, TypeOK
  <2>3. QED
    BY <2>1, <2>2, QuietInv
<1>15. CASE CliCreate
  BY <1>15, CliCreateInv
<1>16. ASSUME NEW r \in RunId, CliMark(r)
       PROVE  Inv'
  BY <1>16, CliMarkInv
<1>17. ASSUME NEW r \in RunId, CliFinish(r)
       PROVE  Inv'
  BY <1>17, CliFinishInv
<1>18. ASSUME NEW r \in RunId, CliAbandon(r)
       PROVE  Inv'
  <2>1. /\ cli' = [cli EXCEPT ![r] = "none"]
        /\ UNCHANGED <<status, trigger, lastId, schedule, due, up, queue, active,
                       aborted, draining, stopped, ticking, upsets>>
    BY <1>18 DEF CliAbandon, durable, runner
  <2>2. TypeOK' /\ \A q \in RunId : cli'[q] # "none" => cli[q] # "none"
    BY <2>1 DEF Inv, TypeOK
  <2>3. QED
    BY <2>1, <2>2, QuietInv
<1>19. CASE UNCHANGED vars
  <2>1. UNCHANGED <<status, trigger, lastId, up, queue, active, aborted, draining,
                    stopped, ticking, cli>>
    BY <1>19 DEF vars
  <2>2. TypeOK'
    BY <1>19 DEF Inv, TypeOK, vars
  <2>3. QED
    BY <2>1, <2>2, QuietInv
<1>20. QED
  BY <1>1, <1>2, <1>3, <1>4, <1>5, <1>6, <1>7, <1>8, <1>9, <1>10, <1>11, <1>12,
     <1>13, <1>14, <1>15, <1>16, <1>17, <1>18, <1>19 DEF Next

\* The invariant holds in every state of every behaviour; with it the type
\* invariant and what the safety runs check of the queue, the table, the
\* active run and the loop.
THEOREM Invariance == Spec => []Inv
<1>1. Init => Inv
  BY InitInv
<1>2. Inv /\ [Next]_vars => Inv'
  BY StepInv
<1>3. QED
  BY <1>1, <1>2, PTL DEF Spec

\* Every variable of the runner keeps its type.
THEOREM TypeCorrect == Spec => []TypeOK
<1>1. Inv => TypeOK
  BY DEF Inv
<1>2. QED
  BY <1>1, Invariance, PTL

\* While the server is up, the only server run recorded as running is the one
\* it holds, whatever crashed, was cancelled or was pruned before.
THEOREM SerialExecutionHolds == Spec => []SerialExecution
<1>1. Inv => SerialExecution
  BY DEF Inv
<1>2. QED
  BY <1>1, Invariance, PTL

\* No queued row is missing from the queue of a live server, and nothing in
\* the queue has already been started, cancelled or recorded as over.
THEOREM QueueMatchesTableHolds == Spec => []QueueMatchesTable
<1>1. Inv => QueueMatchesTable
  BY DEF Inv
<1>2. QED
  BY <1>1, Invariance, PTL

\* The queue holds runs in the order they were accepted, each of them once:
\* enqueue appends, cancel removes from the middle, runQueue takes the head.
THEOREM QueueInOrderHolds == Spec => []QueueInOrder
<1>1. Inv => QueueInOrder
  BY DEF Inv
<1>2. QED
  BY <1>1, Invariance, PTL

\* Work that may be started always has a loop that will start it.
THEOREM NeverAsleepHolds == Spec => []NeverAsleep
<1>1. Inv => NeverAsleep
  BY DEF Inv
<1>2. QED
  BY <1>1, Invariance, PTL

--------------------------------------------------------------------------------
(***************************************************************************)
(* The refinement.  A step moves every row of the view along the abstract  *)
(* life cycle, and a step that begins a run finds the runner idle; that    *)
(* the run is alone and first in line then follows from the invariant in   *)
(* the state it leads to.                                                  *)
(***************************************************************************)
RowMove(r) == View'[r] = View[r] \/ <<View[r], View'[r]>> \in AbstractRuns!Moves

RowBegins(r) == View[r] # "running" /\ View'[r] = "running"

\* The view moves legally, and begins a run only from an idle live runner.
ViewStep ==
  \A r \in RunId : /\ RowMove(r)
                   /\ RowBegins(r) => up /\ up' /\ active = NoRun

\* The view of a row, from its status and its trigger.
LEMMA ViewAt ==
  ASSUME NEW r \in RunId
  PROVE  /\ View[r] = (IF ServerRun(r) THEN status[r] ELSE "absent")
         /\ View'[r] = (IF ServerRun(r)' THEN status'[r] ELSE "absent")
  BY DEF View

\* The moves the steps below use.
LEMMA MovesFacts ==
  /\ \A s \in {"queued", "running", "failed", "pruned"} :
       <<"absent", s>> \in AbstractRuns!Moves
  /\ \A s \in {"running", "cancelled", "failed", "pruned"} :
       <<"queued", s>> \in AbstractRuns!Moves
  /\ \A s \in {"success", "cancelled", "failed", "pruned"} :
       <<"running", s>> \in AbstractRuns!Moves
  /\ \A s \in Ended : <<s, "pruned">> \in AbstractRuns!Moves
  BY DEF AbstractRuns!Moves, AbstractRuns!Waiting, AbstractRuns!Ended, Ended

\* A row a step leaves alone, or that retention deletes, moves legally.
LEMMA KeptRow ==
  ASSUME Inv, NEW r \in RunId, trigger'[r] = trigger[r],
         \/ status'[r] = status[r]
         \/ status'[r] = "pruned" /\ status[r] # "absent"
  PROVE  RowMove(r) /\ ~RowBegins(r)
<1>1. status[r] \in Status /\ (ServerRun(r)' <=> ServerRun(r))
  BY DEF Inv, TypeOK, ServerRun
<1>2. CASE ~ServerRun(r)
  BY <1>1, <1>2, ViewAt DEF RowMove, RowBegins
<1>3. CASE ServerRun(r) /\ status'[r] = status[r]
  BY <1>1, <1>3, ViewAt DEF RowMove, RowBegins
<1>4. CASE ServerRun(r) /\ status'[r] = "pruned" /\ status[r] # "absent"
  <2>1. View[r] = status[r] /\ View'[r] = "pruned"
    BY <1>1, <1>4, ViewAt
  <2>2. QED
    BY <1>1, <1>4, <2>1, MovesFacts DEF RowMove, RowBegins, Status
<1>5. QED
  BY <1>2, <1>3, <1>4

LEMMA KeptRows ==
  ASSUME Inv, UNCHANGED trigger,
         \A r \in RunId :
           \/ status'[r] = status[r]
           \/ status'[r] = "pruned" /\ status[r] # "absent"
  PROVE  ViewStep
  BY KeptRow DEF ViewStep

LEMMA AdmitView ==
  ASSUME Inv, up, up', NEW t \in Trigger \ {"none", "cli"}, Admit(t)
  PROVE  ViewStep
<1> DEFINE id == lastId + 1
<1>0. /\ id \in RunId /\ trigger' = [trigger EXCEPT ![id] = t]
      /\ \A r \in RunId : r # id =>
           \/ status'[r] = status[r]
           \/ status'[r] = "pruned" /\ status[r] # "absent"
  BY AdmitEffect
<1>1. \/ status' = [status EXCEPT ![id] = "queued"]
      \/ active = NoRun /\ status'[id] \in {"failed", "pruned", "running"}
  BY AdmitEffect
<1>2. /\ trigger'[id] = t /\ \A r \in RunId : r # id => trigger'[r] = trigger[r]
      /\ trigger[id] = "none"
      /\ status[id] = "absent"
      /\ \/ status'[id] = "queued"
         \/ active = NoRun /\ status'[id] \in {"failed", "pruned", "running"}
  <2>1. lastId \in Nat /\ status \in [RunId -> Status] /\ trigger \in [RunId -> Trigger]
    BY JobRunnerAssumption DEF Inv, TypeOK
  <2>2. trigger[id] = "none" /\ status[id] = "absent"
    BY <1>0, <2>1 DEF Inv, IdsInv
  <2>3. QED
    BY <1>0, <1>1, <2>1, <2>2
<1>3. \A r \in RunId : r # id => RowMove(r) /\ ~RowBegins(r)
  BY <1>0, <1>2, KeptRow
<1>4. RowMove(id) /\ (RowBegins(id) => active = NoRun)
  <2>1. View[id] = "absent" /\ View'[id] = status'[id]
    BY <1>0, <1>2, ViewAt DEF ServerRun
  <2>2. QED
    BY <1>2, <2>1, MovesFacts DEF RowMove, RowBegins
<1>5. QED
  BY <1>3, <1>4 DEF ViewStep

\* A step that changes the status of one server row, apart from what
\* retention deletes, and begins a run only when the runner is idle.
LEMMA OneRowView ==
  ASSUME Inv, NEW h \in RunId, UNCHANGED trigger,
         \A r \in RunId : r # h =>
           \/ status'[r] = status[r]
           \/ status'[r] = "pruned" /\ status[r] # "absent",
         ServerRun(h),
         \/ status'[h] = status[h]
         \/ <<status[h], status'[h]>> \in AbstractRuns!Moves,
         status'[h] = "running" => up /\ up' /\ active = NoRun
  PROVE  ViewStep
<1>1. \A r \in RunId : r # h => RowMove(r) /\ ~RowBegins(r)
  BY KeptRow
<1>2. View[h] = status[h] /\ View'[h] = status'[h]
  BY ViewAt DEF ServerRun
<1>3. QED
  BY <1>1, <1>2 DEF ViewStep, RowMove, RowBegins

LEMMA DrainView ==
  ASSUME Inv, Drain
  PROVE  ViewStep
<1>u. up /\ up' /\ active = NoRun /\ UNCHANGED trigger
  BY DEF Drain, Idle
<1>1. CASE queue # <<>> /\ Launch(queue, status)
  <2> DEFINE h == Head(queue)
  <2>1. /\ queue \in Seq(RunId) /\ h \in RunId /\ h \in Queued
        /\ status \in [RunId -> Status]
    BY <1>1, TailEffect DEF Inv, TypeOK, Queued
  <2>2. ServerRun(h) /\ status[h] \in {"queued", "pruned"}
    BY <2>1 DEF Inv, QueueMatchesTable
  <2>3. \A r \in RunId : r # h =>
           \/ status'[r] = status[r]
           \/ status'[r] = "pruned" /\ status[r] # "absent"
    BY <1>1, <2>1, <2>2, LaunchEffect
  <2>4. /\ status'[h] \in {"failed", "pruned", "running"}
        /\ status[h] = "pruned" => status'[h] = "pruned"
    BY <1>1, <2>1, <2>2, LaunchEffect
  <2>5. status'[h] = status[h] \/ <<status[h], status'[h]>> \in AbstractRuns!Moves
    BY <2>2, <2>4, MovesFacts
  <2>6. QED
    BY <1>u, <2>1, <2>2, <2>3, <2>5, OneRowView
<1>2. CASE UNCHANGED status
  BY <1>u, <1>2, KeptRows
<1>3. QED
  BY <1>1, <1>2 DEF Drain

LEMMA FinishView ==
  ASSUME Inv, Finish
  PROVE  ViewStep
<1>1. /\ UNCHANGED trigger /\ active \in RunId /\ status \in [RunId -> Status]
      /\ ServerRun(active) /\ status[active] \in {"running", "pruned"}
  BY DEF Finish, FinishAs, Inv, TypeOK, ActiveInv, SerialExecution
<1>2. PICK s \in Ended : status' \in Retained(Update(status, active, s))
  BY DEF Finish, FinishAs, Ended
<1> DEFINE st == Update(status, active, s)
<1>3. /\ st \in [RunId -> Status]
      /\ \A r \in RunId : r # active => st[r] = status[r]
      /\ st[active] = (IF status[active] = "pruned" THEN "pruned" ELSE s)
  <2>1. s \in Status
    BY DEF Status
  <2>2. QED
    BY <1>1, <2>1, UpdateEffect
<1>4. /\ status' \in [RunId -> Status]
      /\ \A r \in RunId :
           \/ status'[r] = st[r]
           \/ status'[r] = "pruned" /\ st[r] # "absent"
  BY <1>2, <1>3, RetainedEffect
<1>5. \A r \in RunId : r # active =>
           \/ status'[r] = status[r]
           \/ status'[r] = "pruned" /\ status[r] # "absent"
  BY <1>3, <1>4
<1>6. /\ status[active] = "pruned" => status'[active] = "pruned"
      /\ status'[active] \in {"success", "failed", "cancelled", "pruned"}
  BY <1>1, <1>3, <1>4 DEF Ended
<1>7. \/ status'[active] = status[active]
      \/ <<status[active], status'[active]>> \in AbstractRuns!Moves
  BY <1>1, <1>6, MovesFacts
<1>8. status'[active] # "running"
  BY <1>6
<1>9. QED
  BY <1>1, <1>5, <1>7, <1>8, OneRowView

LEMMA CancelQueuedView ==
  ASSUME Inv, NEW r \in RunId, CancelQueued(r)
  PROVE  ViewStep
<1>1. /\ r \in Queued /\ UNCHANGED trigger
      /\ status' = Update(status, r, "cancelled") /\ status \in [RunId -> Status]
  BY DEF CancelQueued, Queued, Inv, TypeOK
<1>2. ServerRun(r) /\ status[r] \in {"queued", "pruned"}
  BY <1>1 DEF Inv, QueueMatchesTable
<1>3. /\ \A q \in RunId : q # r => status'[q] = status[q]
      /\ status'[r] = (IF status[r] = "pruned" THEN "pruned" ELSE "cancelled")
  <2>1. "cancelled" \in Status
    BY DEF Status, Ended
  <2>2. QED
    BY <1>1, <2>1, UpdateEffect
<1>4. status'[r] = status[r] \/ <<status[r], status'[r]>> \in AbstractRuns!Moves
  BY <1>2, <1>3, MovesFacts
<1>5. status'[r] # "running"
  BY <1>3
<1>6. QED
  BY <1>1, <1>2, <1>3, <1>4, <1>5, OneRowView

LEMMA StartView ==
  ASSUME Inv, Start
  PROVE  ViewStep
<1>1. UNCHANGED trigger /\ status' = Reconciled(status) /\ status \in [RunId -> Status]
  BY DEF Start, Inv, TypeOK
<1>2. \A q \in RunId : status'[q] =
        (IF status[q] \in {"running", "queued"} THEN "failed" ELSE status[q])
  BY <1>1, ReconciledEffect
<1>3. SUFFICES ASSUME NEW r \in RunId
               PROVE  RowMove(r) /\ ~RowBegins(r)
  BY DEF ViewStep
<1>4. /\ View[r] = (IF ServerRun(r) THEN status[r] ELSE "absent")
      /\ View'[r] = (IF ServerRun(r) THEN status'[r] ELSE "absent")
  BY <1>1, ViewAt DEF ServerRun
<1>5. QED
  BY <1>2, <1>4, MovesFacts DEF RowMove, RowBegins

\* Rows of CLI runs are not part of the view, but their retention pass is.
LEMMA CliView ==
  ASSUME Inv, NEW r \in RunId, trigger'[r] = "cli",
         trigger[r] \in {"none", "cli"},
         \A q \in RunId : q # r =>
           /\ trigger'[q] = trigger[q]
           /\ \/ status'[q] = status[q]
              \/ status'[q] = "pruned" /\ status[q] # "absent"
  PROVE  ViewStep
<1>1. \A q \in RunId : q # r => RowMove(q) /\ ~RowBegins(q)
  BY KeptRow
<1>2. View[r] = "absent" /\ View'[r] = "absent"
  BY ViewAt DEF ServerRun
<1>3. QED
  BY <1>1, <1>2 DEF ViewStep, RowMove, RowBegins

LEMMA CliFinishView ==
  ASSUME Inv, NEW r \in RunId, CliFinish(r)
  PROVE  ViewStep
<1>1. PICK s \in {"success", "failed"} : status' \in Retained(Update(status, r, s))
  BY DEF CliFinish, Retained
<1> DEFINE st == Update(status, r, s)
<1>2. trigger' = trigger /\ trigger[r] = "cli" /\ status \in [RunId -> Status]
  BY DEF CliFinish, Inv, CliInv, TypeOK
<1>3. /\ st \in [RunId -> Status]
      /\ \A q \in RunId : q # r => st[q] = status[q]
  <2>1. s \in Status
    BY DEF Status, Ended
  <2>2. QED
    BY <1>2, <2>1, UpdateEffect
<1>4. \A q \in RunId :
        \/ status'[q] = st[q]
        \/ status'[q] = "pruned" /\ st[q] # "absent"
  BY <1>1, <1>3, RetainedEffect
<1>5. QED
  BY <1>2, <1>3, <1>4, CliView

LEMMA StepView ==
  ASSUME Inv, [Next]_vars
  PROVE  ViewStep
<1>1. CASE Enqueue
  <2>1. up /\ up' /\ Admit("manual") /\ "manual" \in Trigger \ {"none", "cli"}
    BY <1>1 DEF Enqueue, Idle, Trigger
  <2>2. QED
    BY <2>1, AdmitView
<1>2. ASSUME NEW s \in Schedules, TickSchedule(s)
      PROVE  ViewStep
  <2>1. up /\ up' /\ Admit(s) /\ s \in Trigger \ {"none", "cli"}
    BY <1>2, JobRunnerAssumption DEF TickSchedule, Trigger
  <2>2. QED
    BY <2>1, AdmitView
<1>3. CASE Drain
  BY <1>3, DrainView
<1>4. CASE Finish
  BY <1>4, FinishView
<1>5. ASSUME NEW r \in RunId, CancelQueued(r)
      PROVE  ViewStep
  BY <1>5, CancelQueuedView
<1>6. CASE Start
  BY <1>6, StartView
<1>7. CASE CliCreate
  <2> DEFINE id == lastId + 1
  <2>1. /\ lastId \in Nat /\ id \in RunId /\ status \in [RunId -> Status]
        /\ trigger \in [RunId -> Trigger]
    BY <1>7, JobRunnerAssumption DEF Inv, TypeOK, CliCreate, RunId
  <2>2. /\ status' = [status EXCEPT ![id] = "queued"]
        /\ trigger' = [trigger EXCEPT ![id] = "cli"]
    BY <1>7 DEF CliCreate, Created
  <2>3. trigger[id] = "none"
    BY <2>1 DEF Inv, IdsInv
  <2>4. QED
    BY <2>1, <2>2, <2>3, CliView
<1>8. ASSUME NEW r \in RunId, CliMark(r)
      PROVE  ViewStep
  <2>1. /\ trigger' = trigger /\ trigger[r] = "cli" /\ status \in [RunId -> Status]
        /\ status' = Update(status, r, "running")
    BY <1>8 DEF CliMark, Inv, CliInv, TypeOK
  <2>2. \A q \in RunId : q # r => status'[q] = status[q]
    <3>1. "running" \in Status
      BY DEF Status
    <3>2. QED
      BY <2>1, <3>1, UpdateEffect
  <2>3. QED
    BY <2>1, <2>2, CliView
<1>9. ASSUME NEW r \in RunId, CliFinish(r)
      PROVE  ViewStep
  BY <1>9, CliFinishView
<1>10. CASE UNCHANGED <<status, trigger>>
  BY <1>10, KeptRows
<1>11. ASSUME NEW r \in RunId, CancelActive(r) \/ CliAbandon(r)
       PROVE  UNCHANGED <<status, trigger>>
  BY <1>11 DEF CancelActive, CliAbandon, durable
<1>12. ASSUME NEW s \in Schedules, EditSchedule(s) \/ Elapse(s) \/ TickFails(s)
       PROVE  UNCHANGED <<status, trigger>>
  BY <1>12 DEF EditSchedule, Elapse, TickFails
<1>13. CASE \/ Tick \/ Crash \/ OrphanedLogLine \/ Stop \/ ExitTimedOut \/ ExitDrained
            \/ UNCHANGED vars
  <2>1. UNCHANGED <<status, trigger>>
    BY <1>13 DEF Tick, Crash, OrphanedLogLine, Stop, ExitTimedOut, ExitDrained, Exit,
                 Down, durable, vars
  <2>2. QED
    BY <2>1, <1>10
<1>14. QED
  BY <1>1, <1>2, <1>3, <1>4, <1>5, <1>6, <1>7, <1>8, <1>9, <1>10, <1>11, <1>12, <1>13
     DEF Next

\* In the state a step leads to, a run that step began is the active one, and
\* every run still waiting was accepted after it.
LEMMA BegunIsActive ==
  ASSUME Inv, Inv', ViewStep, NEW r \in RunId, RowBegins(r)
  PROVE  /\ r = active'
         /\ \A q \in RunId : View'[q] = "queued" => r < q
         /\ \A q \in RunId : View[q] # "running"
<1>1. up /\ up' /\ active = NoRun
  BY DEF ViewStep
<1>2. ServerRun(r)' /\ status'[r] = "running"
  BY ViewAt DEF RowBegins
<1>3. r = active' /\ r # NoRun
  BY <1>1, <1>2 DEF Inv, SerialExecution, RunId, NoRun
<1>4. ASSUME NEW q \in RunId, View'[q] = "queued"
      PROVE  r < q
  <2>1. ServerRun(q)' /\ status'[q] = "queued"
    BY <1>4, ViewAt
  <2>2. q \in Queued'
    BY <1>1, <2>1 DEF Inv, QueueMatchesTable
  <2>3. QED
    BY <1>3, <2>2 DEF Inv, QueueInOrder, Queued
<1>5. ASSUME NEW q \in RunId, View[q] = "running"
      PROVE  FALSE
  <2>1. ServerRun(q) /\ status[q] = "running"
    BY <1>5, ViewAt
  <2>2. QED
    BY <1>1, <2>1 DEF Inv, SerialExecution, RunId, NoRun
<1>6. QED
  BY <1>3, <1>4, <1>5

\* The runs table implements the abstract serial queue.
THEOREM Refinement == Spec => Abstract
<1>1. Init => AbstractRuns!Init
  BY DEF Init, AbstractRuns!Init, AbstractRuns!RunId, RunId, View, ServerRun
<1>2. Inv /\ Inv' /\ [Next]_vars => [AbstractRuns!Next]_View
  <2> SUFFICES ASSUME Inv, Inv', [Next]_vars
               PROVE  AbstractRuns!Next
    OBVIOUS
  <2>1. ViewStep
    BY StepView
  <2>2. AbstractRuns!RunId = RunId
    BY DEF AbstractRuns!RunId, RunId
  <2>3. View' \in [RunId -> Status]
    BY DEF View, Inv, TypeOK, Status
  <2>4. AbstractRuns!Begun = {r \in RunId : RowBegins(r)}
    BY <2>2 DEF AbstractRuns!Begun, RowBegins
  <2>5. AbstractRuns!OneAtATime
    BY <2>1, <2>2, <2>4, BegunIsActive DEF AbstractRuns!OneAtATime, AbstractRuns!Executing
  <2>6. AbstractRuns!InOrder
    BY <2>1, <2>2, <2>4, BegunIsActive DEF AbstractRuns!InOrder, AbstractRuns!Waiting
  <2>7. \A r \in RunId : RowMove(r)
    BY <2>1 DEF ViewStep
  <2>8. QED
    BY <2>2, <2>3, <2>5, <2>6, <2>7
       DEF AbstractRuns!Next, AbstractRuns!Waiting, AbstractRuns!Ended, RowMove, Status, Ended
<1>3. QED
  BY <1>1, <1>2, Invariance, PTL DEF Spec, Abstract, AbstractRuns!Spec
--------------------------------------------------------------------------------
(***************************************************************************)
(* The stop.  Only a run's end, Finish, takes the active run away from a   *)
(* server that lives on: a new run joins the queue while one is active,    *)
(* and the loop picks the next one up when none is.                        *)
(***************************************************************************)
\* A step that takes the active run away is its end, or the server's.
LEMMA OnlyFinishReleases ==
  ASSUME Inv, [Next]_vars, active # NoRun, active' # active, up'
  PROVE  Finish
<1>1. draining
  BY DEF Inv, ActiveInv
<1>2. ASSUME NEW t, Admit(t)
      PROVE  active' = active
  BY <1>1, <1>2 DEF Admit, AdmitIf
<1>3. ~Enqueue /\ \A s \in Schedules : ~TickSchedule(s)
  BY <1>2 DEF Enqueue, TickSchedule
<1>4. \A r \in RunId : ~CancelQueued(r) /\ ~CancelActive(r)
  BY DEF CancelQueued, CancelActive
<1>5. \A s \in Schedules : ~EditSchedule(s) /\ ~Elapse(s) /\ ~TickFails(s)
  BY DEF EditSchedule, Elapse, TickFails, runner
<1>6. ~Drain /\ ~Tick /\ ~Start /\ ~Stop
  BY DEF Drain, Tick, Start, Stop, runner
<1>7. ~Crash /\ ~OrphanedLogLine /\ ~ExitTimedOut /\ ~ExitDrained
  BY DEF Crash, OrphanedLogLine, ExitTimedOut, ExitDrained, Exit, Down
<1>8. ~CliCreate /\ \A r \in RunId : ~CliMark(r) /\ ~CliFinish(r) /\ ~CliAbandon(r)
  BY DEF CliCreate, CliMark, CliFinish, CliAbandon, runner
<1>9. QED
  BY <1>3, <1>4, <1>5, <1>6, <1>7, <1>8 DEF Next, vars

\* The end of a run that was asked to stop is recorded as a cancellation,
\* unless retention took its row.
LEMMA StoppedEnd ==
  ASSUME Inv, Finish, aborted, active # NoRun
  PROVE  status'[active] \in {"cancelled", "pruned"}
<1> DEFINE ended == Update(status, active, "cancelled")
<1>1. active \in RunId /\ status \in [RunId -> Status] /\ "cancelled" \in Status
  BY DEF Inv, TypeOK, Status, Ended
<1>2. ended \in [RunId -> Status] /\ ended[active] \in {"cancelled", "pruned"}
  BY <1>1, UpdateEffect
<1>3. status' \in Retained(ended)
  BY DEF Finish, FinishAs
<1> HIDE DEF ended
<1>4. QED
  BY <1>1, <1>2, <1>3, RetainedEffect

\* A run that was asked to stop is never recorded as a success or a failure
\* by a server that lives to record its end (the ways execute ends, core/jobs.ts).
THEOREM StopIsHonouredHolds == Spec => StopIsHonoured
<1>1. Inv /\ [Next]_vars =>
        [aborted /\ active # NoRun /\ active' # active /\ up'
           => status'[active] \in {"cancelled", "pruned"}]_vars
  BY OnlyFinishReleases, StoppedEnd
<1>2. QED
  BY <1>1, Invariance, PTL DEF Spec, StopIsHonoured
--------------------------------------------------------------------------------
(***************************************************************************)
(* The schedules.  Four actions change a mark, and of these only a round   *)
(* of the tick may take it away without an edit or a failure: it hands out *)
(* an id that no schedule had.                                             *)
(***************************************************************************)
\* A run made for a schedule is one it did not have.
LEMMA RoundMakesRun ==
  ASSUME Inv, NEW s \in Schedules, TickSchedule(s)
  PROVE  RunsOf(s)' # RunsOf(s)
<1>1. /\ lastId + 1 \in RunId /\ trigger[lastId + 1] = "none"
      /\ trigger' = [trigger EXCEPT ![lastId + 1] = s]
  BY JobRunnerAssumption DEF TickSchedule, Admit, AdmitIf, Inv, IdsInv, TypeOK, RunId
<1>2. s # "none"
  BY JobRunnerAssumption
<1>3. lastId + 1 \in RunsOf(s)' /\ lastId + 1 \notin RunsOf(s)
  BY <1>1, <1>2 DEF RunsOf, Inv, TypeOK
<1>4. QED
  BY <1>3

\* Who takes a mark away.
LEMMA MarkGoes ==
  ASSUME Inv, [Next]_vars, NEW s \in Schedules, due[s], ~due'[s]
  PROVE  EditSchedule(s) \/ TickSchedule(s) \/ \E t \in Schedules : TickFails(t)
<1>1. due' # due
  OBVIOUS
<1>2. ASSUME NEW t \in Schedules, EditSchedule(t) \/ TickSchedule(t)
      PROVE  t = s
  BY <1>2 DEF EditSchedule, TickSchedule, Inv, TypeOK
<1>3. ASSUME NEW t \in Schedules
      PROVE  ~Elapse(t)
  BY DEF Elapse, Inv, TypeOK
<1>4. ~Enqueue /\ ~Drain /\ ~Finish /\ \A r \in RunId : ~CancelQueued(r) /\ ~CancelActive(r)
  BY <1>1 DEF Enqueue, Drain, Finish, FinishAs, CancelQueued, CancelActive, durable
<1>5. ~Tick /\ ~Start /\ ~Crash /\ ~OrphanedLogLine /\ ~Stop /\ ~ExitTimedOut /\ ~ExitDrained
  BY <1>1 DEF Tick, Start, Crash, OrphanedLogLine, Stop, ExitTimedOut, ExitDrained, Exit,
              Down, durable
<1>6. ~CliCreate /\ \A r \in RunId : ~CliMark(r) /\ ~CliFinish(r) /\ ~CliAbandon(r)
  BY <1>1 DEF CliCreate, CliMark, CliFinish, CliAbandon, durable
<1>7. QED
  BY <1>1, <1>2, <1>3, <1>4, <1>5, <1>6 DEF Next, vars

\* The mark of a schedule goes only for a run, an edit or a failed write, however
\* many schedules a tick serves (tickSchedules, core/jobs.ts).
THEOREM IntervalsHaveRunsHolds == Spec => IntervalsHaveRuns
<1>1. ASSUME NEW t \in Schedules, TickFails(t)
      PROVE  Upset \/ lastId = MaxRuns
  BY <1>1 DEF TickFails
<1>2. Inv /\ [Next]_vars =>
        [\A s \in Schedules :
           due[s] /\ ~due'[s] /\ RunsOf(s)' = RunsOf(s)
             => EditSchedule(s) \/ Upset \/ lastId = MaxRuns]_vars
  BY <1>1, MarkGoes, RoundMakesRun
<1>3. QED
  BY <1>2, Invariance, PTL DEF Spec, IntervalsHaveRuns
================================================================================

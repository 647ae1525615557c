------------------------------ MODULE SerialRuns ------------------------------
(***************************************************************************)
(* What the job runner promises to somebody who reads the runs table and   *)
(* sees nothing else of the server: an abstract serial queue.  The runs    *)
(* the web UI and the scheduler ask for go through a one-way life cycle,   *)
(* one is executed at a time, and they are begun in the order in which     *)
(* they were accepted.  JobRunner.tla implements this with a table, an     *)
(* in-memory array, two flags and a promise; the refinement is checked by  *)
(* TLC (JobRunner!Abstract) and proved in JobRunnerProofs.tla.             *)
(***************************************************************************)
EXTENDS Naturals

CONSTANT MaxRuns   \* bound on the ids the table has handed out

VARIABLE life      \* life[r]: how far the run with id r has come

RunId == 1 .. MaxRuns

Waiting == {"queued"}
Ended == {"success", "failed", "cancelled"}

(***************************************************************************)
(* The moves one run can make between two looks at the table.  A run that  *)
(* has ended is never reopened: all that can still happen to it is that    *)
(* retention forgets it.                                                   *)
(***************************************************************************)
Moves ==
  ({"absent"} \X (Waiting \cup {"running", "failed", "pruned"}))
    \cup (Waiting \X ({"running", "cancelled", "failed", "pruned"}))
    \cup ({"running"} \X (Ended \cup {"pruned"}))
    \cup (Ended \X {"pruned"})

Executing == {r \in RunId : life[r] = "running"}

\* The runs this step starts.
Begun == {r \in RunId : life[r] # "running" /\ life'[r] = "running"}

Init == life = [r \in RunId |-> "absent"]

(***************************************************************************)
(* A run is begun only once nothing else is executing, alone, and before   *)
(* every run accepted after it.                                            *)
(***************************************************************************)
OneAtATime ==
  /\ Begun # {} => Executing = {}
  /\ \A p, q \in Begun : p = q

InOrder ==
  \A r \in Begun, q \in RunId : life'[q] \in Waiting => r < q

Next ==
  /\ life' \in [RunId -> {"absent", "pruned", "running"} \cup Waiting \cup Ended]
  /\ \A r \in RunId : life'[r] = life[r] \/ <<life[r], life'[r]>> \in Moves
  /\ OneAtATime
  /\ InOrder

Spec == Init /\ [][Next]_life
===============================================================================

------------------------------ MODULE MCRunView ---------------------------------
(***************************************************************************)
(* The page of a run with both its parts: two runs, two books, one filter  *)
(* that hides a book; a log of four lines, two to an answer.  The parts   *)
(* share no variable, so a behaviour of both is one of each: a behaviour   *)
(* here follows one of them while the other stands still.                  *)
(***************************************************************************)
EXTENDS RunPage, LogTail

CONSTANTS b1, b2
VARIABLE follows

MCFilters == {Books, {b1}}
viewVars == <<vars, tailVars, follows>>

\* One of the page's first states, for when it stands still.
AnyFirst == at = (CHOOSE r \in Runs : TRUE) /\ net[CHOOSE slot \in Slots : TRUE] # None

ViewInit == /\ Init /\ TailInit
            /\ \/ follows = "report"
               \/ follows = "log" /\ AnyFirst

ViewNext == \/ follows = "report" /\ Next /\ UNCHANGED <<tailVars, follows>>
            \/ follows = "log" /\ TailNext /\ UNCHANGED <<vars, follows>>

ViewSpec == /\ ViewInit /\ [][ViewNext]_viewVars
            /\ follows = "report" => Fairness
            /\ follows = "log" => TailFairness

\* Once the run is over its report comes to be shown on a page left open on it
\* (RunPage!ReportComes, RunDetail.tsx 146-158), when the report is followed.
ReportIsShown == follows = "report" => ReportComes

\* The log comes to be read to its last line (LogTail!TailIsRead, LogStream.tsx
\* 39-41), when the log is followed.
LogIsRead == follows = "log" => TailIsRead
================================================================================

-------------------------------- MODULE LogTail ---------------------------------
(***************************************************************************)
(* The log of one run as a page reads it while it is written: the buffer   *)
(* of the runner and its flushes (core/jobs.ts), the log table             *)
(* (db/logs.ts) and the tail of components/LogStream.tsx.  A poll goes out *)
(* every 1.5 s whether or not the one before it was answered; the server   *)
(* reads when it is sent, and answers arrive late, out of order or never.  *)
(* A line is its id.                                                       *)
(***************************************************************************)
EXTENDS Naturals, Sequences, FiniteSets, FiniteSetsExt, SequencesExt, Functions

CONSTANTS
  Limit,       \* lines one poll may bring (1000)
  MaxLines,    \* bound: lines the run says
  MaxInFlight, \* bound: polls on their way at once
  MaxUpsets    \* bound: polls lost, pages torn down and put up again

ASSUME LogTailAssumption ==
  Limit \in Nat \ {0} /\ MaxLines \in Nat /\ MaxInFlight \in Nat \ {0} /\ MaxUpsets \in Nat

VARIABLES
  status,   \* the run's
  buffer,   \* lines said and not yet in the table
  logs,     \* lines in the table: 1 .. logs
  live,     \* what the page believes: the run is still going
  news,     \* answers on their way about that, and whether they say so
  stream,   \* the page's tail
  polls,    \* polls on their way, in the order they were sent
  skipped,  \* history: lines an answer left out for its limit
  upsets

tailVars == <<status, buffer, logs, live, news, stream, polls, skipped, upsets>>

Fresh == [shown |-> <<>>, lastId |-> 0, error |-> FALSE]

TailTypeOK ==
  /\ status \in {"queued", "running", "over"}
  /\ buffer + logs \in 0 .. MaxLines
  /\ live \in BOOLEAN /\ news \subseteq BOOLEAN
  /\ stream.shown \in Seq(1 .. logs) /\ stream.lastId \in 0 .. logs /\ stream.error \in BOOLEAN
  /\ Len(polls) <= MaxInFlight
  /\ \A k \in DOMAIN polls : polls[k].after \in 0 .. logs /\ polls[k].lines \in Seq(1 .. logs)
  /\ skipped \subseteq 1 .. logs
  /\ upsets \in 0 .. MaxUpsets

--------------------------------------------------------------------------------
(***************************************************************************)
(* The run.                                                                *)
(***************************************************************************)
Begin == /\ status = "queued"
         /\ status' = "running"
         /\ UNCHANGED <<buffer, logs, live, news, stream, polls, skipped, upsets>>

Say == /\ status = "running" /\ buffer + logs < MaxLines
       /\ buffer' = buffer + 1
       /\ UNCHANGED <<status, logs, live, news, stream, polls, skipped, upsets>>

Flush == /\ status = "running" /\ buffer > 0
         /\ logs' = logs + buffer /\ buffer' = 0
         /\ UNCHANGED <<status, live, news, stream, polls, skipped, upsets>>

\* What is left is flushed before the run is over, in one go.  Workers left over
\* when one of them threw (http.ts 140) may speak after it, to a buffer that nobody
\* flushes: such lines reach no table and are no part of the log here.
Finish == /\ status = "running"
          /\ status' = "over"
          /\ logs' = logs + buffer /\ buffer' = 0
          /\ UNCHANGED <<live, news, stream, polls, skipped, upsets>>

--------------------------------------------------------------------------------
(***************************************************************************)
(* The page.                                                               *)
(***************************************************************************)
\* listLogs: of the lines after this one the newest, oldest of them first.
List(after) ==
  LET n == Min({Limit, logs - after})
  IN [after |-> after, lines |-> [k \in 1 .. n |-> (logs - n) + k]]

\* The timer's poll, which does not wait for the one before it.
Poll == /\ live /\ Len(polls) < MaxInFlight
        /\ polls' = Append(polls, List(stream.lastId))
        /\ UNCHANGED <<status, buffer, logs, live, news, stream, skipped, upsets>>

Without(k) == RemoveAt(polls, k)

Arrive(k) ==
  LET lines == polls[k].lines IN
  /\ polls' = Without(k)
  /\ stream' = IF lines = <<>> THEN stream
               ELSE [shown |-> stream.shown \o lines, lastId |-> Last(lines), error |-> FALSE]
  /\ skipped' = IF lines = <<>> THEN skipped ELSE skipped \cup (polls[k].after + 1 .. lines[1] - 1)
  /\ UNCHANGED <<status, buffer, logs, live, news, upsets>>

Lost(k) == /\ upsets < MaxUpsets /\ upsets' = upsets + 1
           /\ polls' = Without(k)
           /\ stream' = [stream EXCEPT !.error = TRUE]
           /\ UNCHANGED <<status, buffer, logs, live, news, skipped>>

\* The page asks how the run is, and is told, perhaps late.
Ask == /\ news' = news \cup {status # "over"}
       /\ news' # news
       /\ UNCHANGED <<status, buffer, logs, live, stream, polls, skipped, upsets>>

\* A faulty variant for mutation: the end of the run starts no last poll.
LearnAndRest(going) == /\ going \in news /\ news' = news \ {going}
                       /\ live' = going
                       /\ polls' = IF going = live THEN polls ELSE <<>>
                       /\ UNCHANGED <<status, buffer, logs, stream, skipped, upsets>>

\* When that changes, the polls on their way are disowned and one goes out at once.
Learn(going) == /\ going \in news /\ news' = news \ {going}
                /\ live' = going
                /\ polls' = IF going = live THEN polls ELSE <<List(stream.lastId)>>
                /\ UNCHANGED <<status, buffer, logs, stream, skipped, upsets>>

\* A faulty variant for mutation: the lines go and the place is kept.
RemountKeepsPlace == /\ upsets < MaxUpsets /\ upsets' = upsets + 1
                     /\ stream' = [Fresh EXCEPT !.lastId = stream.lastId]
                     /\ polls' = <<List(stream.lastId)>>
                     /\ skipped' = {}
                     /\ UNCHANGED <<status, buffer, logs, live, news>>

\* The page reloads its run, or fails to, and puts the log up again.
Remount == /\ upsets < MaxUpsets /\ upsets' = upsets + 1
           /\ stream' = Fresh
           /\ polls' = <<List(0)>>
           /\ skipped' = {}
           /\ UNCHANGED <<status, buffer, logs, live, news>>

TailInit == /\ status = "queued" /\ buffer = 0 /\ logs = 0
            /\ live = TRUE /\ news = {}
            /\ stream = Fresh /\ polls = <<List(0)>>
            /\ skipped = {} /\ upsets = 0

TailNext == \/ Begin \/ Say \/ Flush \/ Finish \/ Poll \/ Ask \/ Remount
            \/ \E k \in DOMAIN polls : Arrive(k)
            \/ \E k \in DOMAIN polls : Lost(k)
            \/ \E going \in BOOLEAN : Learn(going)

\* The queue moves on, a task ends, an answer that is not lost arrives, and
\* the page keeps asking how its run is (every 2 s, also once it is over).
TailFairness == /\ WF_tailVars(Begin) /\ WF_tailVars(Finish)
                /\ WF_tailVars(Ask)
                /\ \A going \in BOOLEAN : WF_tailVars(Learn(going))
                /\ WF_tailVars(polls # <<>> /\ Arrive(1))

TailSpec == TailInit /\ [][TailNext]_tailVars /\ TailFairness

--------------------------------------------------------------------------------
\* Every line up to the last one seen is on the page, except those an answer
\* left out for its limit (LogStream.tsx 19-32): being torn down, an answer out
\* of order and a poll lost leave no hole.
NoHole == \A line \in 1 .. stream.lastId : line \in Range(stream.shown) \cup skipped

\* A page left open on a run ends at the last line the run said before it was
\* over, however late its last answers were, or says that a request failed
\* (LogStream.tsx 39-41, jobs.ts 194-225).
TailIsRead ==
  <>[](status = "over" /\ (stream.error \/ (buffer = 0 /\ logs \in Range(stream.shown) \cup {0})))

\* "Only entries newer than the last seen id are fetched" (LogStream.tsx 8): no
\* line is on the page twice.
NoLineTwice == IsInjective(stream.shown)
================================================================================

-------------------------------- MODULE RunPage ---------------------------------
(***************************************************************************)
(* The page of a run (web/src/pages/RunDetail.tsx) on its polling hook     *)
(* (web/src/lib.tsx, useAsync), over the calls it makes (web/api.ts): it   *)
(* follows a run, shows the report once there is one, lets people tick     *)
(* books and apply them as a new run, and stops a run.  The server reads   *)
(* or acts when a request is sent; answers arrive late and out of order,   *)
(* or are lost with the act done.                                          *)
(*                                                                         *)
(* An answer whose effect was cleaned up is disowned: it is dropped from   *)
(* the network at once, and so is the answer to a Stop with its page.  The *)
(* answer to an apply is never disowned.                                   *)
(***************************************************************************)
EXTENDS Naturals, FiniteSets

CONSTANTS
  Runs,      \* run ids
  Books,
  Filters,   \* what a filter of the report may leave on the screen
  Away,      \* any other page
  None,
  Slots,     \* bound: requests on their way at once
  MaxClicks, \* bound: what people do
  MaxLost    \* bound: answers lost

ASSUME RunPageAssumption ==
  /\ None \notin Runs /\ Away \notin Runs
  /\ Filters \subseteq SUBSET Books /\ Books \in Filters
  /\ MaxClicks \in Nat /\ MaxLost \in Nat

VARIABLES
  runs,      \* the server: each run
  at,        \* the page people look at
  hook,      \* useAsync of the run
  stopping,  \* "Stopping...": the Stop button is disabled
  panel,     \* RunItemsPanel
  net,       \* requests on their way, by slot
  stopAsked, \* history: runs somebody pressed Stop for
  onScreen,  \* history: books that were on the screen, with something to apply, by run
  clicks, lost

vars == <<runs, at, hook, stopping, panel, net, stopAsked, onScreen, clicks, lost>>
server == <<runs>>
history == <<stopAsked, onScreen>>

Unborn == [status |-> "none", rows |-> {}, waiting |-> {}, source |-> None, items |-> {}]
Run == [status : {"none", "queued", "running", "over"}, rows : SUBSET Books,
        waiting : SUBSET Books, source : Runs \cup {None}, items : SUBSET Books]
Live(run) == run.status \in {"queued", "running"}

\* What the page knows of a run, and what it knows of a report.
Snapshot(r) == [id |-> r, status |-> runs[r].status]
Snapshots == [id : Runs, status : {"queued", "running", "over"}]
NoHook == [data |-> None, error |-> FALSE, loading |-> TRUE]
Report(r, filter) == [rows |-> runs[r].rows \cap filter, waiting |-> runs[r].waiting]
Reports == [rows : SUBSET Books, waiting : SUBSET Books]
NoPanel == [report |-> None, error |-> FALSE, filter |-> Books, picked |-> {},
            confirming |-> None, applying |-> None]

\* The spinner and the error banner take the panels off the page.
Mounted(h) == ~h.loading /\ ~h.error /\ h.data # None

Request == [kind : {"run", "first", "items", "cancel", "apply"},
            reply : Snapshots \cup Reports \cup Runs \cup {None}]
ToSlot(n, slot, kind, reply) == [n EXCEPT ![slot] = [kind |-> kind, reply |-> reply]]
Free(n) == {slot \in Slots : n[slot] = None}
\* Of the answers on their way, those that are disowned go.
Drop(n, kinds) == [slot \in Slots |-> IF n[slot] # None /\ n[slot].kind \in kinds THEN None ELSE n[slot]]

TypeOK ==
  /\ runs \in [Runs -> Run]
  /\ at \in Runs \cup {Away}
  /\ hook \in [data : Snapshots \cup {None}, error : BOOLEAN, loading : BOOLEAN]
  /\ stopping \in BOOLEAN
  /\ panel \in [report : Reports \cup {None}, error : BOOLEAN, filter : Filters,
                picked : SUBSET Books,
                confirming : [all : BOOLEAN, items : SUBSET Books] \cup {None},
                applying : Slots \cup {None}]
  /\ Mounted(hook) \/ panel = NoPanel
  /\ net \in [Slots -> Request \cup {None}]
  /\ stopAsked \subseteq Runs /\ onScreen \in [Runs -> SUBSET Books]
  /\ clicks \in 0 .. MaxClicks /\ lost \in 0 .. MaxLost

--------------------------------------------------------------------------------
(***************************************************************************)
(* The server.                                                             *)
(***************************************************************************)
page == <<at, hook, stopping, panel, net, clicks, lost>>

Start(r) == /\ runs[r].status = "queued" /\ \A q \in Runs : runs[q].status # "running"
            /\ runs' = [runs EXCEPT ![r].status = "running"]
            /\ UNCHANGED <<page, history>>

\* A task writes its report as it ends; what it did not write is waiting.
FinishTask(r) ==
  /\ runs[r].status = "running" /\ runs[r].source = None
  /\ \E waiting \in SUBSET Books :
       runs' = [runs EXCEPT ![r].status = "over", ![r].rows = Books, ![r].waiting = waiting]
  /\ UNCHANGED <<page, history>>

\* A run that applies another's report takes what it carried out off that one.
FinishApply(r) ==
  /\ runs[r].status = "running" /\ runs[r].source # None
  /\ runs' = [runs EXCEPT ![r].status = "over", ![r].rows = runs[r].items,
                          ![runs[r].source].waiting = @ \ runs[r].items]
  /\ UNCHANGED <<page, history>>

--------------------------------------------------------------------------------
(***************************************************************************)
(* The hook: an effect loads once and then on a timer; a new effect        *)
(* disowns what the old one has on its way.                                *)
(***************************************************************************)
\* A faulty variant for mutation: the report does not depend on the status.
ReloadsOnMount(before, after) == ~Mounted(before)

\* A reply's way into the hook may put the panel up, take it down, or tell it
\* that the run's status is another: its own effect then loads the report anew.
Reloads(before, after) ==
  \/ ~Mounted(before)
  \/ before.data # after.data

Settle(h, n) ==
  /\ hook' = h
  /\ IF ~Mounted(h)
     THEN panel' = NoPanel /\ net' = Drop(n, {"items"})
     ELSE IF Reloads(hook, h)
     THEN LET cleared == Drop(n, {"items"}) IN
          /\ panel' = IF Mounted(hook) THEN panel ELSE NoPanel
          /\ \E slot \in Free(cleared) :
               net' = ToSlot(cleared, slot, "items",
                             Report(h.data.id, IF Mounted(hook) THEN panel.filter ELSE Books))
     ELSE panel' = panel /\ net' = n

\* The rows below the chips, once the run is over.
Shows == Mounted(hook) /\ ~Live(hook.data) /\ panel.report # None
Selectable == panel.report.rows \cap panel.report.waiting
NoteScreen ==
  onScreen' = IF Shows' THEN [onScreen EXCEPT ![hook'.data.id] = @ \cup Selectable'] ELSE onScreen

\* The timer's poll.
PollRun == /\ at \in Runs
           /\ \E slot \in Free(net) : net' = ToSlot(net, slot, "run", Snapshot(at))
           /\ UNCHANGED <<server, at, hook, stopping, panel, history, clicks, lost>>

RunArrives(slot) ==
  /\ net[slot] # None /\ net[slot].kind \in {"run", "first"}
  /\ Settle([data |-> net[slot].reply, error |-> FALSE,
             loading |-> hook.loading /\ net[slot].kind # "first"],
            [net EXCEPT ![slot] = None])
  /\ UNCHANGED <<server, at, stopping, stopAsked, clicks, lost>>
  /\ NoteScreen

RunLost(slot) ==
  /\ net[slot] # None /\ net[slot].kind \in {"run", "first"}
  /\ lost < MaxLost /\ lost' = lost + 1
  /\ Settle([hook EXCEPT !.error = TRUE, !.loading = @ /\ net[slot].kind # "first"],
            [net EXCEPT ![slot] = None])
  /\ UNCHANGED <<server, at, stopping, history, clicks>>

\* A faulty variant for mutation: the page stays up while the other run loads.
LoadFirstQuiet(r, n) ==
  LET cleared == Drop(n, {"run", "first"}) IN
  /\ UNCHANGED <<hook, panel>>
  /\ \E slot \in Free(cleared) : net' = ToSlot(cleared, slot, "first", Snapshot(r))

\* A new effect: the spinner, and a first load of the run.
LoadFirst(r, n) ==
  LET cleared == Drop(n, {"run", "first", "items"}) IN
  /\ hook' = [hook EXCEPT !.loading = TRUE]
  /\ panel' = NoPanel
  /\ \E slot \in Free(cleared) : net' = ToSlot(cleared, slot, "first", Snapshot(r))

ItemsArrive(slot) ==
  /\ net[slot] # None /\ net[slot].kind = "items"
  /\ panel' = [panel EXCEPT !.report = net[slot].reply, !.error = FALSE]
  /\ net' = [net EXCEPT ![slot] = None]
  /\ UNCHANGED <<server, at, hook, stopping, stopAsked, clicks, lost>>
  /\ NoteScreen

ItemsLost(slot) ==
  /\ net[slot] # None /\ net[slot].kind = "items"
  /\ lost < MaxLost /\ lost' = lost + 1
  /\ panel' = [panel EXCEPT !.error = TRUE]
  /\ net' = [net EXCEPT ![slot] = None]
  /\ UNCHANGED <<server, at, hook, stopping, history, clicks>>

--------------------------------------------------------------------------------
(***************************************************************************)
(* What people do.                                                         *)
(***************************************************************************)
Click == clicks < MaxClicks /\ clicks' = clicks + 1

\* Another page, or the page of another run: the same component.
GoTo(where, n) ==
  /\ at' = where
  /\ IF where = Away
     THEN /\ hook' = NoHook /\ stopping' = FALSE /\ panel' = NoPanel
          /\ net' = Drop(n, {"run", "first", "items", "cancel"})
     ELSE /\ LoadFirst(where, n)
          /\ stopping' = IF at = Away THEN FALSE ELSE stopping

Navigate(where) ==
  /\ Click /\ where # at
  /\ where \in Runs => runs[where].status # "none"
  /\ GoTo(where, net)
  /\ UNCHANGED <<server, history, lost>>

Filter(filter) ==
  /\ Click /\ Shows /\ filter # panel.filter
  /\ panel' = [panel EXCEPT !.filter = filter]
  /\ LET cleared == Drop(net, {"items"}) IN
       \E slot \in Free(cleared) :
         net' = ToSlot(cleared, slot, "items", Report(hook.data.id, filter))
  /\ UNCHANGED <<server, at, hook, stopping, history, lost>>

Editing == /\ Shows /\ panel.report.waiting # {}
           /\ UNCHANGED <<server, at, hook, stopping, net, history, lost>>

Toggle(b) ==
  /\ Click /\ Editing /\ b \in Selectable
  /\ panel' = [panel EXCEPT !.picked = IF b \in @ THEN @ \ {b} ELSE @ \cup {b}]

ToggleAll ==
  /\ Click /\ Editing /\ Selectable # {}
  /\ panel' = [panel EXCEPT !.picked = IF Selectable \subseteq @ THEN @ \ Selectable
                                       ELSE @ \cup Selectable]

ClearPicked == /\ Click /\ Editing /\ panel.confirming = None /\ panel.picked # {}
               /\ panel' = [panel EXCEPT !.picked = {}]

\* The sentence between the click and the apply; it keeps the list it was given.
Confirm(all) ==
  /\ Click /\ Editing /\ panel.confirming = None
  /\ all \/ panel.picked # {}
  /\ panel' = [panel EXCEPT !.confirming =
                 [all |-> all, items |-> IF all THEN {} ELSE panel.picked]]

CancelConfirm == /\ Click /\ Editing /\ panel.confirming # None /\ panel.applying = None
                 /\ panel' = [panel EXCEPT !.confirming = None]

\* The server makes a run of it, or refuses a report with nothing waiting.
Apply ==
  /\ Click /\ Shows /\ panel.confirming # None /\ panel.applying = None
  /\ panel.report.waiting # {}
  /\ LET src == hook.data.id
         items == IF panel.confirming.all THEN runs[src].waiting ELSE panel.confirming.items
     IN \E slot \in Free(net) :
          /\ panel' = [panel EXCEPT !.applying = slot]
          /\ IF runs[src].waiting = {}
             THEN /\ net' = ToSlot(net, slot, "apply", None)
                  /\ UNCHANGED runs
             ELSE \E r \in Runs :
                    /\ runs[r].status = "none"
                    /\ runs' = [runs EXCEPT ![r] = [Unborn EXCEPT !.status = "queued",
                                  !.source = src, !.items = items]]
                    /\ net' = ToSlot(net, slot, "apply", r)
  /\ UNCHANGED <<at, hook, stopping, history, lost>>

\* A refusal is said on the panel that asked, if it is still up.
Refused(slot, n) ==
  /\ panel' = IF panel.applying = slot
              THEN [panel EXCEPT !.applying = None, !.confirming = None] ELSE panel
  /\ net' = n

\* The page goes to the new run, wherever people have gone in the meantime.
ApplyAnswers(slot) ==
  /\ net[slot] # None /\ net[slot].kind = "apply"
  /\ LET n == [net EXCEPT ![slot] = None] IN
     IF net[slot].reply \in Runs \ {at} THEN GoTo(net[slot].reply, n)
     ELSE Refused(slot, n) /\ UNCHANGED <<at, hook, stopping>>
  /\ UNCHANGED <<server, history, clicks, lost>>

ApplyLost(slot) ==
  /\ net[slot] # None /\ net[slot].kind = "apply"
  /\ lost < MaxLost /\ lost' = lost + 1
  /\ Refused(slot, [net EXCEPT ![slot] = None])
  /\ UNCHANGED <<server, at, hook, stopping, history, clicks>>

\* A queued run is over at once; a running one ends in its own time.
Stop ==
  /\ Click /\ Mounted(hook) /\ Live(hook.data) /\ ~stopping
  /\ LET r == hook.data.id IN
     /\ stopping' = TRUE
     /\ stopAsked' = stopAsked \cup {r}
     /\ runs' = IF runs[r].status = "queued" THEN [runs EXCEPT ![r].status = "over"] ELSE runs
     /\ \E slot \in Free(net) :
          net' = ToSlot(net, slot, "cancel", IF Live(runs[r]) THEN r ELSE None)
  /\ UNCHANGED <<at, hook, panel, onScreen, lost>>

\* Answered or not, the page reloads its run; a refusal frees the button.
StopAnswers(slot) ==
  /\ net[slot] # None /\ net[slot].kind = "cancel"
  /\ stopping' = IF net[slot].reply = None THEN FALSE ELSE stopping
  /\ LoadFirst(at, [net EXCEPT ![slot] = None])
  /\ UNCHANGED <<server, at, history, clicks, lost>>

StopLost(slot) ==
  /\ net[slot] # None /\ net[slot].kind = "cancel"
  /\ lost < MaxLost /\ lost' = lost + 1
  /\ stopping' = FALSE
  /\ LoadFirst(at, [net EXCEPT ![slot] = None])
  /\ UNCHANGED <<server, at, history, clicks>>

--------------------------------------------------------------------------------
Init ==
  \E first \in Runs :
    /\ runs = [r \in Runs |-> IF r = first THEN [Unborn EXCEPT !.status = "queued"] ELSE Unborn]
    /\ at = first
    /\ hook = NoHook /\ stopping = FALSE /\ panel = NoPanel
    /\ \E slot \in Slots :
         net = ToSlot([s \in Slots |-> None], slot, "first",
                      [id |-> first, status |-> "queued"])
    /\ stopAsked = {} /\ onScreen = [r \in Runs |-> {}]
    /\ clicks = 0 /\ lost = 0

Arrives(slot) == \/ RunArrives(slot) \/ ItemsArrive(slot)
                 \/ ApplyAnswers(slot) \/ StopAnswers(slot)
Loses(slot) == RunLost(slot) \/ ItemsLost(slot) \/ ApplyLost(slot) \/ StopLost(slot)

Next ==
  \/ \E r \in Runs : Start(r)
  \/ \E r \in Runs : FinishTask(r) \/ FinishApply(r)
  \/ PollRun
  \/ \E slot \in Slots : Arrives(slot)
  \/ \E slot \in Slots : Loses(slot)
  \/ \E where \in Runs \cup {Away} : Navigate(where)
  \/ \E filter \in Filters : Filter(filter)
  \/ \E b \in Books : Toggle(b)
  \/ ToggleAll \/ ClearPicked \/ CancelConfirm \/ Apply \/ Stop
  \/ \E all \in BOOLEAN : Confirm(all)

\* The queue moves on, tasks end, the timer ticks, and an answer that is not
\* lost arrives.  What people do is up to them.
Fairness == /\ \A r \in Runs : WF_vars(Start(r)) /\ WF_vars(FinishTask(r) \/ FinishApply(r))
            /\ WF_vars(PollRun)
            /\ \A slot \in Slots : WF_vars(Arrives(slot))

Spec == Init /\ [][Next]_vars /\ Fairness

--------------------------------------------------------------------------------
\* A run made of ticked books carries only books that were on the screen, with
\* something to apply, in the report of the run it applies: no tick box reaches
\* past the filter, and no selection outlives its report (RunDetail.tsx 138-141,
\* 230-241, 243-254).
OnlyWhatWasSeen ==
  panel.confirming # None /\ ~panel.confirming.all =>
    panel.confirming.items \subseteq onScreen[hook.data.id]

\* A page left open on a run while it goes on comes to show its report once it
\* is over, unless the request for it was lost (RunDetail.tsx 146-158).
ReportComes ==
  \A r \in Runs :
    <>[](at = r) => <>[](/\ Mounted(hook) /\ hook.data = [id |-> r, status |-> "over"]
                         /\ panel.error \/ (panel.report # None
                                            /\ panel.report.rows = runs[r].rows \cap panel.filter))

\* "Stopping - the run finishes the book it is on and then stops"
\* (RunDetail.tsx 49-54) is said of a run somebody pressed Stop for.
StoppingIsOfThisRun ==
  stopping /\ Mounted(hook) /\ hook.data.status = "running" => hook.data.id \in stopAsked
================================================================================

------------------------------ MODULE TaskBoard ------------------------------
(* The task pages of App (App.tsx): the copy of the service's lists that the *)
(* page shows, the handlers that turn clicks into requests, and the dialog,  *)
(* the drag and the choice for deletion they work on.  A handler is an async *)
(* function: between its requests the lists and the page go on changing.     *)
EXTENDS Naturals, FiniteSets, SequencesExt

CONSTANTS Task, None,
          Starts,       \* <<w, r, n>>: the tasks that wait in the normal queue and those that run
                        \* at first, and how many of MaxClicks are left out of such a run
          MaxClicks,    \* bound: handlers started
          MaxBusy,      \* bound: handlers under way and answers of refreshes not yet applied
          MaxChanges    \* bound: steps the scheduler takes by itself

ASSUME BoardBounds == MaxClicks \in Nat /\ MaxBusy \in Nat /\ MaxChanges \in Nat
ASSUME NoneIsNoTask == None \notin Task
ASSUME StartsAreLists ==
    \A s \in Starts : \A i \in {1, 2} : s[i] \in Seq(Task) /\ IsInjective(s[i])

VARIABLES
    lists, unused,  \* the service: its lists, and the ids not handed out yet
    page,           \* the lists that the page shows, as some refresh brought them
    answers,        \* of refreshAll, not applied yet: the lists of some moment each
    tab, dialog, drag, batch, selected,
    calls,          \* the handlers under way
    clicks, changes \* how many of the bounds are used up

service == <<lists, unused, changes>>
controls == <<tab, dialog, drag, batch, selected>>
boardVars == <<service, page, answers, controls, calls, clicks>>

Queue == {"urgent", "normal", "staged"}
List == Queue \cup {"running", "history"}
Tab == {"dashboard", "queue", "history"}

Closed == [open |-> FALSE, task |-> None, editing |-> FALSE, listed |-> "none"]
NotDragged == [task |-> None, over |-> None, position |-> "before"]
NotChoosing == [on |-> FALSE, chosen |-> {}]
NothingListed == [l \in List |-> <<>>]

BoardInit ==
    /\ \E s \in Starts :
         /\ lists = [NothingListed EXCEPT !["normal"] = s[1], !["running"] = s[2]]
         /\ unused = Task \ ToSet(s[1] \o s[2])
         /\ clicks = s[3]
    /\ page = NothingListed
    /\ answers = {}
    /\ tab = "dashboard" /\ dialog = Closed /\ drag = NotDragged /\ batch = NotChoosing
    /\ selected = None
    /\ calls = {} /\ changes = 0

In(t, ls, l) == t \in ToSet(ls[l])
WaitsIn(t, ls) == \E q \in Queue : In(t, ls, q)
Listed(t, ls) == \E l \in List : In(t, ls, l)
Without(s, t) == RemoveFirst(s, t)  \* no list has a task twice
Unlisted(ls, t) == [l \in List |-> Without(ls[l], t)]
ToTail(ls, t, q) == [Unlisted(ls, t) EXCEPT ![q] = Append(@, t)]
ToHead(ls, t, q) == [Unlisted(ls, t) EXCEPT ![q] = <<t>> \o @]

-----------------------------------------------------------------------------
(* The service: the lists as GET /api/tasks gives them, changed as QueueStore *)
(* and TaskLifecycle have it.  A stop is only accepted here; that the task    *)
(* ends or returns to a queue is a change of the service's own.               *)

Changed == changes < MaxChanges /\ changes' = changes + 1

Launch(t) ==
    /\ Changed
    /\ \E q \in {"urgent", "normal"} : lists[q] # <<>> /\ t = Head(lists[q])
    /\ lists' = ToTail(lists, t, "running")
    /\ UNCHANGED <<unused, page, answers, controls, calls, clicks>>

Leaves(t) ==
    /\ Changed
    /\ In(t, lists, "running")
    /\ \/ lists' = ToHead(lists, t, "history")
       \/ \E q \in Queue : lists' = ToHead(lists, t, q)
    /\ UNCHANGED <<unused, page, answers, controls, calls, clicks>>

\* What the service asks of a request before it does anything.
Accepts(rq) ==
    \/ rq.op = "create"
    \/ rq.op = "requeue" /\ In(rq.task, lists, "history")
    \/ rq.op \in {"move", "update"} /\ WaitsIn(rq.task, lists)
    \/ rq.op = "reorder" /\ Len(rq.ids) = Len(lists[rq.queue])
                         /\ ToSet(rq.ids) = ToSet(lists[rq.queue])
    \/ rq.op = "delete" /\ Listed(rq.task, lists) /\ ~In(rq.task, lists, "running")
    \/ rq.op = "stop" /\ In(rq.task, lists, "running")
    \/ rq.op = "preempt" /\ In(rq.task, lists, "running") /\ lists["urgent"] # <<>>
    \/ rq.op = "metadata" /\ Listed(rq.task, lists)

Enqueues(rq) == rq.op \in {"create", "requeue"}

\* A new id for what enqueues; a move within its queue leaves the task in its place.
Executed(rq) ==
    /\ \/ /\ Enqueues(rq)
          /\ \E t \in unused :
               /\ unused' = unused \ {t}
               /\ lists' = ToTail(lists, t, rq.queue)
       \/ /\ ~Enqueues(rq) /\ UNCHANGED unused
          /\ lists' = CASE rq.op = "reorder" -> [lists EXCEPT ![rq.queue] = rq.ids]
                        [] rq.op = "delete" -> Unlisted(lists, rq.task)
                        [] rq.op \in {"move", "update"} /\ ~In(rq.task, lists, rq.queue)
                             -> ToTail(lists, rq.task, rq.queue)
                        [] OTHER -> lists

-----------------------------------------------------------------------------
(* Handlers.  A call is a handler that waits for the answers to "sent" (all   *)
(* at once in batchDeleteTasks) and has the requests "next" still to make;    *)
(* when all is well it ends with "success".  The refreshAll a handler ends    *)
(* with is one of those that the timer may start at any time.                 *)

Busy == Cardinality(calls) + Cardinality(answers)

Started(sent, next, success) ==
    /\ clicks < MaxClicks /\ Busy < MaxBusy
    /\ clicks' = clicks + 1
    /\ calls' = calls \cup {[id |-> clicks, sent |-> sent, next |-> next,
                             failed |-> FALSE, success |-> success]}

Request(op, t) == [op |-> op, task |-> t]
RequestTo(op, t, q) == [op |-> op, task |-> t, queue |-> q]
Clicked(rq) == /\ Started({rq}, <<>>, "refresh")
               /\ UNCHANGED <<service, page, answers, controls>>

\* api() throws when the response is not ok.
Serve(c, rq) ==
    /\ rq \in c.sent
    /\ LET answered(ok) == [c EXCEPT !.sent = @ \ {rq}, !.failed = @ \/ ~ok] IN
       \/ /\ Accepts(rq) /\ Executed(rq)
          /\ calls' = (calls \ {c}) \cup {answered(TRUE)}
       \/ /\ ~Accepts(rq) /\ UNCHANGED <<lists, unused>>
          /\ calls' = (calls \ {c}) \cup {answered(FALSE)}
    /\ UNCHANGED <<changes, page, answers, controls, clicks>>

\* Promise.all and catch: the first failure ends the handler, but takes back none of
\* the requests that are still on their way.
CallFails(c) ==
    /\ c.failed /\ c.success # "none"
    /\ calls' = (calls \ {c}) \cup (IF c.sent = {} THEN {} ELSE {[c EXCEPT !.success = "none"]})
    /\ UNCHANGED <<service, page, answers, controls, clicks>>

OrphanEnds(c) ==
    /\ c.success = "none" /\ c.sent = {}
    /\ calls' = calls \ {c}
    /\ UNCHANGED <<service, page, answers, controls, clicks>>

CallProceeds(c) ==
    /\ ~c.failed /\ c.sent = {} /\ c.next # <<>>
    /\ calls' = (calls \ {c}) \cup {[c EXCEPT !.sent = {Head(c.next)}, !.next = Tail(c.next)]}
    /\ UNCHANGED <<service, page, answers, controls, clicks>>

\* closeNewTaskModal.
closeNewTaskModal == dialog' = Closed

CallSucceeds(c) ==
    /\ ~c.failed /\ c.sent = {} /\ c.next = <<>> /\ c.success # "none"
    /\ calls' = calls \ {c}
    /\ \/ c.success = "refresh" /\ UNCHANGED <<dialog, batch>>
       \/ c.success = "close" /\ closeNewTaskModal /\ UNCHANGED batch
       \/ c.success = "unselect" /\ batch' = NotChoosing /\ UNCHANGED dialog
    /\ UNCHANGED <<service, page, answers, tab, drag, selected, clicks>>

-----------------------------------------------------------------------------
(* refreshAll: the effect's first call, the timer, an event or a handler      *)
(* starts it; answers may come in any order.                                  *)

\* When it was asked makes no difference to what the answer brings.
AnswerRefresh ==
    /\ Busy < MaxBusy
    /\ answers' = answers \cup {lists}
    /\ UNCHANGED <<service, page, controls, calls, clicks>>

\* Mutant: the task the page followed stays although it runs no more.
StaysSelected(ls, prev) ==
    IF prev # None /\ Listed(prev, ls) THEN prev
    ELSE IF ls["running"] # <<>> THEN Head(ls["running"])
    ELSE None

\* The updater of selectedTaskId while followRunningTaskRef is set, as it always is:
\* openLogTask alone resets it, and no row calls the onSelectLog it is given.
Followed(ls, prev) ==
    IF prev # None /\ In(prev, ls, "running") THEN prev
    ELSE IF ls["running"] # <<>> THEN Head(ls["running"])
    ELSE IF prev # None /\ Listed(prev, ls) THEN prev
    ELSE None

ApplyRefresh ==
    \E answer \in answers :
       /\ page' = answer
       /\ selected' = Followed(answer, selected)
       /\ answers' = answers \ {answer}
       /\ UNCHANGED <<service, tab, dialog, drag, batch, calls, clicks>>

-----------------------------------------------------------------------------
(* What the user does.  A confirm() stops everything, so it is no step; the   *)
(* dialog and a drag keep the user from the rest of the page.                 *)

Free == ~dialog.open /\ drag = NotDragged
Acts == Free /\ ~batch.on
Control(v) == UNCHANGED <<service, page, answers, calls, clicks, v>>

\* The tasks with a card or a row on the tab, and with the buttons that go with it.
Cards == IF tab = "dashboard" THEN ToSet(page["running"]) ELSE {}
HistoryRows == IF tab = "history" THEN ToSet(page["history"]) ELSE {}
QueueRows(q) == IF tab = "queue" THEN ToSet(page[q]) ELSE {}
Rows == HistoryRows \cup UNION {QueueRows(q) : q \in Queue}

\* Mutant: the choice goes along to the other tab.
SwitchTabChoosing(tb) ==
    /\ Free /\ tb # tab
    /\ tab' = tb
    /\ Control(<<dialog, drag, batch, selected>>)

\* An effect on activeTab ends the choice.
SwitchTab(tb) ==
    /\ Free /\ tb # tab
    /\ tab' = tb /\ batch' = NotChoosing
    /\ Control(<<dialog, drag, selected>>)

SelectCard(t) ==
    /\ Free /\ t \in Cards
    /\ selected' = t
    /\ Control(<<tab, dialog, drag, batch>>)

\* cancelTask, interruptTaskToStaged ("stop") and preemptTask.
ClickOnCard(t) ==
    /\ Free /\ t \in Cards
    /\ \/ Clicked(Request("stop", t))
       \/ page["urgent"] # <<>> /\ Clicked(Request("preempt", t))

ClickOnQueueRow(t) ==
    /\ Acts
    /\ \/ t \in QueueRows("staged") /\ \E q \in {"normal", "urgent"} : Clicked(RequestTo("move", t, q))
       \/ t \in QueueRows("normal") \cup QueueRows("urgent") /\ Clicked(RequestTo("move", t, "staged"))

\* A clone goes to the queue its original was in, which the page does not choose.
ClickOnHistoryRow(t) ==
    /\ Acts /\ t \in HistoryRows
    /\ \E q \in {"normal", "urgent"} : Clicked(RequestTo("requeue", t, q))

DeleteRow(t) == Acts /\ t \in Rows /\ Clicked(Request("delete", t))

-----------------------------------------------------------------------------
(* The dialog for a new task, a copy or an edit.                              *)

openNewTaskModal ==
    /\ Acts
    /\ dialog' = [dialog EXCEPT !.open = TRUE, !.task = None, !.listed = "none"]
    /\ Control(<<tab, drag, batch, selected>>)

\* The draft is the task as the page shows it: its status is the one of now.
OpenFor(t, editing) ==
    /\ Acts /\ t \in Cards \cup Rows
    /\ dialog' = [open |-> TRUE, task |-> t, editing |-> editing,
                  listed |-> IF ~editing THEN "none"
                             ELSE IF WaitsIn(t, page) THEN "waiting" ELSE "started"]
    /\ Control(<<tab, drag, batch, selected>>)
duplicateTask(t) == OpenFor(t, FALSE)
editTask(t) == OpenFor(t, TRUE)

CloseDialog == dialog.open /\ closeNewTaskModal /\ Control(<<tab, drag, batch, selected>>)

isMetadataOnlyTaskEdit == dialog.editing /\ dialog.task # None /\ dialog.listed # "waiting"

\* The button stays enabled while the answer is awaited.
submitTask ==
    /\ dialog.open
    /\ \E q \in Queue :
         Started({IF isMetadataOnlyTaskEdit THEN Request("metadata", dialog.task)
                  ELSE IF dialog.editing /\ dialog.task # None THEN RequestTo("update", dialog.task, q)
                  ELSE [op |-> "create", queue |-> q]}, <<>>, "close")
    /\ UNCHANGED <<service, page, answers, controls>>

-----------------------------------------------------------------------------
(* Dragging a row of the queue tab.                                           *)

handleDragStart(t) ==
    /\ Acts /\ \E q \in Queue : t \in QueueRows(q)
    /\ drag' = [NotDragged EXCEPT !.task = t]
    /\ Control(<<tab, dialog, batch, selected>>)

\* Over the upper or the lower half of a row, or over the ground of a list (None).
handleDragOver(over, position) ==
    /\ drag # NotDragged
    /\ drag' = [drag EXCEPT !.over = over, !.position = position]
    /\ drag' # drag
    /\ Control(<<tab, dialog, batch, selected>>)
DragOver ==
    \/ \E q \in Queue : \E t \in QueueRows(q), p \in {"before", "after"} : handleDragOver(t, p)
    \/ handleDragOver(None, "before")

DragEnd == drag # NotDragged /\ drag' = NotDragged /\ Control(<<tab, dialog, batch, selected>>)

\* Mutant: the dragged task is left in the list it is put into.
ArrangedTwice(shown, t, over, position) ==
    LET i == SelectInSeq(shown, LAMBDA u : u = over) IN
    IF i = 0 THEN Append(shown, t) ELSE InsertAt(shown, IF position = "before" THEN i ELSE i + 1, t)

\* The ids of the list with the dragged one beside the row it was dropped on; last
\* when that row is not in the list.
Arranged(shown, t, over, position) ==
    LET others == Without(shown, t)
        i == SelectInSeq(others, LAMBDA u : u = over)
    IN IF i = 0 THEN Append(others, t)
       ELSE InsertAt(others, IF position = "before" THEN i ELSE i + 1, t)

\* Both requests are made up from the lists shown at the drop; a task that is not
\* shown in the target is moved there first.
handleDrop(q) ==
    /\ drag # NotDragged
    /\ drag' = NotDragged
    /\ LET t == drag.task
           order == [op |-> "reorder", queue |-> q,
                     ids |-> Arranged(page[q], t, drag.over, drag.position)]
       IN CASE ~Listed(t, page) -> UNCHANGED <<calls, clicks>>
            [] In(t, page, q) -> Started({order}, <<>>, "refresh")
            [] OTHER -> Started({RequestTo("move", t, q)}, <<order>>, "refresh")
    /\ UNCHANGED <<service, page, answers, tab, dialog, batch, selected>>

-----------------------------------------------------------------------------
(* Choosing several rows to delete.                                           *)

ToggleBatchMode ==
    /\ Free /\ tab \in {"queue", "history"}
    /\ batch' = [NotChoosing EXCEPT !.on = ~batch.on]
    /\ Control(<<tab, dialog, drag, selected>>)

toggleTaskForBatchDelete(t) ==
    /\ Free /\ batch.on /\ t \in Rows
    /\ batch' = [batch EXCEPT !.chosen = IF t \in @ THEN @ \ {t} ELSE @ \cup {t}]
    /\ Control(<<tab, dialog, drag, selected>>)

\* What is left of the choice: no task that is gone or runs, as far as is shown.
tasksToDelete ==
    {t \in batch.chosen : Listed(t, page) /\ ~In(t, page, "running")}

batchDeleteTasks ==
    /\ Free /\ batch.on /\ tasksToDelete # {}
    /\ Started({Request("delete", t) : t \in tasksToDelete}, <<>>, "unselect")
    /\ UNCHANGED <<service, page, answers, controls>>

-----------------------------------------------------------------------------
Service == \/ \E t \in Task : Launch(t) \/ Leaves(t)
           \/ \E c \in calls : \E rq \in c.sent : Serve(c, rq)
Handlers == \E c \in calls : CallFails(c) \/ OrphanEnds(c) \/ CallProceeds(c) \/ CallSucceeds(c)
Refreshes == AnswerRefresh \/ ApplyRefresh
ClicksOn(t) == \/ SelectCard(t) \/ ClickOnCard(t) \/ ClickOnQueueRow(t) \/ ClickOnHistoryRow(t)
               \/ DeleteRow(t) \/ duplicateTask(t) \/ editTask(t)
               \/ handleDragStart(t) \/ toggleTaskForBatchDelete(t)
User == \/ \E tb \in Tab : SwitchTab(tb)
        \/ \E t \in Task : ClicksOn(t)
        \/ openNewTaskModal \/ CloseDialog \/ submitTask
        \/ DragOver \/ DragEnd \/ \E q \in Queue : handleDrop(q)
        \/ ToggleBatchMode \/ batchDeleteTasks

BoardNext == Service \/ Handlers \/ Refreshes \/ User
BoardSpec == BoardInit /\ [][BoardNext]_boardVars

-----------------------------------------------------------------------------
\* The console of the dashboard shows a task that runs whenever the page shows one
\* that runs, whatever was selected before and in which order the answers come; and
\* it never shows a task that is on no list.
ConsoleShowsARunningTask ==
    /\ page["running"] # <<>> => In(selected, page, "running")
    /\ selected # None => Listed(selected, page)

\* A task that was and will not be again: it waits nowhere and does not run, or it has
\* been deleted.
Ended(t) == t \notin unused /\ ~WaitsIn(t, lists) /\ ~In(t, lists, "running")

\* Every deletion asked for on the history page, by a row's button or for all the tasks
\* chosen, is of a task that has ended at the service, however old the lists shown are
\* and whatever was chosen on the queue page before: clearing the history takes away no
\* work that waits.  (On the queue page it may take away more than is seen: a task chosen
\* there stays chosen when it has run and ended, and its record goes with the others.)
HistoryDeletionsAreOfEndedTasks ==
    [][clicks' # clicks /\ tab = "history" =>
         \A c \in calls' \ calls : \A rq \in c.sent : rq.op = "delete" => Ended(rq.task)]_boardVars

\* A drop asks for the list that was shown with nothing changed but the dragged task,
\* once, on the side of the row it was dropped on; on no other row, at the end.
Ids(s) == ToSet(s)
PlacedBeside(ids, shown, d) ==
    LET at(t) == CHOOSE i \in DOMAIN ids : ids[i] = t IN
    /\ IsInjective(ids)
    /\ Without(ids, d.task) = Without(shown, d.task)
    /\ IF d.over \in Ids(shown) \ {d.task}
       THEN at(d.task) = IF d.position = "before" THEN at(d.over) - 1 ELSE at(d.over) + 1
       ELSE at(d.task) = Len(ids)
DropsLandBesideTheirRow ==
    [][clicks' # clicks =>
         \A c \in calls' \ calls : \A rq \in c.sent \cup ToSet(c.next) :
            rq.op = "reorder" => PlacedBeside(rq.ids, page[rq.queue], drag)]_boardVars
=============================================================================

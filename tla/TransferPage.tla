---------------------------- MODULE TransferPage ----------------------------
(* The transfers on the page (SyncPage, TransferJobCard, TransferHistoryRow    *)
(* and NewTransferModal in App.tsx) over the transfer service: the lists that  *)
(* events and a poll keep up to date, and the form with its route plan.        *)
(* Requests are served when they are made; their answers come later, in any    *)
(* order.  Nodes, keys, links and the log dialog are left out.                 *)
EXTENDS TransferService

CONSTANTS None,
          MaxClicks,      \* bound: clicks
          MaxAnswers      \* bound: requests for the lists at a time

ASSUME NoneIsNoPair == None \notin Ends /\ MaxClicks \in Nat /\ MaxAnswers \in Nat

VARIABLES
    shown,      \* activeJobs and historyJobs: the status a job is shown with
    answers,    \* of GET /api/transfers, not yet applied
    form,       \* NewTransferModal
    plans,      \* answers of POST /api/transfers/plan for this form, not yet applied
    posts,      \* POST /api/transfers not yet served
    clicks

lists == <<shown, answers>>
dialog == <<form, plans, posts>>
pageVars == <<transfers, lists, dialog, clicks>>

Closed == [open |-> FALSE, ends |-> None, route |-> "auto", offered |-> {}, due |-> FALSE,
           submitting |-> FALSE]
Opened(e, route) == [Closed EXCEPT !.open = TRUE, !.ends = e, !.route = route, !.due = e # None]

\* With the form goes what it waited for; its submission goes on without it.
Disowned(rest) == {[post EXCEPT !.own = FALSE] : post \in rest}

\* Deleted jobs are in neither list.
Listed(rows) == [j \in Job |-> IF rows[j] = "deleted" THEN "none" ELSE rows[j]]

\* A route that was chosen by hand is kept when a job is repeated.
Repeated(j) == Opened(job[j].ends, IF job[j].auto THEN "auto" ELSE job[j].route)

\* The page is up to date, and its form closed or filled in to try the failed job again;
\* a form that was closed before may have sent the same.
Post(n, f) == [id |-> n, ends |-> f.ends, route |-> f.route, own |-> TRUE]
PageInit ==
    /\ TransferInit
    /\ shown = Listed(row) /\ answers = {}
    /\ \/ form = Closed /\ posts = {}
       \/ \E j \in Having(row, "failed") :
             form = Repeated(j) /\ posts \in {{}, Disowned({Post(0, form)})}
    /\ plans = {} /\ clicks = Cardinality(Having(row, "pending"))

-----------------------------------------------------------------------------
(* The lists.                                                                  *)

\* A request for the lists, once the service has done what is asked of it before.
Loads == /\ answers' = IF life' = "up" THEN answers \cup {Listed(row')} ELSE answers
         /\ Cardinality(answers') <= MaxAnswers

loadTransfers ==
    \E answer \in answers :
       /\ answers' = answers \ {answer} /\ shown' = answer
       /\ UNCHANGED <<transfers, dialog, clicks>>

\* Progress is merged into the card of the job, if there is one.
EventArrives ==
    /\ events # <<>> /\ events' = Tail(events)
    /\ UNCHANGED <<row, job, feasible, limit, work, asked, signal, ports, life, faults>>
    /\ \/ Head(events).type = "list" /\ Loads /\ UNCHANGED shown
       \/ /\ Head(events).type = "progress"
          /\ shown' = [j \in Job |-> IF j = Head(events).job /\ shown[j] \in {"pending", "running"}
                                     THEN "running" ELSE shown[j]]
          /\ UNCHANGED answers
    /\ UNCHANGED <<dialog, clicks>>

\* Mutant: the lists are left to the events.
PollsNothing == UNCHANGED pageVars

\* Every 15 seconds.
Poll == UNCHANGED <<transfers, shown, dialog, clicks>> /\ Loads

-----------------------------------------------------------------------------
(* Buttons of the cards and rows.                                              *)

Click == clicks < MaxClicks /\ clicks' = clicks + 1

\* A refusal is only shown; else the lists are asked for.
Asks(request, enabled) ==
    \/ request /\ Loads
    \/ ~enabled /\ UNCHANGED <<transfers, answers>>

cancelJob(j) ==
    /\ shown[j] \in {"pending", "running"}
    /\ Asks(cancel_job(j), life = "up" /\ row[j] \in {"pending", "running"})
    /\ UNCHANGED dialog

deleteJob(j) ==
    /\ shown[j] \in Finals
    /\ Asks(delete_job(j), life = "up" /\ row[j] \in Finals)
    /\ UNCHANGED dialog

\* The form is filled with the job's values; nothing is created yet.
retryJob(j) ==
    /\ shown[j] \in Finals /\ ~form.open
    /\ form' = Repeated(j)
    /\ UNCHANGED <<transfers, answers, plans, posts>>

updateMaxConcurrent ==
    /\ \E most \in 1..MaxLimit : update_settings(most)
    /\ UNCHANGED <<answers, dialog>>

Buttons ==
    /\ Click
    /\ \/ \E j \in Job : cancelJob(j) \/ deleteJob(j) \/ retryJob(j)
       \/ updateMaxConcurrent
    /\ UNCHANGED shown

-----------------------------------------------------------------------------
(* The form.  Fields that no route depends on are left out.                     *)

CloseForm(rest) == form' = Closed /\ plans' = {} /\ posts' = Disowned(rest)

OpenForm ==
    /\ ~form.open /\ form' = Opened(None, "auto")
    /\ UNCHANGED <<plans, posts>>

\* Another node or path, or none: the plan is asked for half a second after the last
\* change.  The route that was chosen stays, and so do the offers of the plan before,
\* unless an end is missing now.
EditEnds ==
    /\ form.open
    /\ \E e \in (Ends \cup {None}) \ {form.ends} :
         form' = [form EXCEPT !.ends = e, !.due = e # None,
                             !.offered = IF e = None THEN {} ELSE @]
    /\ UNCHANGED <<plans, posts>>

\* Routes that are not feasible are shown, but cannot be selected.
ChooseRoute ==
    /\ form.open
    /\ \E r \in form.offered \cup {"auto"} : r # form.route /\ form' = [form EXCEPT !.route = r]
    /\ UNCHANGED <<plans, posts>>

submit ==
    /\ form.open /\ form.ends # None /\ ~form.submitting
    /\ form' = [form EXCEPT !.submitting = TRUE]
    /\ posts' = posts \cup {Post(clicks + 1, form)}
    /\ UNCHANGED plans

\* The links of the ends are probed, with any result, and the plan resolved again.
probePlan ==
    /\ form.open /\ form.ends # None /\ life = "up"
    /\ \E now \in SUBSET Possible[form.ends] :
         /\ feasible' = [feasible EXCEPT ![form.ends] = now]
         /\ plans' = plans \cup {now}
    /\ UNCHANGED <<row, job, limit, work, asked, signal, ports, life, events, faults, form, posts>>

Fills ==
    /\ Click
    /\ \/ OpenForm /\ UNCHANGED transfers
       \/ EditEnds /\ UNCHANGED transfers
       \/ ChooseRoute /\ UNCHANGED transfers
       \/ submit /\ UNCHANGED transfers
       \/ form.open /\ CloseForm(posts) /\ UNCHANGED transfers
       \/ probePlan
    /\ UNCHANGED lists

\* The timer of the effect on the ends and paths.
PlanAsked ==
    /\ form.due /\ UNCHANGED <<transfers, posts>>
    /\ IF life = "up"
       THEN /\ form' = [form EXCEPT !.due = FALSE]
            /\ plans' = plans \cup {feasible[form.ends]}
       ELSE form' = [form EXCEPT !.due = FALSE, !.offered = {}] /\ UNCHANGED plans
    /\ UNCHANGED <<lists, clicks>>

\* An answer is applied whatever the ends are by now.
PlanAnswered ==
    \E plan \in plans :
       /\ plans' = plans \ {plan} /\ form' = [form EXCEPT !.offered = plan]
       /\ UNCHANGED <<transfers, lists, posts, clicks>>

\* Mutant: a refusal ends the waiting of whichever form is open.
RefusedAnywhere(post) == form' = [form EXCEPT !.submitting = FALSE]

\* A refusal is shown in the form that was sent, if it is still there.
Refused(post) == form' = IF post.own THEN [form EXCEPT !.submitting = FALSE] ELSE form

\* A created job closes the form that is open, this one or another.
Posted ==
    \E post \in posts :
       /\ \/ create_job(post.ends, post.route) /\ Loads /\ CloseForm(posts \ {post})
          \/ /\ life # "up" \/ Admits(post.ends, post.route) = {}
             /\ Refused(post)
             /\ posts' = posts \ {post}
             /\ UNCHANGED <<transfers, answers, plans>>
       /\ UNCHANGED <<shown, clicks>>

-----------------------------------------------------------------------------
ServiceRuns == (Watch \/ Lives) /\ UNCHANGED <<lists, dialog, clicks>>

PageNext == \/ ServiceRuns \/ EventArrives \/ Poll \/ loadTransfers
            \/ Buttons \/ Fills \/ PlanAsked \/ PlanAnswered \/ Posted

\* The poll's timer and the answers to it.
PageSpec ==
    /\ PageInit /\ [][PageNext]_pageVars
    /\ WF_pageVars(Poll) /\ WF_pageVars(loadTransfers)

-----------------------------------------------------------------------------
\* The form's button is disabled exactly while one submission of this very form is
\* awaited.  What earlier forms have sent, perhaps with the same values, may be accepted,
\* refused or fail at any time: it neither enables the button of this form, so that a
\* second submission could go out beside the first, nor leaves it disabled for good.
FormsWaitForTheirOwn ==
    /\ form.submitting <=> \E post \in posts : post.own
    /\ \A post, other \in posts : post.own /\ other.own => post = other

\* A new transfer only ever starts within the limit the settings name.
LaunchesWithinLimit ==
    [][(\E j \in Job : row[j] # "running" /\ row'[j] = "running")
          => Cardinality(Having(row', "running")) <= limit']_pageVars

\* Lost events, answers that overtake each other and late progress leave no wrong card or
\* row for good: the lists become those of the service.
PageShowsTheJobs == <>[](life = "up" => shown = Listed(row))
=============================================================================

------------------------------ MODULE PageFeed ------------------------------
(* How App (App.tsx) keeps up with the service: refreshAll, the event source *)
(* and the timer that start it, and what the user edits meanwhile: the       *)
(* choice of GPUs and the settings of the scheduler.  Several refreshes may  *)
(* be under way, asked for with different filters of the history.  Of the    *)
(* lists a refresh brings, one flag is kept.                                 *)
EXTENDS Naturals, TLC

CONSTANTS Gpu, Filter,
          Field, Number,  \* the scheduler's settings, and what they are while switched on
          Default,        \* the settings of a new installation, which the page knows too
          Refresh,      \* the calls of refreshAll that can be under way at a time
          MaxChanges,   \* bound: changes of the service that this page does not ask for
          MaxClicks,    \* bound: handlers started and filters chosen
          MaxFaults     \* bound: event sources and refreshes that fail

ASSUME FeedBounds == MaxChanges \in Nat /\ MaxClicks \in Nat /\ MaxFaults \in Nat
ASSUME SomeFilter == Filter # {}
ASSUME SomeNumber == Number # {} /\ "off" \notin Number

VARIABLES
    paused, allowed,    \* the service: whether its queue is paused, and allowed_gpu_ids
    settings,           \* the service: the scheduler's settings
    refresh,            \* refresh[r]: idle, or answered but not applied yet
    source,             \* the EventSource: open, or closed after an error
    filter,             \* the history's filter, which the refreshAll of now asks for
    shown,              \* isPaused, gpus, and the filter the history shown was asked for with
    enabled, applied, draftRef,   \* enabledGpus, appliedEnabledGpus, gpuSettingsDraftRef
    schedulerSettings, schedulerSettingsDraft,  \* null, or as last shown; what is entered
    call,               \* the handler under way
    changes, clicks, faults       \* how much of the bounds is used up

server == <<paused, allowed, settings>>
gpuDraft == <<enabled, applied, draftRef>>
form == <<schedulerSettings, schedulerSettingsDraft>>
bounds == <<changes, clicks, faults>>
feedVars == <<server, refresh, source, filter, shown, gpuDraft, form, call, bounds>>

EveryGpu == {"null"}    \* allowed_gpu_ids is null
Allowed == SUBSET Gpu \cup {EveryGpu}
Value == Number \cup {"off"}
NoSettings == <<>>      \* null, or an object without fields
Idle == [at |-> "idle", filter |-> CHOOSE f \in Filter : TRUE,
         paused |-> FALSE, allowed |-> {}, settings |-> NoSettings]
NoCall == [op |-> "none", at |-> "none", pause |-> FALSE, gpus |-> {}, settings |-> NoSettings]

FeedInit ==
    /\ paused = FALSE /\ allowed = EveryGpu /\ settings = Default
    /\ refresh = [r \in Refresh |-> Idle]
    /\ source = "open"
    /\ filter = CHOOSE f \in Filter : TRUE
    /\ shown = [paused |-> FALSE, gpus |-> {}, filter |-> filter]
    /\ enabled = {} /\ applied = {} /\ draftRef = FALSE
    /\ schedulerSettings = NoSettings /\ schedulerSettingsDraft = NoSettings
    /\ call = NoCall
    /\ changes = 0 /\ clicks = 0 /\ faults = 0

-----------------------------------------------------------------------------
\* The service, changed by the scheduler, by a schedule or from another page.
ServiceChanges ==
    /\ changes < MaxChanges /\ changes' = changes + 1
    /\ \/ paused' = ~paused /\ UNCHANGED <<allowed, settings>>
       \/ \E S \in Allowed \ {allowed} : allowed' = S /\ UNCHANGED <<paused, settings>>
       \/ \E f \in Field, v \in Value :
             settings' = [settings EXCEPT ![f] = v] /\ UNCHANGED <<paused, allowed>>
    /\ UNCHANGED <<refresh, source, filter, shown, gpuDraft, form, call, clicks, faults>>

-----------------------------------------------------------------------------
(* refreshAll.  Its closure has the filter of the render it was made in; when *)
(* it was asked makes no difference to what the answer brings.                *)

Answered(r) ==
    /\ refresh[r].at = "idle"
    /\ refresh' = [refresh EXCEPT ![r] = [at |-> "answered", filter |-> filter,
                                         paused |-> paused, allowed |-> allowed,
                                         settings |-> settings]]
    /\ UNCHANGED <<server, source, filter, shown, gpuDraft, form, call, bounds>>

\* Mutant: polling is only a fallback for the event source.
TimerAsFallback(r) == source = "closed" /\ Answered(r)

\* The effect's interval, and its first call when refreshAll has changed.
TimerFires(r) == Answered(r)

\* An event that concerns the page.
EventArrives(r) == source = "open" /\ Answered(r)

\* source.onerror closes it for good; the timer goes on.
SourceFails ==
    /\ source = "open" /\ faults < MaxFaults
    /\ source' = "closed" /\ faults' = faults + 1
    /\ UNCHANGED <<server, refresh, filter, shown, gpuDraft, form, call, changes, clicks>>

\* Promise.all throws when one of the requests fails, and nothing of the refresh is
\* shown; only the request for the settings may fail by itself.
RefreshFails(r) ==
    /\ refresh[r].at = "answered" /\ faults < MaxFaults
    /\ faults' = faults + 1
    /\ \/ refresh' = [refresh EXCEPT ![r] = Idle]
       \/ refresh' = [refresh EXCEPT ![r].settings = NoSettings]
    /\ UNCHANGED <<server, source, filter, shown, gpuDraft, form, call, changes, clicks>>

\* nextEnabledGpus: null stands for every GPU.
nextEnabledGpus(ids, gpus) == IF ids = EveryGpu THEN gpus ELSE ids

\* Mutant: the draft is kept but its flag is not looked at again.
TakesAllowedOnly(S) ==
    /\ applied' = S
    /\ enabled' = IF draftRef THEN enabled ELSE S
    /\ UNCHANGED draftRef

\* The updater of enabledGpus: a draft stays, unless it is what the service has now.
TakesAllowed(S) ==
    /\ applied' = S
    /\ enabled' = IF draftRef THEN enabled ELSE S
    /\ draftRef' = (draftRef /\ enabled # S)

ApplyRefresh(r) ==
    /\ refresh[r].at = "answered"
    /\ shown' = [paused |-> refresh[r].paused, gpus |-> Gpu, filter |-> refresh[r].filter]
    /\ TakesAllowed(nextEnabledGpus(refresh[r].allowed, Gpu))
    /\ schedulerSettings' = IF refresh[r].settings = NoSettings THEN schedulerSettings
                            ELSE refresh[r].settings
    /\ refresh' = [refresh EXCEPT ![r] = Idle]
    /\ UNCHANGED <<server, source, filter, schedulerSettingsDraft, call, bounds>>

-----------------------------------------------------------------------------
(* The user.  A press outside the GPU controls discards the draft of them     *)
(* before the click it belongs to is handled, and no other tab has them.      *)

hasGpuSettingsDraft == enabled # applied

discardGpuSettingsDraft ==
    /\ hasGpuSettingsDraft
    /\ enabled' = applied /\ draftRef' = FALSE
    /\ UNCHANGED <<server, refresh, source, filter, shown, applied, form, call, bounds>>

updateEnabledGpuDraft(S) ==
    /\ S # enabled
    /\ enabled' = S /\ draftRef' = (S # applied)
    /\ UNCHANGED <<server, refresh, source, filter, shown, applied, form, call, bounds>>

\* A checkbox, and the button that chooses all.
toggleGpu(g) ==
    /\ g \in shown.gpus
    /\ updateEnabledGpuDraft(IF g \in enabled THEN enabled \ {g} ELSE enabled \cup {g})
chooseAllGpus == updateEnabledGpuDraft(shown.gpus)

\* The effect on refreshAll closes the source and the timer of the old closure and
\* opens new ones; what the old one has under way goes on.
ChooseFilter(f) ==
    /\ ~hasGpuSettingsDraft /\ f # filter /\ clicks < MaxClicks
    /\ clicks' = clicks + 1
    /\ filter' = f /\ source' = "open"
    /\ UNCHANGED <<server, refresh, shown, gpuDraft, form, call, changes, faults>>

\* What the inputs show of a field, and what the button sends, for every field: what is
\* entered, else what was last shown, else the defaults of the page.
merged == schedulerSettingsDraft @@ schedulerSettings @@ Default

Enters(f, v) ==
    /\ clicks < MaxClicks /\ clicks' = clicks + 1
    /\ schedulerSettingsDraft' = f :> v @@ schedulerSettingsDraft
    /\ UNCHANGED <<server, refresh, source, filter, shown, gpuDraft, schedulerSettings, call,
                   changes, faults>>

\* The input of a number, which is entered also when it cannot be sent; it is disabled
\* for a setting that is off.
EditSetting(f, v) == merged[f] # "off" /\ Enters(f, v)

\* The switch of a setting, back to what was last shown, or else to some number.
LastNumber(f) == LET known == schedulerSettings @@ [g \in Field |-> "off"]
                 IN IF known[f] # "off" THEN known[f] ELSE CHOOSE v \in Number : TRUE
ToggleSetting(f) == Enters(f, IF merged[f] = "off" THEN LastNumber(f) ELSE "off")

\* Bound: one handler waits for the service at a time.
Sends(request) ==
    /\ call = NoCall /\ clicks < MaxClicks
    /\ clicks' = clicks + 1
    /\ call' = [request EXCEPT !.at = "sent"]
    /\ UNCHANGED <<server, refresh, source, filter, shown, gpuDraft, form, changes, faults>>

applyGpuSettings ==
    /\ hasGpuSettingsDraft
    /\ Sends([NoCall EXCEPT !.op = "gpus",
                            !.gpus = IF enabled = shown.gpus THEN EveryGpu ELSE enabled])

\* Whether to pause or to resume is read off the page.
toggleQueue ==
    /\ ~hasGpuSettingsDraft
    /\ Sends([NoCall EXCEPT !.op = "queue", !.pause = ~shown.paused])

\* The button needs an entry; the handler gives up when one cannot be sent.
saveSchedulerSettings ==
    /\ schedulerSettingsDraft # NoSettings
    /\ \A f \in Field : merged[f] \in Value
    /\ Sends([NoCall EXCEPT !.op = "settings", !.settings = merged])

Serve ==
    /\ call.at = "sent"
    /\ call' = [call EXCEPT !.at = "answered"]
    /\ \/ call.op = "gpus" /\ allowed' = call.gpus /\ UNCHANGED <<paused, settings>>
       \/ call.op = "queue" /\ paused' = call.pause /\ UNCHANGED <<allowed, settings>>
       \/ call.op = "settings" /\ settings' = call.settings /\ UNCHANGED <<paused, allowed>>
    /\ UNCHANGED <<refresh, source, filter, shown, gpuDraft, form, bounds>>

\* The request or its answer is lost: the handler throws and writes nothing.
CallFails ==
    /\ call # NoCall /\ faults < MaxFaults
    /\ faults' = faults + 1
    /\ call' = NoCall
    /\ UNCHANGED <<server, refresh, source, filter, shown, gpuDraft, form, changes, clicks>>

\* The rest of the handler; the refreshAll it ends with is one the timer may start.
\* What the user ticks or enters while the answer is awaited is lost with it.
Respond ==
    /\ call.at = "answered"
    /\ call' = NoCall
    /\ IF call.op = "gpus"
       THEN /\ applied' = nextEnabledGpus(call.gpus, shown.gpus)
            /\ enabled' = applied' /\ draftRef' = FALSE
       ELSE UNCHANGED gpuDraft
    /\ IF call.op = "settings"
       THEN schedulerSettings' = call.settings /\ schedulerSettingsDraft' = NoSettings
       ELSE UNCHANGED form
    /\ UNCHANGED <<server, refresh, source, filter, shown, bounds>>

-----------------------------------------------------------------------------
Feed(r) == TimerFires(r) \/ EventArrives(r) \/ RefreshFails(r) \/ ApplyRefresh(r)
Clicks == \/ discardGpuSettingsDraft \/ applyGpuSettings \/ toggleQueue \/ saveSchedulerSettings
          \/ \E f \in Field : ToggleSetting(f) \/ \E v \in Number \cup {"invalid"} : EditSetting(f, v)
          \/ chooseAllGpus \/ \E g \in Gpu : toggleGpu(g)
          \/ \E f \in Filter : ChooseFilter(f)
FeedNext == \/ ServiceChanges \/ SourceFails \/ Serve \/ CallFails \/ Respond \/ Clicks
            \/ \E r \in Refresh : Feed(r)

\* The timer goes on, and what is asked for is answered and shown; no event has to come.
FeedFairness ==
    \A r \in Refresh : WF_feedVars(TimerFires(r)) /\ WF_feedVars(ApplyRefresh(r))
FeedSpec == FeedInit /\ [][FeedNext]_feedVars /\ FeedFairness

-----------------------------------------------------------------------------
\* The flag in a ref, by which a refresh spares the user's choice of GPUs, and the
\* comparison of two states, by which the page offers to apply or discard it, agree
\* whatever answers come in between.
DraftFlagIsTrue == draftRef = hasGpuSettingsDraft

\* When the service no longer changes, the page comes to show what it has, for the
\* filter that is chosen, also when no event arrives, old answers come late and the
\* settings could not be read; only what the user has entered may stand before it.
PageCatchesUp ==
    <>[](/\ shown = [paused |-> paused, gpus |-> Gpu, filter |-> filter]
         /\ schedulerSettings = settings
         /\ applied = nextEnabledGpus(allowed, Gpu)
         /\ enabled = applied \/ draftRef)
=============================================================================

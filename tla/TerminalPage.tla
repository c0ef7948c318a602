---------------------------- MODULE TerminalPage ----------------------------
(* The page of interactive terminals (MultiTerminalPage in App.tsx) over the *)
(* service's registry of sessions (interactive_terminal.py): its cards, the  *)
(* input it sends each session in order, broadcast, reconnecting and closing. *)
(* Nodes, names, the output on the screen and the archived logs are left out, *)
(* and so is the order of the cards: where the page takes the first one that  *)
(* is visible, any is.                                                        *)
EXTENDS Naturals, Sequences, FiniteSets

CONSTANTS Session, None,
          MaxKeys,      \* bound: keys typed
          MaxClicks,    \* bound: clicks
          MaxFaults     \* bound: requests and sessions that fail

ASSUME TerminalBounds == MaxKeys \in Nat /\ MaxClicks \in Nat /\ MaxFaults \in Nat
ASSUME NoneIsNoSession == None \notin Session /\ Session # {}

VARIABLES
    state, received, events,    \* the service: sessions, the input each got, events not read
    cards, lost, checked, minimized, ai,     \* sets of sessions on the page
    active, panel, broadcastOn, \* the card in front, its terminal, the switch
    queue, typed, dropped,      \* inputQueuesRef; keys meant for a session; queues thrown away
    fetched, calls,             \* answers of mergeSessions and of handlers, not applied yet
    keys, clicks, faults

service == <<state, received, events>>
layout == <<cards, minimized, active, panel>>
marks == <<lost, checked, ai>>
input == <<queue, typed, dropped>>
terminalVars == <<service, layout, marks, broadcastOn, input, fetched, calls,
                  keys, clicks, faults>>

Quiet == [inflight |-> FALSE, sending |-> <<>>, pending |-> <<>>]
Alive == {s \in Session : state[s] = "alive"}

\* The page after its first load, with one session open, and perhaps a click on the switch.
TerminalInit ==
    /\ \E s \in Session :
         /\ state = [t \in Session |-> IF t = s THEN "alive" ELSE "new"]
         /\ cards = {s} /\ active = s
    /\ received = [s \in Session |-> <<>>] /\ events = <<>>
    /\ lost = {} /\ checked = {} /\ minimized = {} /\ ai = {}
    /\ panel = "live" /\ broadcastOn \in BOOLEAN
    /\ queue = [s \in Session |-> Quiet] /\ typed = [s \in Session |-> 0] /\ dropped = {}
    /\ fetched = {} /\ calls = {}
    /\ keys = 0 /\ clicks = 0 /\ faults = 0

-----------------------------------------------------------------------------
\* The service.  Sessions also come and go by other pages, and a process that ends takes
\* its session out of the registry.

Event(type, s) == events' = Append(events, [type |-> type, session |-> s])
Creates(s) == state[s] = "new" /\ state' = [state EXCEPT ![s] = "alive"] /\ Event("created", s)
Closes(s) == state[s] = "alive" /\ state' = [state EXCEPT ![s] = "closed"] /\ Event("closed", s)

Elsewhere ==
    /\ faults < MaxFaults /\ faults' = faults + 1
    /\ \E s \in Session :
         \/ Creates(s)
         \/ Closes(s)
         \/ \E why \in {"connection_lost", "exited"} :
               state[s] = "alive" /\ state' = [state EXCEPT ![s] = why] /\ Event(why, s)
    /\ UNCHANGED <<received, layout, marks, broadcastOn, input, fetched, calls, keys, clicks>>

-----------------------------------------------------------------------------
(* The cards.  Only the terminal of the card in front is there: it connects    *)
(* when the card comes to the front, and is told when its session's process    *)
(* ends.  The effect on activeSessionId follows every change of the cards.     *)

Settled(wanted, visible) ==
    IF wanted \in visible THEN {wanted} ELSE IF visible = {} THEN {None} ELSE visible

Connected(s) == IF s = None THEN "none" ELSE IF state'[s] = "alive" THEN "live" ELSE "gone"

Lays(shown, hidden, wanted) ==
    /\ cards' = shown /\ minimized' = hidden
    /\ active' \in Settled(wanted, shown \ hidden)
    /\ panel' = IF active' = active THEN panel ELSE Connected(active')

Drops(s) == queue' = [queue EXCEPT ![s] = Quiet] /\ dropped' = dropped \cup {s} /\ UNCHANGED typed

\* Mutant: the tick of a session that is gone stays.
RemovesCardOnly(s) ==
    /\ Lays(cards \ {s}, minimized \ {s}, active)
    /\ lost' = lost \ {s} /\ ai' = ai \ {s} /\ UNCHANGED checked
    /\ Drops(s)

removeSessionLocally(s) ==
    /\ Lays(cards \ {s}, minimized \ {s}, active)
    /\ lost' = lost \ {s} /\ checked' = checked \ {s} /\ ai' = ai \ {s}
    /\ Drops(s)

\* The panel's stream ends with "exit"; a session closed by a page does not send one.
PanelExits ==
    /\ panel = "live" /\ state[active] \in {"connection_lost", "exited"}
    /\ panel' = state[active]
    /\ UNCHANGED <<service, cards, minimized, active, marks, broadcastOn, input, fetched, calls,
                   keys, clicks, faults>>

\* A created session is asked for with the others; a lost one keeps its card.
EventArrives ==
    /\ events # <<>> /\ events' = Tail(events)
    /\ UNCHANGED <<state, received>>
    /\ LET s == Head(events).session
       IN CASE Head(events).type = "created" ->
                 /\ fetched' = fetched \cup {Alive}
                 /\ UNCHANGED <<layout, marks, input>>
            [] Head(events).type = "connection_lost" ->
                 /\ lost' = lost \cup {s} /\ checked' = checked \ {s}
                 /\ UNCHANGED <<ai, layout, input, fetched>>
            [] OTHER -> removeSessionLocally(s) /\ UNCHANGED fetched
    /\ UNCHANGED <<broadcastOn, calls, keys, clicks, faults>>

\* The EventSource reconnects, but what was sent meanwhile is gone.
EventLost ==
    /\ events # <<>> /\ faults < MaxFaults
    /\ faults' = faults + 1 /\ events' = Tail(events)
    /\ UNCHANGED <<state, received, layout, marks, broadcastOn, input, fetched, calls, keys, clicks>>

\* mergeSessions adds what it does not know, whatever has become of it since.
mergeSessions ==
    \E answer \in fetched :
       /\ fetched' = fetched \ {answer}
       /\ UNCHANGED service
       /\ Lays(cards \cup answer, minimized, active)
       /\ UNCHANGED <<marks, broadcastOn, input, calls, keys, clicks, faults>>

-----------------------------------------------------------------------------
(* Input.  Each session has a queue of what is typed for it; one request at a *)
(* time takes a piece of it (a key stands for a piece of up to 32 KB).        *)

\* Mutant: what has not been sent is put behind what was typed meanwhile.
UnsentLast(q) == [inflight |-> FALSE, sending |-> <<>>, pending |-> q.pending \o q.sending]

\* What has not been sent goes back in front, with the piece that failed, and waits for
\* the next key.
UnsentFirst(q) == [inflight |-> FALSE, sending |-> <<>>, pending |-> q.sending \o q.pending]

\* The loop of pumpInput after a piece has been sent.
Pumped(q) ==
    IF Len(q.sending) > 1 THEN [q EXCEPT !.sending = Tail(@)]
    ELSE IF q.pending # <<>> THEN [q EXCEPT !.sending = q.pending, !.pending = <<>>]
    ELSE Quiet

enqueueInput(q, key) ==
    IF q.inflight THEN [q EXCEPT !.pending = Append(@, key)]
    ELSE [inflight |-> TRUE, sending |-> Append(q.pending, key), pending |-> <<>>]

\* A request that fails may have been carried out: its answer is lost, or the terminal
\* took a part of it.
PumpInput(s) ==
    /\ queue[s].inflight
    /\ \/ /\ state[s] = "alive"
          /\ received' = [received EXCEPT ![s] = Append(@, Head(queue[s].sending))]
          /\ \/ queue' = [queue EXCEPT ![s] = Pumped(@)] /\ UNCHANGED faults
             \/ /\ faults < MaxFaults /\ faults' = faults + 1
                /\ queue' = [queue EXCEPT ![s] = UnsentFirst(@)]
       \/ /\ \/ state[s] # "alive" /\ UNCHANGED faults
             \/ faults < MaxFaults /\ faults' = faults + 1
          /\ queue' = [queue EXCEPT ![s] = UnsentFirst(@)]
          /\ UNCHANGED received
    /\ UNCHANGED <<state, events, layout, marks, broadcastOn, typed, dropped, fetched, calls,
                   keys, clicks>>

Targets(s) == IF broadcastOn /\ s \in checked \ ai THEN checked \ (lost \cup ai) ELSE {s}

\* A key typed or pasted in the terminal in front.
handleTerminalData ==
    /\ active # None /\ keys < MaxKeys
    /\ keys' = keys + 1
    /\ typed' = [s \in Session |-> IF s \in Targets(active) THEN typed[s] + 1 ELSE typed[s]]
    /\ queue' = [s \in Session |-> IF s \in Targets(active)
                                   THEN enqueueInput(queue[s], typed'[s]) ELSE queue[s]]
    /\ UNCHANGED <<service, layout, marks, broadcastOn, dropped, fetched, calls, clicks, faults>>

-----------------------------------------------------------------------------
(* Handlers with a request: what the service does, and later the rest.        *)

Click == clicks < MaxClicks /\ clicks' = clicks + 1
Call(op, old, new) == calls' = calls \cup {[op |-> op, old |-> old, new |-> new]}
Page == <<layout, marks, broadcastOn, input>>
creating == \E call \in calls : call.op \in {"create", "create ai"}

handleCreate(op) ==
    /\ Click /\ ~creating
    /\ \E s \in Session : Creates(s) /\ Call(op, None, s)
    /\ UNCHANGED <<received, Page, fetched, keys, faults>>

\* The overlay of a lost terminal offers it; nothing stops a second click.
handleReconnect ==
    /\ Click /\ panel = "connection_lost"
    /\ \E s \in Session : Creates(s) /\ Call("reconnect", active, s)
    /\ UNCHANGED <<received, Page, fetched, keys, faults>>

\* A lost session is not asked for; any other is removed from the page whatever the answer.
handleClose ==
    /\ Click /\ active # None
    /\ IF active \in lost
       THEN UNCHANGED <<service, calls>> /\ removeSessionLocally(active) /\ UNCHANGED faults
       ELSE /\ \/ Closes(active) /\ UNCHANGED faults
               \/ state[active] # "alive" /\ UNCHANGED <<state, events, faults>>
               \/ faults < MaxFaults /\ faults' = faults + 1 /\ UNCHANGED <<state, events>>
            /\ Call("close", active, None)
            /\ UNCHANGED <<received, layout, marks, input>>
    /\ UNCHANGED <<broadcastOn, fetched, keys>>

CreateAnswered(call) ==
    /\ call.op \in {"create", "create ai"}
    /\ Lays(cards \cup {call.new}, minimized \ {call.new}, call.new)
    /\ IF call.op = "create ai" THEN ai' = ai \cup {call.new} /\ checked' = checked \ {call.new}
       ELSE UNCHANGED <<ai, checked>>
    /\ UNCHANGED <<lost, input>>

\* The new session takes the place of the old one, and its tick.
ReconnectAnswered(call) ==
    /\ call.op = "reconnect"
    /\ Lays((cards \ {call.old}) \cup {call.new}, minimized \ {call.old, call.new}, call.new)
    /\ checked' = (IF call.old \in checked THEN (checked \ {call.old}) \cup {call.new} ELSE checked)
    /\ lost' = lost \ {call.old} /\ UNCHANGED ai
    /\ Drops(call.old)

CloseAnswered(call) == call.op = "close" /\ removeSessionLocally(call.old)

Answered ==
    \E call \in calls :
       /\ calls' = calls \ {call}
       /\ UNCHANGED service
       /\ CreateAnswered(call) \/ ReconnectAnswered(call) \/ CloseAnswered(call)
       /\ UNCHANGED <<broadcastOn, fetched, keys, clicks, faults>>

\* Controls of the panel in front, the tabs and the toolbar, which need no request.
toggleChecked ==
    /\ active # None /\ active \notin ai
    /\ checked' = IF active \in checked THEN checked \ {active} ELSE checked \cup {active}
    /\ UNCHANGED <<service, lost, ai, layout, broadcastOn>>

Arranges ==
    /\ UNCHANGED service
    /\ \/ active # None /\ Lays(cards, minimized \cup {active}, None)       \* minimizeSession
       \/ \E s \in minimized \cap cards : Lays(cards, minimized \ {s}, s)   \* restoreSession
       \/ \E s \in cards \ minimized : s # active /\ Lays(cards, minimized, s)   \* a tab
    /\ UNCHANGED <<marks, broadcastOn>>

Controls ==
    /\ Click
    /\ \/ toggleChecked
       \/ Arranges
       \/ broadcastOn' = ~broadcastOn /\ UNCHANGED <<service, layout, marks>>
    /\ UNCHANGED <<input, fetched, calls, keys, faults>>

-----------------------------------------------------------------------------
TerminalNext ==
    \/ Elsewhere \/ PanelExits \/ EventArrives \/ EventLost \/ mergeSessions
    \/ (\E s \in Session : PumpInput(s)) \/ handleTerminalData
    \/ handleCreate("create") \/ handleCreate("create ai") \/ handleReconnect \/ handleClose
    \/ Answered \/ Controls
TerminalSpec == TerminalInit /\ [][TerminalNext]_terminalVars

-----------------------------------------------------------------------------
Reached(s) == CHOOSE n \in 0..typed[s] :
                /\ \A i \in DOMAIN received[s] : received[s][i] <= n
                /\ n = 0 \/ \E i \in DOMAIN received[s] : received[s][i] = n

\* While a session has its card, what is typed for it, in its own terminal or by
\* broadcast, reaches it in that order and without a gap: failures and retries may
\* repeat input, but no key overtakes an earlier one, and none is lost that is not queued.
InputArrivesInOrder ==
    \A s \in Session \ dropped :
       LET waiting == queue[s].sending \o queue[s].pending
       IN /\ \A i \in DOMAIN received[s] :
               received[s][i] = 1 \/ \E j \in 1..(i - 1) : received[s][j] = received[s][i] - 1
          /\ waiting = [i \in 1..Len(waiting) |-> typed[s] - Len(waiting) + i]
          /\ typed[s] - Len(waiting) <= Reached(s)

\* Broadcast input goes to no terminal that the page does not show a card of, and to no
\* AI terminal, whatever was closed, lost, replaced or merged meanwhile.
TickedTerminalsHaveCards == checked \subseteq cards \ ai
=============================================================================

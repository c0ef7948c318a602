------------------------------ MODULE LogStream ------------------------------
(* The console of one running task: its output on the way from the terminal  *)
(* session (terminal.py) over a server-sent stream to the screen              *)
(* (StreamingTerminal in App.tsx), and the viewer of its log files            *)
(* (TaskLogViewer) that takes over when the task has ended.  Attempt 1 has    *)
(* ended before; attempt 2 runs, ends, and is the current one throughout.     *)
EXTENDS Naturals, Sequences

CONSTANTS Outputs,      \* what attempt 2 may write: sequences of bytes, named by what they do
          Columns,      \* the width of the screen
          QueueSize,    \* TERMINAL_SUBSCRIBER_QUEUE_SIZE
          MaxChoices,   \* bound: clicks in the log viewer
          MaxLosses     \* bound: connections and requests that fail

ASSUME StreamBounds ==
    Columns \in Nat \ {0} /\ QueueSize \in Nat \ {0} /\ MaxChoices \in Nat /\ MaxLosses \in Nat
ASSUME OutputsAreBytes == Outputs \subseteq Seq(STRING)

VARIABLES
    output,                     \* what attempt 2 writes, of Outputs
    phase, written, files,      \* the service: the run, its log's length, the log files there are
    subscribed, queue, control, \* the stream's subscriber: chunks and what ends it
    stream, got, term,          \* EventSource; bytes shown since the snapshot; decoder and screen
    pageRuns, selected, full, logs, content,   \* TaskLogViewer; selected = 0 is null
    due, ask, deleting,         \* a load the effect owes, one answered, a delete under way
    choices, losses

session == <<output, phase, written, files>>
subscriber == <<subscribed, queue, control>>
screen == <<stream, got, term>>
viewer == <<pageRuns, selected, full, logs, content>>
streamVars == <<session, subscriber, screen, viewer, due, ask, deleting, choices, losses>>

-----------------------------------------------------------------------------
(* decodeTerminalBytes: a carriage return that no line feed follows stands for *)
(* "erase the line", which may have wrapped over several rows.                 *)

Blank == [cr |-> FALSE, width |-> 0, ansi |-> "normal", shown |-> <<>>]

wrappedRowCount(width) == ((IF width = 0 THEN 1 ELSE width) - 1) \div Columns + 1

NewLine(d) == [cr |-> FALSE, width |-> 0, ansi |-> "normal", shown |-> Append(d.shown, "crlf")]

pushEraseWrappedLine(d) ==
    [cr |-> FALSE, width |-> 0, ansi |-> "normal",
     shown |-> d.shown \o [row \in 1..wrappedRowCount(d.width) |->
                              IF row = 1 THEN "erase" ELSE "up+erase"]]

\* The byte and the escape sequence it is in: only what is printed takes room on the line.
NextAnsi(state, byte) ==
    CASE state = "normal" /\ byte = "esc" -> "escape"
      [] state = "escape" /\ byte = "["   -> "csi"
      [] state = "escape" /\ byte = "]"   -> "osc"
      [] state = "csi" /\ byte = "0"      -> "csi"        \* a parameter
      [] state \in {"osc", "oscEscape"} /\ byte \notin {"bel", "esc", "st"} -> "osc"
      [] state = "osc" /\ byte = "esc"    -> "oscEscape"
      [] OTHER -> "normal"

NextWidth(width, byte) ==
    CASE byte = "lf"  -> 0
      [] byte = "tab" -> width + 4
      [] byte = "bs"  -> IF width = 0 THEN 0 ELSE width - 1
      [] byte \in {"x", "0", "[", "]"} -> width + 1
      [] OTHER -> width

trackTerminalCellWidth(byte, d) ==
    [d EXCEPT !.shown = Append(@, byte), !.ansi = NextAnsi(@, byte),
              !.width = IF d.ansi = "normal" THEN NextWidth(@, byte) ELSE @]

\* Byte i of a chunk, which the loop may look past: a line feed is taken with the
\* carriage return before it, and a carriage return at the end has to wait.
DecodedByte(bytes, i, d) ==
    IF bytes[i] = "lf" /\ i > 1 /\ bytes[i - 1] = "cr" THEN d
    ELSE IF bytes[i] # "cr" THEN trackTerminalCellWidth(bytes[i], d)
    ELSE IF i = Len(bytes) THEN [d EXCEPT !.cr = TRUE]
    ELSE IF bytes[i + 1] = "lf" THEN NewLine(d)
    ELSE pushEraseWrappedLine(d)

\* The loop from startIndex on.
Decoded(bytes, startIndex, d) ==
    LET after[i \in startIndex..Len(bytes)] ==
            IF i = startIndex THEN d ELSE DecodedByte(bytes, i, after[i - 1])
    IN after[Len(bytes)]

\* Mutant: the end of a chunk is taken for the end of the line.
DecodesEagerly(bytes, d) ==
    LET all == Decoded(bytes, 0, d) IN IF all.cr THEN pushEraseWrappedLine(all) ELSE all

decodeTerminalBytes(bytes, d) ==
    IF bytes = <<>> \/ ~d.cr THEN Decoded(bytes, 0, d)
    ELSE IF bytes[1] = "lf" THEN Decoded(bytes, 1, NewLine(d))
    ELSE Decoded(bytes, 0, pushEraseWrappedLine(d))

-----------------------------------------------------------------------------
(* TerminalSession and the endpoint's generator.  A snapshot is the log so far *)
(* (bound: a log shorter than TASK_TERMINAL_SNAPSHOT_BYTES).                   *)

Bytes(chunks) == LET total[i \in 0..Len(chunks)] ==
                         IF i = 0 THEN 0 ELSE total[i - 1] + chunks[i]
                 IN total[Len(chunks)]

Unsubscribed(why) == subscribed' = FALSE /\ control' = why /\ UNCHANGED queue

\* append_bytes: the log first; a subscriber that is full is told to connect again.
AppendBytes(n) ==
    /\ phase = "runs" /\ written + n <= Len(output)
    /\ written' = written + n
    /\ IF ~subscribed THEN UNCHANGED subscriber
       ELSE IF Len(queue) = QueueSize THEN Unsubscribed("disconnect")
       ELSE queue' = Append(queue, n) /\ UNCHANGED <<subscribed, control>>
    /\ UNCHANGED <<output, phase, files, screen, viewer, due, ask, deleting, choices, losses>>

\* The watcher has read the terminal to its end and records the outcome.
TaskEnds ==
    /\ phase = "runs" /\ written = Len(output)
    /\ phase' = "ended"
    /\ UNCHANGED <<output, written, files, subscriber, screen, viewer, due, ask, deleting,
                   choices, losses>>

\* publish_exit comes after the row has ended.
PublishExit ==
    /\ phase = "ended"
    /\ phase' = "closed"
    /\ IF subscribed THEN Unsubscribed("exit") ELSE UNCHANGED subscriber
    /\ UNCHANGED <<output, written, files, screen, viewer, due, ask, deleting, choices, losses>>

\* subscribe_terminal_stream refuses when the row no longer runs, and EventSource
\* gives up; else the snapshot is the first event and resets the screen.
Connects ==
    /\ stream \in {"opening", "retrying"}
    /\ IF phase = "runs"
       THEN /\ stream' = "open" /\ got' = written
            /\ term' = decodeTerminalBytes(SubSeq(output, 1, written), Blank)
            /\ subscribed' = TRUE /\ queue' = <<>> /\ control' = "none"
       ELSE stream' = "closed" /\ UNCHANGED <<got, term, subscriber>>
    /\ UNCHANGED <<session, viewer, due, ask, deleting, choices, losses>>

\* A chunk is sent only when no control message is ready.
ChunkArrives ==
    /\ stream = "open" /\ control = "none" /\ queue # <<>>
    /\ queue' = Tail(queue) /\ got' = got + Head(queue)
    /\ term' = decodeTerminalBytes(SubSeq(output, got + 1, got + Head(queue)), term)
    /\ UNCHANGED <<session, subscribed, control, stream, viewer, due, ask, deleting, choices,
                   losses>>

\* "exit" closes the EventSource; after any other end the browser connects again.
StreamEnds ==
    /\ stream = "open" /\ control # "none"
    /\ stream' = IF control = "exit" THEN "closed" ELSE "retrying"
    /\ queue' = <<>> /\ control' = "none"
    /\ UNCHANGED <<session, subscribed, got, term, viewer, due, ask, deleting, choices, losses>>

ConnectionLost ==
    /\ stream = "open" /\ losses < MaxLosses
    /\ losses' = losses + 1
    /\ stream' = "retrying"
    /\ subscribed' = FALSE /\ queue' = <<>> /\ control' = "none"
    /\ UNCHANGED <<session, got, term, viewer, due, ask, deleting, choices>>

-----------------------------------------------------------------------------
(* TaskLogViewer.  canUseLive is pageRuns: the console allows the live view.   *)

isLiveSelected == pageRuns /\ selected = 0
Selectable(shownLogs, runs) == shownLogs \ (IF runs THEN {2} ELSE {})
LastLog(shownLogs) == IF 2 \in shownLogs THEN 2 ELSE IF 1 \in shownLogs THEN 1 ELSE 0
Text(what) == [at |-> what, attempt |-> 0, size |-> 0]
LogText(attempt) ==
    [at |-> "log", attempt |-> attempt, size |-> IF attempt = 2 THEN written ELSE 0]
NoAnswer == [at |-> "none", logs |-> {}, content |-> Text("waiting")]
NoDelete == [at |-> "none", attempt |-> 0, logs |-> {}, runs |-> FALSE]

\* The live terminal is there when it is selected; another URL opens it anew.
Streams(live, anew) ==
    IF live /\ ~anew THEN UNCHANGED <<screen, subscriber>>
    ELSE /\ stream' = (IF live THEN "opening" ELSE "none") /\ got' = 0 /\ term' = Blank
         /\ subscribed' = FALSE /\ queue' = <<>> /\ control' = "none"

\* The effect that loads: a change of what it depends on cancels what is under way.
Selects(runs, attempt, whole) ==
    /\ pageRuns' = runs /\ selected' = attempt /\ full' = whole
    /\ Streams(runs /\ attempt = 0, ~isLiveSelected \/ whole # full)
    /\ IF <<runs, attempt, whole>> = <<pageRuns, selected, full>>
       THEN UNCHANGED <<due, ask>>
       ELSE due' = TRUE /\ ask' = NoAnswer

StreamInit ==
    /\ output \in Outputs
    /\ phase = "runs" /\ written = 0 /\ files = {1, 2}
    /\ subscribed = FALSE /\ queue = <<>> /\ control = "none"
    /\ stream = "opening" /\ got = 0 /\ term = Blank
    /\ pageRuns = TRUE /\ selected = 0 /\ full = FALSE /\ logs = {} /\ content = Text("waiting")
    /\ due = TRUE /\ ask = NoAnswer /\ deleting = NoDelete
    /\ choices = 0 /\ losses = 0

\* A refresh of the page brings the new status; the first effect resets the viewer.
StatusChanges ==
    /\ pageRuns /\ phase # "runs"
    /\ Selects(FALSE, 0, FALSE)
    /\ logs' = {} /\ content' = Text("waiting")
    /\ UNCHANGED <<session, deleting, choices, losses>>

\* Mutant: the viewer polls only while the task runs.
PollsWhileRunning == isLiveSelected \/ pageRuns

shouldPoll == isLiveSelected \/ ~full \/ pageRuns

\* loadLogs is answered: the list of logs for the live view, else also the text of the
\* attempt, where null stands for the current one; an attempt without a file is an error.
LoadAnswered ==
    /\ ask.at = "none" /\ (due \/ shouldPoll)
    /\ due' = FALSE
    /\ LET attempt == IF selected = 0 THEN LastLog(files) ELSE selected
       IN ask' = [at |-> "answered", logs |-> files,
                  content |-> IF isLiveSelected THEN Text("waiting")
                              ELSE IF attempt = 0 THEN Text("empty")
                              ELSE IF attempt \notin files THEN Text("failed")
                              ELSE LogText(attempt)]
    /\ UNCHANGED <<session, subscriber, screen, viewer, deleting, choices, losses>>

LoadFails ==
    /\ ask.at = "answered" /\ ask.content.at # "failed" /\ losses < MaxLosses
    /\ losses' = losses + 1
    /\ ask' = [ask EXCEPT !.content = Text("failed")]
    /\ UNCHANGED <<session, subscriber, screen, viewer, due, deleting, choices>>

ApplyLoad ==
    /\ ask.at = "answered"
    /\ content' = ask.content
    /\ IF ask.content.at = "failed" THEN UNCHANGED logs ELSE logs' = ask.logs
    /\ IF selected = 0 /\ ask.content.attempt # 0
       THEN Selects(pageRuns, ask.content.attempt, full)
       ELSE ask' = NoAnswer /\ UNCHANGED <<pageRuns, selected, full, due, screen, subscriber>>
    /\ UNCHANGED <<session, deleting, choices, losses>>

Choice == choices < MaxChoices /\ choices' = choices + 1

\* The options of the selector: the live terminal while the task runs, and the logs.
Options == Selectable(logs, pageRuns) \cup (IF pageRuns THEN {0} ELSE {})

handleSelectAttempt(attempt) ==
    /\ Choice
    /\ attempt \in Options \ {selected}
    /\ Selects(pageRuns, attempt, full)
    /\ content' = Text("waiting")
    /\ UNCHANGED <<session, logs, deleting, losses>>

handleToggleFullLog ==
    /\ Choice
    /\ Selects(pageRuns, selected, ~full)
    /\ content' = Text("waiting")
    /\ UNCHANGED <<session, logs, deleting, losses>>

\* The rest of the handler sees the list and the status of now.
handleDeleteLog ==
    /\ Choice
    /\ selected \in Selectable(logs, pageRuns) /\ deleting.at = "none"
    /\ deleting' = [at |-> "sent", attempt |-> selected, logs |-> logs, runs |-> pageRuns]
    /\ UNCHANGED <<session, subscriber, screen, viewer, due, ask, losses>>

\* delete_task_log: not the log of the run under way.
LogDeleted ==
    /\ deleting.at = "sent"
    /\ IF deleting.attempt \in files /\ (deleting.attempt = 2 => phase # "runs")
       THEN files' = files \ {deleting.attempt} /\ deleting' = [deleting EXCEPT !.at = "done"]
       ELSE UNCHANGED files /\ deleting' = [deleting EXCEPT !.at = "refused"]
    /\ UNCHANGED <<output, phase, written, subscriber, screen, viewer, due, ask, choices, losses>>

DeleteAnswered ==
    /\ deleting.at \in {"done", "refused"}
    /\ deleting' = NoDelete
    /\ LET rest == deleting.logs \ {deleting.attempt}
           next == LastLog(Selectable(rest, deleting.runs))
       IN IF deleting.at = "refused"
          THEN /\ content' = Text("failed")
               /\ UNCHANGED <<screen, subscriber, pageRuns, selected, full, logs, due, ask>>
          ELSE /\ Selects(pageRuns, next, full)
               /\ logs' = rest
               /\ content' = Text(IF next = 0 /\ deleting.runs THEN "waiting" ELSE "none left")
    /\ UNCHANGED <<session, choices, losses>>

-----------------------------------------------------------------------------
StreamNext ==
    \/ \E n \in 1..Len(output) : AppendBytes(n)
    \/ TaskEnds \/ PublishExit
    \/ Connects \/ ChunkArrives \/ StreamEnds \/ ConnectionLost
    \/ StatusChanges \/ LoadAnswered \/ LoadFails \/ ApplyLoad
    \/ \E attempt \in 0..2 : handleSelectAttempt(attempt)
    \/ handleToggleFullLog \/ handleDeleteLog \/ LogDeleted \/ DeleteAnswered

\* The page refreshes by its timer, loads by its effect, and requests are answered.
StreamFairness ==
    /\ WF_streamVars(StatusChanges) /\ WF_streamVars(LoadAnswered) /\ WF_streamVars(ApplyLoad)
    /\ WF_streamVars(LogDeleted) /\ WF_streamVars(DeleteAnswered)
StreamSpec == StreamInit /\ [][StreamNext]_streamVars /\ StreamFairness

-----------------------------------------------------------------------------
\* The live view shows the output as if all of it had come in one piece, wherever the
\* chunks are cut and the stream starts; and what is not shown yet is queued, in order,
\* unless the service has told the subscriber to connect again or that the task is over.
ScreenShowsTheOutput ==
    stream = "open" =>
        /\ term = decodeTerminalBytes(SubSeq(output, 1, got), Blank)
        /\ subscribed => got + Bytes(queue) = written
        /\ ~subscribed => control # "none"

\* When the task is over, the viewer of its tail comes to show the whole log of the
\* attempt selected, whatever was selected, toggled or deleted while it ended.
EndedTaskShowsItsLog ==
    <>[](~pageRuns /\ ~full /\ files # {} =>
           selected # 0 /\ (selected \in files => content = LogText(selected)))
=============================================================================

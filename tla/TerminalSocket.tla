--------------------------- MODULE TerminalSocket ---------------------------
(***************************************************************************)
(* The terminal view: the socket handler of api.py that replays a task log  *)
(* in chunks, one unacknowledged chunk at a time, and the xterm of App.jsx  *)
(* that renders the chunks, confirms them, sends input, reconnects and      *)
(* turns pages.  The log is its length; it grows while the task runs.       *)
(***************************************************************************)
EXTENDS Integers, Sequences, FiniteSets

CONSTANTS
    MaxSize,      \* bound: length of the log
    ChunkSize,    \* bytes per output frame (65536)
    WindowBytes,  \* bytes asked for at a time (4 MiB)
    HitBytes,     \* bytes asked for around a search hit (256 KiB)
    OverlapBytes, \* bytes two pages share at most (128 KiB) ...
    OverlapShare, \* ... and the share of a page they are at most (4: a quarter)
    MaxAttempts,  \* reconnections in a row (3)
    MaxDrop,      \* bound: broken connections
    MaxMove,      \* bound: pages turned, hits opened, resizes and themes
    MaxInput      \* bound: input messages

ASSUME TerminalSocketAssumption ==
    /\ {MaxSize, WindowBytes, HitBytes, OverlapBytes, MaxAttempts, MaxDrop, MaxMove, MaxInput}
         \subseteq Nat
    /\ {ChunkSize, OverlapShare} \subseteq Nat \ {0}

NoEnd == MaxSize + 1

VARIABLES
    size,     \* length of output.log
    purged,   \* retention has deleted the task and its log
    running,  \* the task accepts terminal input
    closing,  \* shutdown_event is set
    handler,  \* the socket handler: offset, end, awaiting_ack, caught_up
    wire,     \* frames sent to the browser and not yet handled by it
    uplink,   \* messages on their way to the server
    view,     \* the browser's terminal: connection, range, window, shown offset, attempts
    typed,    \* input messages sent so far
    drops,    \* broken connections so far
    moves     \* pages turned, hits opened, resizes and themes so far

taskVars == <<size, purged, running, closing>>
terminalVars == <<taskVars, handler, wire, uplink, view, typed, drops, moves>>

Handler == [open : BOOLEAN, offset : Nat, end : Nat, awaiting_ack : BOOLEAN, caught_up : BOOLEAN]
NoHandler == [open |-> FALSE, offset |-> 0, end |-> 0, awaiting_ack |-> FALSE, caught_up |-> FALSE]
Frame == [type : {"output", "caught_up", "error"}, offset : Nat]

\* What the page asks for (interactive, followingLatest, historyDirection,
\* rangeStart and rangeStart + rangeBytes), and the window it was given.
Request == [interactive : BOOLEAN, following : BOOLEAN,
            direction : {"tail", "earlier", "later", "hit"}, start : Nat, end : Nat]
Window == [from : Nat, to : Nat]
View == [pc : {"idle", "open", "waiting", "closed"}, range : Request, window : Window,
         shown : Nat, attempts : Nat, caughtUp : BOOLEAN]

Smaller(m, n) == IF m <= n THEN m ELSE n
Larger(m, n) == IF m <= n THEN n ELSE m

-----------------------------------------------------------------------------
(* The task                                                                *)

LogGrows ==
    /\ running /\ ~purged
    /\ size < MaxSize
    /\ size' = size + 1
    /\ UNCHANGED <<purged, running, closing, handler, wire, uplink, view, typed, drops, moves>>

TaskEnds ==
    /\ running
    /\ running' = FALSE
    /\ UNCHANGED <<size, purged, closing, handler, wire, uplink, view, typed, drops, moves>>

TaskPurged ==
    /\ ~running /\ ~purged
    /\ purged' = TRUE
    /\ UNCHANGED <<size, running, closing, handler, wire, uplink, view, typed, drops, moves>>

ShutdownRequested ==
    /\ ~closing
    /\ closing' = TRUE
    /\ UNCHANGED <<size, purged, running, handler, wire, uplink, view, typed, drops, moves>>

-----------------------------------------------------------------------------
(* Connections                                                             *)

\* The stream has no end: the page follows the newest output.
Live(range) == range.interactive /\ range.following

\* terminal_window: the end asked for is cut to the log, as the page knew its size
\* and as it is; then the range is narrowed to what fits the terminal's rows, from
\* its end for a tail or an earlier page, from its start for a later one or a hit.
Windows(range) ==
    LET ends == IF Live(range) THEN {size}
                ELSE range.start..Larger(range.start, Smaller(range.end, size))
        Fits(w, end) ==
            LET start == Larger(range.start, end - WindowBytes)
            IN /\ w.from >= start /\ w.from <= w.to /\ w.to <= end
               /\ start < end => w.from < w.to
               /\ CASE range.direction = "later" -> w.from = start
                    [] range.direction = "hit" -> TRUE
                    [] OTHER -> w.to = end
    IN {w \in [from : 0..size, to : 0..size] : \E end \in ends : Fits(w, end)}

\* A new xterm and a new socket.  The handler narrows the range to a window, at
\* both ends unless the stream has none, and tells the browser; for a deleted task
\* it fails before that, and the socket closes.
Connects(range, attempts) ==
    /\ wire' = <<>>
    /\ uplink' = <<>>
    /\ \/ /\ ~purged
          /\ \E window \in Windows(range) :
                /\ view' = [pc |-> "open", range |-> range, window |-> window,
                            shown |-> window.from, attempts |-> attempts, caughtUp |-> FALSE]
                /\ handler' = [open |-> TRUE, offset |-> window.from,
                               end |-> IF Live(range) THEN NoEnd ELSE window.to,
                               awaiting_ack |-> FALSE, caught_up |-> FALSE]
       \/ /\ purged
          /\ view' = [pc |-> IF attempts < MaxAttempts THEN "waiting" ELSE "closed",
                      range |-> range, window |-> [from |-> 0, to |-> 0], shown |-> 0,
                      attempts |-> attempts, caughtUp |-> FALSE]
          /\ handler' = NoHandler

\* A task is selected: its last bytes, as far as the page knows its size; an
\* administrator follows a task that is not over.
SelectTask ==
    /\ view.pc = "idle"
    /\ \E known \in 0..size, interactive \in BOOLEAN :
          LET start == Larger(0, known - WindowBytes)
          IN Connects([interactive |-> interactive, following |-> TRUE, direction |-> "tail",
                       start |-> start, end |-> start + WindowBytes], 0)
    /\ UNCHANGED <<taskVars, typed, drops, moves>>

\* The connection ends with a code: the browser tries again after a failure, not
\* after a normal, shutdown, bad-request or refused close.
Closes(retry) ==
    /\ handler' = NoHandler
    /\ wire' = <<>>
    /\ uplink' = <<>>
    /\ view' = [view EXCEPT !.pc = IF retry /\ view.attempts < MaxAttempts
                                   THEN "waiting" ELSE "closed"]
    /\ UNCHANGED <<taskVars, typed, moves>>

\* The connection breaks: frames and messages under way are lost.
Drops ==
    /\ view.pc = "open"
    /\ drops < MaxDrop
    /\ drops' = drops + 1
    /\ Closes(TRUE)

\* Mutant: the next connection goes on where the log ends now.
ReconnectsAhead ==
    /\ view.pc = "waiting"
    /\ view' = [view EXCEPT !.pc = "open", !.attempts = @ + 1]
    /\ handler' = [NoHandler EXCEPT !.open = TRUE, !.offset = size, !.end = NoEnd]
    /\ UNCHANGED <<taskVars, wire, uplink, typed, drops, moves>>

\* The timer of onclose: a new connection replays the range from its start.
Reconnects ==
    /\ view.pc = "waiting"
    /\ Connects(view.range, view.attempts + 1)
    /\ UNCHANGED <<taskVars, typed, drops, moves>>

\* shutdown_event is seen at the head of the loop: close code 1001.
HandlerShutsDown ==
    /\ handler.open
    /\ closing
    /\ Closes(FALSE)
    /\ UNCHANGED drops

\* The handler goes to the log: no chunk is unconfirmed and the end not reached.
Wants == ~handler.awaiting_ack /\ handler.offset < handler.end

\* The log or the terminal of a deleted task: KeyError, and the handler returns
\* without a close code of its own.
HandlerLosesTask ==
    /\ handler.open
    /\ ~closing
    /\ purged
    /\ Wants \/ (uplink # <<>> /\ Head(uplink) = "input")
    /\ \E retry \in BOOLEAN : Closes(retry)
    /\ UNCHANGED drops

-----------------------------------------------------------------------------
(* The handler's loop                                                      *)

MayRead == handler.open /\ ~closing /\ ~purged /\ Wants

\* The end of the next chunk of the log.
NextOffset == Smaller(handler.offset + ChunkSize, Smaller(size, handler.end))

\* read_log and the output frame.
HandlerSends ==
    /\ MayRead
    /\ NextOffset > handler.offset
    /\ handler' = [handler EXCEPT !.offset = NextOffset, !.awaiting_ack = TRUE]
    /\ wire' = Append(wire, [type |-> "output", offset |-> NextOffset])
    /\ UNCHANGED <<taskVars, uplink, view, typed, drops, moves>>

\* The first round with nothing to send, which may be one that waits for an ack.
HandlerCaughtUp ==
    /\ handler.open /\ ~closing
    /\ ~handler.caught_up
    /\ ~Wants \/ (~purged /\ NextOffset <= handler.offset)
    /\ handler' = [handler EXCEPT !.caught_up = TRUE]
    /\ wire' = Append(wire, [type |-> "caught_up", offset |-> handler.offset])
    /\ UNCHANGED <<taskVars, uplink, view, typed, drops, moves>>

\* Mutant: an acknowledgement does not let the server read on.
HandlerForgetsAck ==
    /\ handler.open
    /\ uplink # <<>> /\ Head(uplink) = "ack"
    /\ uplink' = Tail(uplink)
    /\ UNCHANGED <<taskVars, handler, wire, view, typed, drops, moves>>

HandlerReceivesAck ==
    /\ handler.open
    /\ uplink # <<>> /\ Head(uplink) = "ack"
    /\ uplink' = Tail(uplink)
    /\ handler' = [handler EXCEPT !.awaiting_ack = FALSE]
    /\ UNCHANGED <<taskVars, wire, view, typed, drops, moves>>

\* write_terminal and resize_terminal: only a task that is not over takes them.
Forwarded == running

\* Input and resize: forwarded to the task, or answered with an error frame.
HandlerReceivesInput ==
    /\ handler.open
    /\ uplink # <<>> /\ Head(uplink) = "input"
    /\ uplink' = Tail(uplink)
    /\ \/ Forwarded /\ ~purged /\ UNCHANGED wire
       \/ wire' = Append(wire, [type |-> "error", offset |-> 0])
    /\ UNCHANGED <<taskVars, handler, view, typed, drops, moves>>

-----------------------------------------------------------------------------
(* The browser                                                             *)

\* The later pages have come to the end of the log as the page knows it.
Resumes == /\ view.range.interactive /\ ~view.range.following
           /\ view.range.direction = "later" /\ view.window.to >= view.range.end

\* onmessage, and the xterm write callback that confirms an output frame.  A page
\* that has come to the end follows the log again, over a new connection.
BrowserRenders ==
    /\ view.pc = "open"
    /\ wire # <<>>
    /\ LET frame == Head(wire)
       IN \/ /\ frame.type = "output"
             /\ view' = [view EXCEPT !.shown = frame.offset]
             /\ uplink' = Append(uplink, "ack")
             /\ wire' = Tail(wire)
             /\ UNCHANGED handler
          \/ /\ frame.type = "caught_up"
             /\ ~Resumes \/ view.window.to < size
             /\ view' = [view EXCEPT !.caughtUp = TRUE]
             /\ wire' = Tail(wire)
             /\ UNCHANGED <<handler, uplink>>
          \/ /\ frame.type = "caught_up"
             /\ Resumes
             /\ Connects([view.range EXCEPT !.following = TRUE, !.direction = "tail"],
                         view.attempts)
          \/ /\ frame.type = "error"
             /\ wire' = Tail(wire)
             /\ UNCHANGED <<handler, uplink, view>>
    /\ UNCHANGED <<taskVars, typed, drops, moves>>

BrowserTypes ==
    /\ view.pc = "open" /\ view.range.interactive
    /\ typed < MaxInput
    /\ typed' = typed + 1
    /\ uplink' = Append(uplink, "input")
    /\ UNCHANGED <<taskVars, handler, wire, view, drops, moves>>

\* The same range over a new connection: a resized terminal that has caught up, or
\* another theme.
Reopens ==
    /\ view.pc # "idle"
    /\ moves < MaxMove
    /\ moves' = moves + 1
    /\ Connects(view.range, view.attempts)
    /\ UNCHANGED <<taskVars, typed, drops>>

\* The page learns that the task is over: what it shows now has an end.
InteractionEnds ==
    /\ view.pc # "idle"
    /\ view.range.interactive /\ ~running
    /\ Connects([view.range EXCEPT !.interactive = FALSE], view.attempts)
    /\ UNCHANGED <<taskVars, typed, drops, moves>>

Turns(direction, start, end) ==
    /\ moves < MaxMove
    /\ moves' = moves + 1
    /\ Connects([view.range EXCEPT !.following = FALSE, !.direction = direction,
                                   !.start = start, !.end = end], view.attempts)
    /\ UNCHANGED <<taskVars, typed, drops>>

Overlap(from, to) == Smaller(OverlapBytes, (to - from) \div OverlapShare)

\* loadAtEdge at the top.  When the stream has gone beyond the window, the window
\* is first asked for again, for the last bytes streamed.
EarlierPage ==
    /\ view.pc # "idle" /\ view.caughtUp
    /\ LET beyond == view.range.following /\ view.shown > view.window.to
           to == IF beyond THEN view.shown ELSE view.window.to
           froms == IF beyond THEN Larger(0, to - WindowBytes)..to ELSE {view.window.from}
       IN /\ view.window.from > 0 \/ beyond
          /\ \E from \in froms :
                LET end == from + Overlap(from, to)
                IN Turns("earlier", Larger(0, end - WindowBytes), end)

\* loadAtEdge at the bottom: from the end of the window on, up to the end of the
\* log as the page knows it.
LaterPage ==
    /\ view.pc # "idle" /\ view.caughtUp /\ ~view.range.following
    /\ \E known \in (view.window.to + 1)..size :
          LET start == view.window.to - Overlap(view.window.from, view.window.to)
          IN Turns("later", start, Smaller(known, start + WindowBytes))

\* openArchiveHit: a small range that begins some context before the hit.
OpenHit ==
    /\ view.pc # "idle"
    /\ \E start \in 0..(size - 1) : Turns("hit", start, start + HitBytes)

\* The stream has been open and has carried frames for a second or more.
AttemptsReplenished ==
    /\ view.pc = "open"
    /\ view.attempts > 0
    /\ view' = [view EXCEPT !.attempts = 0]
    /\ UNCHANGED <<taskVars, handler, wire, uplink, typed, drops, moves>>

-----------------------------------------------------------------------------

TerminalInit ==
    /\ size \in 0..MaxSize
    /\ purged = FALSE
    /\ running = TRUE
    /\ closing = FALSE
    /\ handler = NoHandler
    /\ wire = <<>>
    /\ uplink = <<>>
    /\ view = [pc |-> "idle", window |-> [from |-> 0, to |-> 0],
               range |-> [interactive |-> FALSE, following |-> FALSE, direction |-> "tail",
                          start |-> 0, end |-> 0],
               shown |-> 0, attempts |-> 0, caughtUp |-> FALSE]
    /\ typed = 0
    /\ drops = 0
    /\ moves = 0

TerminalNext ==
    \/ LogGrows
    \/ TaskEnds
    \/ TaskPurged
    \/ ShutdownRequested
    \/ SelectTask
    \/ Drops
    \/ Reconnects
    \/ HandlerShutsDown
    \/ HandlerLosesTask
    \/ HandlerSends
    \/ HandlerCaughtUp
    \/ HandlerReceivesAck
    \/ HandlerReceivesInput
    \/ BrowserRenders
    \/ BrowserTypes
    \/ Reopens
    \/ InteractionEnds
    \/ EarlierPage
    \/ LaterPage
    \/ OpenHit
    \/ AttemptsReplenished

\* The handler's loop runs every 0.1 s, the page's event loop handles its frames
\* and the reconnection timer fires; nothing is assumed of the task, the network or
\* the user.
TerminalFairness ==
    /\ WF_terminalVars(HandlerShutsDown \/ HandlerSends \/ HandlerReceivesAck
                         \/ HandlerReceivesInput)
    /\ WF_terminalVars(BrowserRenders \/ Reconnects)

-----------------------------------------------------------------------------
(* Properties                                                              *)

TerminalTypeOK ==
    /\ size \in 0..MaxSize
    /\ {purged, running, closing} \subseteq BOOLEAN
    /\ handler \in Handler
    /\ wire \in Seq(Frame)
    /\ uplink \in Seq({"ack", "input"})
    /\ view \in View
    /\ typed \in 0..MaxInput
    /\ drops \in 0..MaxDrop
    /\ moves \in 0..MaxMove

Outputs == {i \in DOMAIN wire : wire[i].type = "output"}
Acks == {i \in DOMAIN uplink : uplink[i] = "ack"}

\* Backpressure of the terminal socket: at any moment at most one chunk is on
\* its way to the browser or waits for its confirmation, so neither side ever
\* holds more than one chunk of a log of any length.
OneChunkInFlight == Cardinality(Outputs) + Cardinality(Acks) <= 1

\* Replay has no gap: what the browser has shown ends where the chunk on the
\* wire, or else the server's offset, begins, across reconnections and turned
\* pages, and a stream with an end stops at the end of the window it was given.
ReplayHasNoGap ==
    view.pc = "open" =>
        /\ Outputs = {} => view.shown = handler.offset
        /\ \A i \in Outputs : /\ wire[i].offset = handler.offset
                              /\ handler.offset - view.shown \in 1..ChunkSize
        /\ view.window.from <= view.shown
        /\ view.shown <= Smaller(handler.end, size)
        /\ ~Live(view.range) => handler.end = view.window.to

\* Where what an open view has been promised ends: with the log for one that
\* follows it, else with its window, which may be shorter than the range asked for.
Promised == IF Live(view.range) THEN size ELSE view.window.to

\* A later page begins within the window before it, also when that was narrowed; an
\* earlier one reaches up to it, unless the page's size of the log was behind.
PagesJoin ==
    view'.range # view.range /\ view'.pc = "open" =>
        /\ view'.range.direction = "later" => view'.window.from <= view.window.to
        /\ view'.range.direction = "earlier" =>
              view'.window.to >= view.window.from \/ view'.window.to < view'.range.end

CaughtUp == view.pc \in {"idle", "closed"} \/ purged \/ view.shown >= Promised

\* A view that stays open comes again and again to show every byte up to the end it
\* is promised, unless its connection ends for good: input, errors, late
\* acknowledgements, resizes and reconnections never leave it waiting.  And turning
\* pages forward passes over no byte between them.
ViewCatchesUp ==
    /\ []<>CaughtUp
    /\ [][PagesJoin]_terminalVars

\* What the terminal shows is the log, without a gap and chunk by chunk, across
\* lost acknowledgements, input and reconnections (api.py:1388-1440).
ReplaySound == OneChunkInFlight /\ ReplayHasNoGap
=============================================================================

---------------------------- MODULE EventStream -----------------------------
(***************************************************************************)
(* The event feed: the events table of storage.py, the socket handler of    *)
(* api.py that sends the rows after a cursor, and the shared, reconnecting  *)
(* channel of connections.js that the components of a page subscribe to.    *)
(*                                                                          *)
(* An event is its id; ids are never used again (AUTOINCREMENT), and        *)
(* retention deletes the oldest rows.  Heartbeats only keep the watchdog    *)
(* quiet: a connection that has gone silent is a stalled one.               *)
(***************************************************************************)
EXTENDS Integers, Sequences, FiniteSets, FiniteSetsExt

CONSTANTS
    MaxEvent,   \* bound: events appended
    Limit,      \* rows per events_after (500)
    Consumer,   \* components of the page that use the channel
    MaxBreak    \* bound: connections that break or go silent

ASSUME EventStreamAssumption ==
    /\ {MaxEvent, MaxBreak} \subseteq Nat
    /\ Limit \in Nat \ {0}

Event == 1..MaxEvent
NoCursor == -1

VARIABLES
    events,    \* ids in the events table
    last,      \* the last id given
    allowed,   \* the session may read events
    feed,      \* the socket handler: open, cursor, rows fetched and not sent
    frames,    \* frames on their way to the page
    silent,    \* the connection is dead and the page has not noticed
    channel,   \* "none", "open", "waiting" (for the timer) or "refused"
    cursor,    \* the channel's cursor, NoCursor for undefined
    consumer,  \* consumer[c]: "new", "live" or "closed"
    consumers, \* the reference count of the shared channel
    breaks     \* broken connections so far

eventVars == <<events, last, allowed, feed, frames, silent, channel, cursor, consumer,
               consumers, breaks>>
tableVars == <<events, last, allowed>>
pageVars == <<consumer, consumers>>

-----------------------------------------------------------------------------
(* The table                                                               *)

AppendEvent ==
    /\ last < MaxEvent
    /\ last' = last + 1
    /\ events' = events \cup {last + 1}
    /\ UNCHANGED <<allowed, feed, frames, silent, channel, cursor, pageVars, breaks>>

\* purge_retention deletes the events before a date.
PurgeEvents ==
    /\ \E n \in events : events' = {i \in events : i > n}
    /\ UNCHANGED <<last, allowed, feed, frames, silent, channel, cursor, pageVars, breaks>>

latest_event_id == IF events = {} THEN 0 ELSE Max(events)

\* events_after: the first Limit rows in the order of their ids.
events_after(n) ==
    {i \in events : n < i /\ Cardinality({j \in events : n < j /\ j <= i}) <= Limit}

-----------------------------------------------------------------------------
(* The socket handler                                                      *)

NoFeed == [open |-> FALSE, cursor |-> 0, batch |-> {}]
Ready(n) == [type |-> "ready", id |-> n]
EventFrame(n) == [type |-> "event", id |-> n]

\* Mutant: every connection starts at the newest event.
NewestCursor(after) == latest_event_id

\* _initial_event_cursor
InitialCursor(after) == IF after = NoCursor THEN latest_event_id ELSE after

\* event_socket up to the ready frame, for the cursor the page sends.
Accept(after) ==
    /\ silent' = FALSE
    /\ \/ /\ allowed
          /\ feed' = [open |-> TRUE, cursor |-> InitialCursor(after), batch |-> {}]
          /\ frames' = <<Ready(InitialCursor(after))>>
          /\ channel' = "open"
       \/ /\ ~allowed
          /\ feed' = NoFeed
          /\ frames' = <<>>
          /\ channel' = "refused"

FeedFetches ==
    /\ feed.open
    /\ feed.batch = {}
    /\ allowed
    /\ events_after(feed.cursor) # {}
    /\ feed' = [feed EXCEPT !.batch = events_after(feed.cursor)]
    /\ UNCHANGED <<tableVars, frames, silent, channel, cursor, pageVars, breaks>>

\* The rows are sent in their order.  A frame sent over a dead connection is lost.
FeedSends ==
    /\ feed.open
    /\ feed.batch # {}
    /\ allowed
    /\ LET row == Min(feed.batch)
       IN /\ feed' = [feed EXCEPT !.cursor = row, !.batch = @ \ {row}]
          /\ frames' = IF silent THEN frames ELSE Append(frames, EventFrame(row))
    /\ UNCHANGED <<tableVars, silent, channel, cursor, pageVars, breaks>>

\* The session has ended: close code 4403, after which the page does not return.
FeedRefuses ==
    /\ feed.open
    /\ ~allowed
    /\ ~silent
    /\ feed' = NoFeed
    /\ frames' = <<>>
    /\ channel' = "refused"
    /\ UNCHANGED <<tableVars, silent, cursor, pageVars, breaks>>

SessionEnds ==
    /\ allowed
    /\ allowed' = FALSE
    /\ UNCHANGED <<events, last, feed, frames, silent, channel, cursor, pageVars, breaks>>

-----------------------------------------------------------------------------
(* The page                                                                *)

\* onmessage: listeners are called, then the cursor follows.
ChannelReceives ==
    /\ channel = "open"
    /\ frames # <<>>
    /\ cursor' = Head(frames).id
    /\ frames' = Tail(frames)
    /\ UNCHANGED <<tableVars, feed, silent, channel, pageVars, breaks>>

\* The connection breaks, or the server shuts down (1001) and comes back.
ConnectionBreaks ==
    /\ channel = "open"
    /\ breaks < MaxBreak
    /\ breaks' = breaks + 1
    /\ feed' = NoFeed
    /\ frames' = <<>>
    /\ silent' = FALSE
    /\ channel' = "waiting"
    /\ UNCHANGED <<tableVars, cursor, pageVars>>

\* The connection dies with no close frame; what was on its way is lost.
ConnectionStalls ==
    /\ channel = "open"
    /\ ~silent
    /\ breaks < MaxBreak
    /\ breaks' = breaks + 1
    /\ silent' = TRUE
    /\ frames' = <<>>
    /\ UNCHANGED <<tableVars, feed, channel, cursor, pageVars>>

\* Mutant: the watchdog is set for the handshake and not again by a frame.
WatchdogOnce ==
    /\ channel = "open"
    /\ silent
    /\ cursor = NoCursor
    /\ feed' = NoFeed
    /\ silent' = FALSE
    /\ channel' = "waiting"
    /\ UNCHANGED <<tableVars, frames, cursor, pageVars, breaks>>

\* 45 s without a frame.
WatchdogFires ==
    /\ channel = "open"
    /\ silent
    /\ feed' = NoFeed
    /\ silent' = FALSE
    /\ channel' = "waiting"
    /\ UNCHANGED <<tableVars, frames, cursor, pageVars, breaks>>

\* The backoff timer of onclose.
ChannelReconnects ==
    /\ channel = "waiting"
    /\ Accept(cursor)
    /\ UNCHANGED <<tableVars, cursor, pageVars, breaks>>

\* eventChannel(): the first consumer creates the shared channel.
Subscribe(c) ==
    /\ consumer[c] = "new"
    /\ consumer' = [consumer EXCEPT ![c] = "live"]
    /\ consumers' = consumers + 1
    /\ \/ /\ channel = "none"
          /\ cursor' = NoCursor
          /\ Accept(NoCursor)
       \/ /\ channel # "none"
          /\ UNCHANGED <<feed, frames, silent, channel, cursor>>
    /\ UNCHANGED <<tableVars, breaks>>

\* The consumer lets go: the last one closes the channel.
LetGo(c) ==
    /\ consumer' = [consumer EXCEPT ![c] = "closed"]
    /\ consumers' = consumers - 1
    /\ \/ /\ consumers = 1
          /\ channel' = "none"
          /\ feed' = NoFeed
          /\ frames' = <<>>
          /\ silent' = FALSE
       \/ /\ consumers # 1
          /\ UNCHANGED <<feed, frames, silent, channel>>
    /\ UNCHANGED <<tableVars, cursor, breaks>>

\* close() of a consumer; a second call finds closed set and returns.
Unsubscribe(c) ==
    /\ consumer[c] = "live"
    /\ LetGo(c)

-----------------------------------------------------------------------------

EventInit ==
    /\ events = {}
    /\ last = 0
    /\ allowed = TRUE
    /\ feed = NoFeed
    /\ frames = <<>>
    /\ silent = FALSE
    /\ channel = "none"
    /\ cursor = NoCursor
    /\ consumer = [c \in Consumer |-> "new"]
    /\ consumers = 0
    /\ breaks = 0

EventNext ==
    \/ AppendEvent
    \/ PurgeEvents
    \/ FeedFetches
    \/ FeedSends
    \/ FeedRefuses
    \/ SessionEnds
    \/ ChannelReceives
    \/ ConnectionBreaks
    \/ ConnectionStalls
    \/ WatchdogFires
    \/ ChannelReconnects
    \/ \E c \in Consumer : Subscribe(c) \/ Unsubscribe(c)

\* The handler's loop, the page's event loop and its timers run.
EventFairness ==
    /\ WF_eventVars(FeedFetches \/ FeedSends \/ FeedRefuses)
    /\ WF_eventVars(ChannelReceives \/ WatchdogFires \/ ChannelReconnects)

-----------------------------------------------------------------------------
(* Properties                                                              *)

EventTypeOK ==
    /\ events \subseteq Event
    /\ last \in 0..MaxEvent
    /\ allowed \in BOOLEAN
    /\ feed.open \in BOOLEAN /\ feed.cursor \in 0..MaxEvent /\ feed.batch \subseteq Event
    /\ \A i \in DOMAIN frames : frames[i].type \in {"ready", "event"} /\ frames[i].id \in 0..MaxEvent
    /\ silent \in BOOLEAN
    /\ channel \in {"none", "open", "waiting", "refused"}
    /\ cursor \in -1..MaxEvent
    /\ consumer \in [Consumer -> {"new", "live", "closed"}]
    /\ consumers \in Nat
    /\ breaks \in 0..MaxBreak

\* Resuming neither repeats nor skips: while one channel lives, its cursor only
\* moves forward, and an event it passes over had been deleted by retention.
\* The first ready frame sets the starting point.
NoSkipNoRepeat ==
    [][cursor # NoCursor /\ cursor' # NoCursor /\ cursor' # cursor =>
        /\ cursor' > cursor
        /\ \A i \in events : i > cursor => i >= cursor']_eventVars

\* An event committed after the channel's starting point reaches the page, or
\* is deleted first, or the page closes the channel or loses its session;
\* silent connections are noticed and replaced.
EventsArrive ==
    \A n \in Event :
        (n \in events /\ channel # "none" /\ cursor \in 0..(n - 1))
            ~> (cursor >= n \/ n \notin events \/ channel \in {"none", "refused"})

=============================================================================

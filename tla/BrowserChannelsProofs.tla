----------------------- MODULE BrowserChannelsProofs ------------------------
(***************************************************************************)
(* The sockets of a page, for any number of events, log bytes, breaks and    *)
(* reconnections: the event cursor neither skips nor repeats                 *)
(* (NoSkipNoRepeat), and what the terminal shows has no gap (ReplaySound).   *)
(* Both invariants follow the data along its way: the table, the rows        *)
(* fetched, the frames on the wire and the page's own position meet end to   *)
(* end at every moment.                                                      *)
(***************************************************************************)
EXTENDS BrowserChannels, FiniteSetTheorems, WellFoundedInduction, TLAPS

-----------------------------------------------------------------------------
(* The event feed                                                          *)

EventsTyped ==
    /\ last \in 0..MaxEvent
    /\ events \in SUBSET (1..last)
    /\ feed \in [open : BOOLEAN, cursor : 0..last, batch : SUBSET (1..last)]
    /\ frames \in Seq([type : {"ready", "event"}, id : Nat])
    /\ \A i \in 1..Len(frames) : frames[i].id <= last
    /\ cursor \in {NoCursor} \cup 0..last

\* The server's end and the page's end of a connection; a dead one carries nothing.
Connected ==
    /\ feed.open <=> channel = "open"
    /\ channel # "open" \/ silent => frames = <<>>

\* Going from a to b passes over no event that is still in the table.
Covers(table, a, b) == a <= b /\ \A i \in table : a < i => b <= i

\* From the page's cursor over the frames on the wire to the handler's cursor.
WireCovers ==
    channel = "open" /\ ~silent =>
        /\ frames = <<>> => cursor = feed.cursor
        /\ frames # <<>> => frames[Len(frames)].id = feed.cursor
        /\ frames # <<>> /\ cursor # NoCursor => Covers(events, cursor, frames[1].id)
        /\ \A i \in 1..(Len(frames) - 1) : Covers(events, frames[i].id, frames[i + 1].id)

\* From the handler's cursor over the rows it has fetched to the rest of the table.
BatchCovers ==
    /\ \A b \in feed.batch : feed.cursor < b
    /\ \A i \in events : feed.cursor < i => i \in feed.batch \/ \A b \in feed.batch : b < i

FeedInv == EventsTyped /\ Connected /\ WireCovers /\ BatchCovers

-----------------------------------------------------------------------------
(* The terminal                                                            *)

\* The two ends of the socket; a closed one carries nothing.
Attached ==
    /\ handler.open <=> view.pc = "open"
    /\ ~handler.open => wire = <<>> /\ uplink = <<>>

\* A chunk is on the wire, or its acknowledgement is, or neither.
OneOfThem ==
    /\ ~handler.awaiting_ack => Outputs = {} /\ Acks = {}
    /\ Outputs = {} \/ Acks = {}
    /\ \A i, j \in Outputs : i = j
    /\ \A i, j \in Acks : i = j

Reached(n) == view.window.from <= n /\ n <= handler.end /\ n <= size

\* What is shown, the chunk on the wire and the handler's offset meet.
Adjacent ==
    handler.open =>
        /\ Outputs = {} => view.shown = handler.offset
        /\ \A i \in Outputs : /\ wire[i].offset = handler.offset
                              /\ handler.offset - view.shown \in 1..ChunkSize
        /\ Reached(handler.offset) /\ Reached(view.shown)
        /\ ~Live(view.range) => handler.end = view.window.to

TermInv == TerminalTypeOK /\ view.window.from <= view.window.to /\ Attached /\ OneOfThem /\ Adjacent

ChannelsInv == FeedInv /\ TermInv

-----------------------------------------------------------------------------
(* Smallest and largest members                                            *)

LEMMA MinExists ==
    ASSUME NEW T \in SUBSET Nat, T # {}
    PROVE  Min(T) \in T /\ \A y \in T : Min(T) <= y
<1>1. T \subseteq Nat
  OBVIOUS
<1>2. PICK x \in T : \A y \in T : ~(<<y, x>> \in OpToRel(<, Nat))
  BY NatLessThanWellFounded, WFMin
<1>3. \A y \in T : ~(y < x)
  BY <1>1, <1>2 DEF OpToRel
<1>4. \A y \in T : x <= y
  BY <1>1, <1>3
<1> QED
  BY <1>4 DEF Min

LEMMA MaxExists ==
    ASSUME NEW n \in Nat, NEW T \in SUBSET (0..n), T # {}
    PROVE  Max(T) \in T
<1> DEFINE D == {n - s : s \in T}
<1>1. D \in SUBSET Nat
  OBVIOUS
<1>2. D # {}
  OBVIOUS
<1>3. Min(D) \in D /\ \A y \in D : Min(D) <= y
  BY <1>1, <1>2, MinExists
<1>4. PICK x \in T : Min(D) = n - x
  BY <1>3
<1>5. \A y \in T : n - x <= n - y
  BY <1>3, <1>4
<1>6. \A y \in T : x >= y
  BY <1>5
<1> QED
  BY <1>6 DEF Max

-----------------------------------------------------------------------------
(* Steps of the event feed                                                 *)

LEMMA MemberOfSeq ==
    ASSUME NEW R, NEW s \in Seq(R), NEW i \in 1..Len(s)
    PROVE  s[i] \in R
OBVIOUS

LEMMA LatestInTable == EventsTyped => latest_event_id \in 0..last
<1> SUFFICES ASSUME EventsTyped, events # {} PROVE Max(events) \in 0..last
  BY DEF EventsTyped, latest_event_id
<1>1. last \in Nat /\ events \in SUBSET (0..last)
  BY EventStreamAssumption DEF EventsTyped
<1> QED
  BY <1>1, MaxExists

\* events_after leaves out only what comes after everything it returns.
LEMMA FirstRows ==
    ASSUME EventsTyped, NEW n \in 0..last
    PROVE  /\ events_after(n) \subseteq events
           /\ \A b \in events_after(n) : n < b
           /\ \A i \in events : n < i => i \in events_after(n) \/ \A b \in events_after(n) : b < i
<1> DEFINE upto(i) == {j \in events : n < j /\ j <= i}
<1>1. events \in SUBSET Nat /\ IsFiniteSet(events) /\ Limit \in Nat /\ n \in Nat
  <2>1. last \in Nat /\ events \in SUBSET (1..last)
    BY EventStreamAssumption DEF EventsTyped
  <2>2. IsFiniteSet(1..last)
    BY <2>1, FS_Interval
  <2>3. IsFiniteSet(events)
    BY <2>1, <2>2, FS_Subset
  <2> QED
    BY <2>1, <2>3, EventStreamAssumption
<1>2. ASSUME NEW i \in events, NEW b \in events, i <= b, Cardinality(upto(b)) <= Limit
      PROVE  Cardinality(upto(i)) <= Limit
  <2>1. upto(i) \in SUBSET upto(b) /\ upto(b) \in SUBSET events
    <3>1. i \in Nat /\ b \in Nat /\ \A j \in events : j \in Nat
      BY <1>1
    <3>2. \A j \in events : j <= i => j <= b
      BY <1>2, <3>1
    <3> QED
      BY <3>2
  <2>2. IsFiniteSet(upto(b)) /\ IsFiniteSet(upto(i))
    BY <1>1, <2>1, FS_Subset
  <2> HIDE DEF upto
  <2>3. Cardinality(upto(i)) <= Cardinality(upto(b))
    BY <2>1, <2>2, FS_Subset
  <2>4. Cardinality(upto(i)) \in Nat /\ Cardinality(upto(b)) \in Nat
    BY <2>2, FS_CardinalityType
  <2> QED
    BY <1>1, <1>2, <2>3, <2>4
<1>3. events_after(n) = {i \in events : n < i /\ Cardinality(upto(i)) <= Limit}
  BY DEF events_after
<1> HIDE DEF upto
<1>4. ASSUME NEW i \in events, n < i, i \notin events_after(n), NEW b \in events_after(n)
      PROVE  b < i
  <2>1. b \in events /\ Cardinality(upto(b)) <= Limit /\ ~(Cardinality(upto(i)) <= Limit)
    BY <1>3, <1>4
  <2>2. ~(i <= b)
    BY <1>2, <2>1
  <2> QED
    BY <1>1, <2>1, <2>2
<1> QED
  BY <1>3, <1>4

\* The table grows at its end and shrinks at its beginning.
LEMMA TableStep == FeedInv /\ (AppendEvent \/ PurgeEvents \/ SessionEnds) => FeedInv'
<1> SUFFICES ASSUME FeedInv, AppendEvent \/ PurgeEvents \/ SessionEnds PROVE FeedInv'
  OBVIOUS
<1> USE DEF FeedInv
<1>1. UNCHANGED <<feed, frames, silent, channel, cursor>>
  BY DEF AppendEvent, PurgeEvents, SessionEnds
<1>2. last \in Nat /\ MaxEvent \in Nat /\ events \in SUBSET (1..last)
  BY EventStreamAssumption DEF EventsTyped
<1>3. last' \in 0..MaxEvent /\ last <= last' /\ events' \in SUBSET (1..last')
      /\ \A i \in events' : i \in events \/ i > last
  <2>1. CASE AppendEvent
    BY <1>2, <2>1 DEF AppendEvent, EventsTyped
  <2>2. CASE PurgeEvents
    <3>1. UNCHANGED last /\ \A i \in events' : i \in events
      BY <2>2 DEF PurgeEvents
    <3>2. events' \in SUBSET (1..last')
      BY <1>2, <3>1
    <3>3. last' \in 0..MaxEvent /\ last <= last'
      BY <1>2, <3>1 DEF EventsTyped
    <3> QED
      BY <3>1, <3>2, <3>3
  <2>3. CASE SessionEnds
    BY <1>2, <2>3 DEF SessionEnds, EventsTyped
  <2> QED
    BY <2>1, <2>2, <2>3
<1>4. \A i \in 1..Len(frames) : frames[i].id \in Nat /\ frames[i].id <= last
  <2>1. \A i \in 1..Len(frames) : frames[i] \in [type : {"ready", "event"}, id : Nat]
    BY MemberOfSeq DEF EventsTyped
  <2> QED
    BY <2>1 DEF EventsTyped
<1>5. EventsTyped'
  <2>1. feed' \in [open : BOOLEAN, cursor : 0..last', batch : SUBSET (1..last')]
    BY <1>1, <1>2, <1>3 DEF EventsTyped
  <2>2. \A i \in 1..Len(frames') : frames'[i].id <= last'
    BY <1>1, <1>2, <1>3, <1>4
  <2>3. cursor' \in {NoCursor} \cup 0..last'
    BY <1>1, <1>2, <1>3 DEF EventsTyped
  <2> QED
    BY <1>1, <1>3, <2>1, <2>2, <2>3 DEF EventsTyped
<1>6. ASSUME NEW a, NEW b, b <= last, b \in Nat, Covers(events, a, b)
      PROVE  Covers(events', a, b)
  BY <1>2, <1>3, <1>6 DEF Covers
<1>7. WireCovers'
  <2>1. \A i \in 1..(Len(frames) - 1) : i + 1 \in 1..Len(frames)
    BY DEF EventsTyped
  <2>2. frames # <<>> => 1 \in 1..Len(frames)
    BY DEF EventsTyped
  <2> QED
    BY <1>1, <1>6, <1>4, <2>1, <2>2 DEF WireCovers
<1>8. BatchCovers'
  BY <1>1, <1>2, <1>3 DEF BatchCovers, EventsTyped
<1>9. Connected'
  BY <1>1 DEF Connected
<1> QED
  BY <1>5, <1>7, <1>8, <1>9

\* A connection is accepted: one ready frame, from the page's cursor on.
LEMMA AcceptStep ==
    ASSUME FeedInv, NEW after \in {NoCursor} \cup 0..last, Accept(after), cursor' = after,
           UNCHANGED tableVars
    PROVE  FeedInv'
<1> USE DEF FeedInv
<1>1. UNCHANGED <<events, last>> /\ silent' = FALSE
  BY DEF Accept, tableVars
<1>2. last \in Nat
  BY EventStreamAssumption DEF EventsTyped
<1>3. CASE channel' = "refused"
  <2>1. feed' = [open |-> FALSE, cursor |-> 0, batch |-> {}] /\ frames' = <<>>
    BY <1>3 DEF Accept, NoFeed
  <2>2. EventsTyped'
    BY <1>1, <1>2, <2>1 DEF EventsTyped
  <2> QED
    BY <1>3, <2>1, <2>2 DEF Connected, WireCovers, BatchCovers
<1>4. CASE channel' = "open"
  <2> DEFINE x == InitialCursor(after)
  <2>1. x \in 0..last /\ (after # NoCursor => x = after)
    BY LatestInTable DEF InitialCursor
  <2>2. /\ feed' = [open |-> TRUE, cursor |-> x, batch |-> {}]
        /\ frames' = <<[type |-> "ready", id |-> x]>>
    BY <1>4 DEF Accept, Ready
  <2> HIDE DEF x
  <2>3. Len(frames') = 1 /\ frames'[1].id = x /\ frames' # <<>>
    BY <2>2
  <2>4. frames' \in Seq([type : {"ready", "event"}, id : Nat])
    BY <1>2, <2>1, <2>2
  <2>5. EventsTyped'
    BY <1>1, <1>2, <2>1, <2>2, <2>3, <2>4 DEF EventsTyped
  <2>6. WireCovers'
    <3>1. Covers(events, x, x)
      <4>1. x \in Int /\ \A i \in events : i \in Int
        BY <1>2, <2>1 DEF EventsTyped
      <4> QED
        BY <4>1 DEF Covers
    <3>2. 1..(Len(frames') - 1) = {}
      BY <2>3
    <3> QED
      BY <1>1, <2>1, <2>2, <2>3, <3>1, <3>2 DEF WireCovers
  <2>7. Connected' /\ BatchCovers'
    BY <1>1, <1>4, <2>2 DEF Connected, BatchCovers
  <2> QED
    BY <2>5, <2>6, <2>7
<1> QED
  BY <1>3, <1>4 DEF Accept

\* The connection ends: nothing is on its way any more.
LEMMA EndStep ==
    ASSUME FeedInv, feed' = NoFeed, frames' = <<>>, channel' # "open",
           UNCHANGED <<events, last, cursor>>
    PROVE  FeedInv'
<1>1. last \in Nat
  BY EventStreamAssumption DEF FeedInv, EventsTyped
<1> QED
  BY <1>1 DEF FeedInv, NoFeed, EventsTyped, Connected, WireCovers, BatchCovers

\* The next rows are fetched: they are the next ones in the table.
LEMMA FetchStep == FeedInv /\ FeedFetches => FeedInv'
<1> SUFFICES ASSUME FeedInv, FeedFetches PROVE FeedInv'
  OBVIOUS
<1> USE DEF FeedInv
<1>1. /\ UNCHANGED <<events, last, frames, silent, channel, cursor>>
      /\ feed' = [feed EXCEPT !.batch = events_after(feed.cursor)]
  BY DEF FeedFetches, tableVars
<1>2. feed.cursor \in 0..last /\ events \in SUBSET (1..last)
  BY DEF EventsTyped
<1>3. /\ feed'.batch = events_after(feed.cursor)
      /\ UNCHANGED <<feed.cursor, feed.open>>
  BY <1>1 DEF EventsTyped
<1>4. events_after(feed.cursor) \in SUBSET (1..last)
  BY <1>2, FirstRows
<1>5. EventsTyped'
  BY <1>1, <1>4 DEF EventsTyped
<1>6. BatchCovers'
  BY <1>1, <1>2, <1>3, FirstRows DEF BatchCovers
<1>7. Connected' /\ WireCovers'
  BY <1>1, <1>3 DEF Connected, WireCovers
<1> QED
  BY <1>5, <1>6, <1>7

\* The first of the rows is sent; over a dead connection it is lost.
LEMMA SendStep == FeedInv /\ FeedSends => FeedInv'
<1> SUFFICES ASSUME FeedInv, FeedSends PROVE FeedInv'
  OBVIOUS
<1> USE DEF FeedInv
<1> DEFINE row == Min(feed.batch)
           frame == [type |-> "event", id |-> row]
<1>1. /\ UNCHANGED <<events, last, silent, channel, cursor>> /\ feed.open /\ feed.batch # {}
      /\ feed' = [feed EXCEPT !.cursor = row, !.batch = @ \ {row}]
      /\ frames' = IF silent THEN frames ELSE Append(frames, frame)
  BY DEF FeedSends, EventFrame, tableVars
<1>2. last \in Nat /\ feed.batch \in SUBSET (1..last) /\ feed.cursor \in 0..last
      /\ events \in SUBSET (1..last)
  BY EventStreamAssumption DEF EventsTyped
<1>3. row \in feed.batch /\ \A b \in feed.batch : row <= b
  <2>1. feed.batch \in SUBSET Nat
    BY <1>2
  <2> QED
    BY <1>1, <2>1, MinExists
<1>4. row \in 1..last /\ frame \in [type : {"ready", "event"}, id : Nat] /\ frame.id = row
  BY <1>2, <1>3
<1> HIDE DEF row, frame
<1>5. feed'.cursor = row /\ feed'.batch = feed.batch \ {row} /\ feed'.open
  BY <1>1 DEF EventsTyped
<1>6. Covers(events, feed.cursor, row)
  BY <1>2, <1>3 DEF BatchCovers, Covers
<1>7. BatchCovers'
  <2>1. \A b \in feed.batch \ {row} : row < b
    BY <1>2, <1>3
  <2>2. \A i \in events : row < i => i \in feed.batch \ {row} \/ \A b \in feed.batch \ {row} : b < i
    BY <1>2, <1>3 DEF BatchCovers
  <2> QED
    BY <1>1, <1>5, <2>1, <2>2 DEF BatchCovers
<1>8. frames \in Seq([type : {"ready", "event"}, id : Nat]) /\ Len(frames) \in Nat
  BY DEF EventsTyped
<1>9. feed' \in [open : BOOLEAN, cursor : 0..last, batch : SUBSET (1..last)]
  <2>1. row \in 0..last
    BY <1>2, <1>4
  <2>2. feed.batch \ {row} \in SUBSET (1..last)
    BY <1>2
  <2>3. feed \in [open : BOOLEAN, cursor : 0..last, batch : SUBSET (1..last)]
    BY DEF EventsTyped
  <2> QED
    BY <1>1, <2>1, <2>2, <2>3
<1>10. CASE silent
  <2>1. frames' = frames /\ silent'
    BY <1>1, <1>10
  <2>2. EventsTyped'
    BY <1>1, <1>9, <2>1 DEF EventsTyped
  <2> QED
    BY <1>1, <1>5, <1>7, <2>1, <2>2 DEF Connected, WireCovers
<1>11. CASE ~silent
  <2>1. /\ frames' = Append(frames, frame) /\ Len(frames') = Len(frames) + 1
        /\ frames' \in Seq([type : {"ready", "event"}, id : Nat])
        /\ frames'[Len(frames) + 1] = frame
        /\ \A i \in 1..Len(frames) : frames'[i] = frames[i]
    BY <1>1, <1>4, <1>8, <1>11
  <2>2. EventsTyped'
    <3>1. \A i \in 1..Len(frames') : frames'[i].id <= last
      <4> SUFFICES ASSUME NEW i \in 1..Len(frames') PROVE frames'[i].id <= last
        OBVIOUS
      <4>1. CASE i = Len(frames) + 1
        BY <1>4, <2>1, <4>1
      <4>2. CASE i # Len(frames) + 1
        BY <1>8, <2>1, <4>2 DEF EventsTyped
      <4> QED
        BY <4>1, <4>2
    <3> QED
      BY <1>1, <1>9, <2>1, <3>1 DEF EventsTyped
  <2>3. WireCovers'
    <3> SUFFICES ASSUME channel = "open"
                 PROVE  /\ frames'[Len(frames')].id = row
                        /\ cursor # NoCursor => Covers(events, cursor, frames'[1].id)
                        /\ \A i \in 1..Len(frames) : Covers(events, frames'[i].id, frames'[i + 1].id)
      BY <1>1, <1>5, <1>8, <2>1 DEF WireCovers
    <3>1. frames'[Len(frames')].id = row
      BY <1>4, <2>1
    <3>2. cursor # NoCursor => Covers(events, cursor, frames'[1].id)
      <4>1. CASE frames = <<>>
        <5>1. frames'[1] = frame
          BY <2>1, <4>1
        <5> QED
          BY <1>4, <1>6, <1>11, <4>1, <5>1 DEF WireCovers
      <4>2. CASE frames # <<>>
        <5>1. 1 \in 1..Len(frames)
          BY <1>8, <4>2
        <5> QED
          BY <1>11, <2>1, <4>2, <5>1 DEF WireCovers
      <4> QED
        BY <4>1, <4>2
    <3>3. ASSUME NEW i \in 1..Len(frames) PROVE Covers(events, frames'[i].id, frames'[i + 1].id)
      <4>1. CASE i = Len(frames)
        <5>1. frames'[i] = frames[i] /\ frames'[i + 1] = frame /\ frames # <<>>
          BY <1>8, <2>1, <4>1
        <5> QED
          BY <1>4, <1>6, <1>11, <4>1, <5>1 DEF WireCovers
      <4>2. CASE i # Len(frames)
        <5>1. i \in 1..(Len(frames) - 1) /\ i + 1 \in 1..Len(frames)
          BY <1>8, <4>2
        <5> QED
          BY <1>11, <2>1, <5>1 DEF WireCovers
      <4> QED
        BY <4>1, <4>2
    <3> QED
      BY <3>1, <3>2, <3>3
  <2>4. Connected'
    BY <1>1, <1>5, <1>11 DEF Connected
  <2> QED
    BY <1>7, <2>2, <2>3, <2>4
<1> QED
  BY <1>10, <1>11

\* The page takes the first frame: its cursor passes over nothing.
LEMMA ReceiveStep ==
    ASSUME FeedInv, ChannelReceives
    PROVE  /\ FeedInv'
           /\ cursor # NoCursor => Covers(events, cursor, cursor')
<1> USE DEF FeedInv
<1>1. /\ UNCHANGED <<events, last, feed, silent, channel>> /\ channel = "open" /\ frames # <<>>
      /\ cursor' = Head(frames).id /\ frames' = Tail(frames)
  BY DEF ChannelReceives, tableVars
<1>2. ~silent
  BY <1>1 DEF Connected
<1>3. frames \in Seq([type : {"ready", "event"}, id : Nat]) /\ Len(frames) \in Nat \ {0}
  BY <1>1 DEF EventsTyped
<1>4. /\ Len(frames') = Len(frames) - 1
      /\ frames' \in Seq([type : {"ready", "event"}, id : Nat])
      /\ \A i \in 1..Len(frames') : frames'[i] = frames[i + 1]
  BY <1>1, <1>3
<1>5. cursor' = frames[1].id /\ cursor' \in 0..last
  <2>1. 1 \in 1..Len(frames) /\ Head(frames) = frames[1]
    BY <1>3
  <2>2. frames[1] \in [type : {"ready", "event"}, id : Nat]
    BY <1>3, <2>1, MemberOfSeq
  <2>3. last \in Nat
    BY EventStreamAssumption DEF EventsTyped
  <2> QED
    BY <1>1, <2>1, <2>2, <2>3 DEF EventsTyped
<1>6. cursor # NoCursor => Covers(events, cursor, cursor')
  BY <1>1, <1>2, <1>5 DEF WireCovers
<1>7. EventsTyped'
  <2>1. \A i \in 1..Len(frames') : i + 1 \in 1..Len(frames)
    BY <1>3, <1>4
  <2>2. \A i \in 1..Len(frames') : frames'[i].id <= last
    BY <1>4, <2>1 DEF EventsTyped
  <2> QED
    BY <1>1, <1>4, <1>5, <2>2 DEF EventsTyped
<1>8. WireCovers'
  <2>1. \A i \in 1..(Len(frames') - 1) : Covers(events, frames'[i].id, frames'[i + 1].id)
    <3> SUFFICES ASSUME NEW i \in 1..(Len(frames') - 1)
                 PROVE  Covers(events, frames'[i].id, frames'[i + 1].id)
      OBVIOUS
    <3>1. i \in 1..Len(frames') /\ i + 1 \in 1..Len(frames') /\ i + 1 \in 1..(Len(frames) - 1)
      BY <1>3, <1>4
    <3> QED
      BY <1>1, <1>2, <1>4, <3>1 DEF WireCovers
  <2>2. CASE frames' = <<>>
    <3>1. Len(frames) = 1
      BY <1>3, <1>4, <2>2
    <3> QED
      BY <1>1, <1>2, <1>5, <2>1, <2>2, <3>1 DEF WireCovers
  <2>3. CASE frames' # <<>>
    <3>1. /\ 1 \in 1..Len(frames') /\ Len(frames') \in 1..Len(frames')
          /\ 1 \in 1..(Len(frames) - 1) /\ Len(frames') + 1 = Len(frames)
      BY <1>3, <1>4, <2>3
    <3>2. frames'[1] = frames[2] /\ frames'[Len(frames')] = frames[Len(frames)]
      BY <1>4, <3>1
    <3> QED
      BY <1>1, <1>2, <1>5, <2>1, <2>3, <3>1, <3>2 DEF WireCovers
  <2> QED
    BY <2>2, <2>3
<1>9. Connected' /\ BatchCovers'
  BY <1>1, <1>2 DEF Connected, BatchCovers
<1> QED
  BY <1>6, <1>7, <1>8, <1>9

LEMMA StallStep == FeedInv /\ ConnectionStalls => FeedInv'
BY DEF ConnectionStalls, FeedInv, EventsTyped, Connected, WireCovers, BatchCovers, tableVars

LEMMA FeedStep == FeedInv /\ [EventNext]_eventVars => FeedInv'
<1> SUFFICES ASSUME FeedInv, [EventNext]_eventVars PROVE FeedInv'
  OBVIOUS
<1>1. CASE FeedRefuses \/ ConnectionBreaks \/ WatchdogFires
  <2>1. frames' = <<>>
    BY <1>1 DEF FeedRefuses, ConnectionBreaks, WatchdogFires, FeedInv, Connected
  <2> QED
    BY <1>1, <2>1, EndStep DEF FeedRefuses, ConnectionBreaks, WatchdogFires, tableVars
<1>2. CASE ChannelReconnects
  <2>1. cursor \in {NoCursor} \cup 0..last
    BY DEF FeedInv, EventsTyped
  <2> QED
    BY <1>2, <2>1, AcceptStep DEF ChannelReconnects
<1>3. ASSUME NEW c \in Consumer, Subscribe(c) PROVE FeedInv'
  <2>1. CASE channel = "none"
    BY <1>3, <2>1, AcceptStep DEF Subscribe
  <2>2. CASE channel # "none"
    <3>1. UNCHANGED <<events, last, feed, frames, silent, channel, cursor>>
      BY <1>3, <2>2 DEF Subscribe, tableVars
    <3> QED
      BY <3>1 DEF FeedInv, EventsTyped, Connected, WireCovers, BatchCovers
  <2> QED
    BY <2>1, <2>2
<1>4. ASSUME NEW c \in Consumer, Unsubscribe(c) PROVE FeedInv'
  <2>1. CASE consumers = 1
    BY <1>4, <2>1, EndStep DEF Unsubscribe, LetGo, tableVars
  <2>2. CASE consumers # 1
    BY <1>4, <2>2
    DEF Unsubscribe, LetGo, FeedInv, EventsTyped, Connected, WireCovers, BatchCovers, tableVars
  <2> QED
    BY <2>1, <2>2
<1>5. CASE UNCHANGED eventVars
  BY <1>5 DEF FeedInv, EventsTyped, Connected, WireCovers, BatchCovers, eventVars
<1> QED
  BY <1>1, <1>2, <1>3, <1>4, <1>5, TableStep, FetchStep, SendStep, ReceiveStep, StallStep
  DEF EventNext

-----------------------------------------------------------------------------
(* Steps of the terminal                                                   *)

LEMMA SmallerOfTwo ==
    ASSUME NEW a \in Nat, NEW b \in Nat
    PROVE  Smaller(a, b) \in {a, b} /\ Smaller(a, b) <= a /\ Smaller(a, b) <= b
BY DEF Smaller

LEMMA LargerOfTwo ==
    ASSUME NEW a \in Nat, NEW b \in Int
    PROVE  Larger(a, b) \in Nat
BY DEF Larger

\* Pages share no more than the page they overlap with has.
LEMMA OverlapWithin ==
    ASSUME NEW from \in Nat, NEW to \in Nat, from <= to
    PROVE  Overlap(from, to) \in 0..(to - from)
<1>1. OverlapShare \in Nat \ {0} /\ OverlapBytes \in Nat /\ to - from \in Nat
  BY TerminalSocketAssumption
<1>2. (to - from) \div OverlapShare \in 0..(to - from)
  BY <1>1
<1> QED
  BY <1>1, <1>2, SmallerOfTwo DEF Overlap

LEMMA NextChunk ==
    ASSUME TerminalTypeOK, NextOffset > handler.offset
    PROVE  /\ NextOffset \in Nat /\ NextOffset <= size /\ NextOffset <= handler.end
           /\ NextOffset - handler.offset \in 1..ChunkSize
<1>1. handler.offset \in Nat /\ handler.end \in Nat /\ size \in Nat /\ ChunkSize \in Nat
      /\ handler.offset + ChunkSize \in Nat
  <2>1. handler.offset \in Nat /\ handler.end \in Nat
    BY DEF TerminalTypeOK, Handler
  <2>2. size \in Nat /\ ChunkSize \in Nat
    BY TerminalSocketAssumption DEF TerminalTypeOK
  <2> QED
    BY <2>1, <2>2
<1>2. /\ NextOffset \in Nat /\ NextOffset <= handler.offset + ChunkSize
      /\ NextOffset <= size /\ NextOffset <= handler.end
  BY <1>1 DEF NextOffset, Smaller
<1> QED
  BY <1>1, <1>2

\* The outputs on the wire after a frame more, and after a frame less.
LEMMA WireAppend ==
    ASSUME TerminalTypeOK, NEW f \in Frame, wire' = Append(wire, f)
    PROVE  /\ wire' \in Seq(Frame)
           /\ f.type # "output" => Outputs' = Outputs
           /\ f.type = "output" => Outputs' = Outputs \cup {Len(wire) + 1}
           /\ wire'[Len(wire) + 1] = f
           /\ \A i \in Outputs : wire'[i] = wire[i] /\ i # Len(wire) + 1
<1>1. wire \in Seq(Frame) /\ Len(wire) \in Nat
  BY DEF TerminalTypeOK
<1>2. /\ wire' \in Seq(Frame) /\ DOMAIN wire' = DOMAIN wire \cup {Len(wire) + 1}
      /\ DOMAIN wire = 1..Len(wire)
      /\ wire'[Len(wire) + 1] = f /\ \A i \in DOMAIN wire : wire'[i] = wire[i]
  BY <1>1
<1>3. Len(wire) + 1 \notin DOMAIN wire
  BY <1>1, <1>2
<1> QED
  BY <1>2, <1>3 DEF Outputs

LEMMA WireTail ==
    ASSUME TerminalTypeOK, wire # <<>>, wire' = Tail(wire)
    PROVE  /\ wire' \in Seq(Frame) /\ Head(wire) = wire[1] /\ wire[1] \in Frame
           /\ \A i \in Outputs' : i + 1 \in Outputs /\ wire'[i] = wire[i + 1] /\ i \in Nat \ {0}
           /\ \A i \in Outputs : i \in Nat /\ (i # 1 => i - 1 \in Outputs')
           /\ 1 \in Outputs <=> wire[1].type = "output"
<1>1. wire \in Seq(Frame) /\ Len(wire) \in Nat \ {0}
  BY DEF TerminalTypeOK
<1>2. /\ wire' \in Seq(Frame) /\ DOMAIN wire' = 1..(Len(wire) - 1) /\ DOMAIN wire = 1..Len(wire)
      /\ \A i \in DOMAIN wire' : wire'[i] = wire[i + 1]
  BY <1>1
<1>3. /\ \A i \in DOMAIN wire' : i + 1 \in DOMAIN wire /\ i \in Nat \ {0}
      /\ \A i \in DOMAIN wire : i \in Nat /\ (i # 1 => i - 1 \in DOMAIN wire' /\ (i - 1) + 1 = i)
      /\ 1 \in DOMAIN wire
  BY <1>1, <1>2
<1>4. Head(wire) = wire[1] /\ wire[1] \in Frame
  BY <1>1, <1>3
<1> QED
  BY <1>2, <1>3, <1>4 DEF Outputs

LEMMA UplinkAppend ==
    ASSUME TerminalTypeOK, NEW m \in {"ack", "input"}, uplink' = Append(uplink, m)
    PROVE  /\ uplink' \in Seq({"ack", "input"})
           /\ m = "input" => Acks' = Acks
           /\ m = "ack" => Acks' = Acks \cup {Len(uplink) + 1}
<1>1. uplink \in Seq({"ack", "input"}) /\ Len(uplink) \in Nat
  BY DEF TerminalTypeOK
<1>2. /\ uplink' \in Seq({"ack", "input"})
      /\ DOMAIN uplink' = DOMAIN uplink \cup {Len(uplink) + 1} /\ DOMAIN uplink = 1..Len(uplink)
      /\ uplink'[Len(uplink) + 1] = m /\ \A i \in DOMAIN uplink : uplink'[i] = uplink[i]
  BY <1>1
<1>3. Len(uplink) + 1 \notin DOMAIN uplink
  BY <1>1, <1>2
<1> QED
  BY <1>2, <1>3 DEF Acks

LEMMA UplinkTail ==
    ASSUME TerminalTypeOK, uplink # <<>>, uplink' = Tail(uplink)
    PROVE  /\ uplink' \in Seq({"ack", "input"}) /\ Head(uplink) = uplink[1]
           /\ \A i \in Acks' : i + 1 \in Acks /\ i \in Nat \ {0}
           /\ 1 \in Acks <=> uplink[1] = "ack"
<1>1. uplink \in Seq({"ack", "input"}) /\ Len(uplink) \in Nat \ {0}
  BY DEF TerminalTypeOK
<1>2. /\ uplink' \in Seq({"ack", "input"}) /\ DOMAIN uplink' = 1..(Len(uplink) - 1)
      /\ DOMAIN uplink = 1..Len(uplink)
      /\ \A i \in DOMAIN uplink' : uplink'[i] = uplink[i + 1]
  BY <1>1
<1>3. /\ \A i \in DOMAIN uplink' : i + 1 \in DOMAIN uplink /\ i \in Nat \ {0}
      /\ 1 \in DOMAIN uplink
  BY <1>1, <1>2
<1>4. Head(uplink) = uplink[1]
  BY <1>1
<1> QED
  BY <1>2, <1>3, <1>4 DEF Acks

\* The task goes on beside the socket: its log only grows.
LEMMA TaskMoves ==
    ASSUME TermInv, LogGrows \/ TaskEnds \/ TaskPurged \/ ShutdownRequested
    PROVE  TermInv'
<1> USE DEF TermInv
<1>1. UNCHANGED <<handler, wire, uplink, view, typed, drops, moves>>
  BY DEF LogGrows, TaskEnds, TaskPurged, ShutdownRequested
<1>2. size \in Nat /\ size' \in 0..MaxSize /\ size <= size'
  <2>1. size \in 0..MaxSize /\ MaxSize \in Nat
    BY TerminalSocketAssumption DEF TerminalTypeOK
  <2>2. (size < MaxSize /\ size' = size + 1) \/ size' = size
    BY DEF LogGrows, TaskEnds, TaskPurged, ShutdownRequested
  <2> QED
    BY <2>1, <2>2
<1>b. {purged, running, closing}' \subseteq BOOLEAN
  <2>1. {purged, running, closing} \subseteq BOOLEAN
    BY DEF TerminalTypeOK
  <2>2. (purged' = TRUE \/ purged' = purged) /\ (running' = FALSE \/ running' = running)
        /\ (closing' = TRUE \/ closing' = closing)
    BY Zenon DEF LogGrows, TaskEnds, TaskPurged, ShutdownRequested
  <2> QED
    BY <2>1, <2>2, Zenon
<1>3. TerminalTypeOK'
  BY <1>1, <1>2, <1>b, Zenon DEF TerminalTypeOK
<1>4. Attached' /\ OneOfThem'
  BY <1>1 DEF Attached, OneOfThem, Outputs, Acks
<1>5. \A n \in Nat : Reached(n) => Reached(n)'
  BY <1>1, <1>2 DEF Reached
<1>6. handler.offset \in Nat /\ view.shown \in Nat
  BY DEF TerminalTypeOK, Handler, View
<1>7. Adjacent'
  BY <1>1, <1>5, <1>6 DEF Adjacent, Outputs
<1> QED
  BY <1>1, <1>3, <1>4, <1>7

\* A window lies within the log.
LEMMA WindowsWithin ==
    ASSUME NEW range, NEW w \in Windows(range), size \in Nat
    PROVE  /\ w \in Window
           /\ w.from <= w.to /\ w.to <= size
<1>1. w \in [from : 0..size, to : 0..size] /\ w.from <= w.to
  BY DEF Windows
<1> QED
  BY <1>1 DEF Window

\* A new connection begins at one place on both sides.
LEMMA ConnectsStep ==
    ASSUME TermInv, NEW range \in Request, NEW attempts \in Nat, Connects(range, attempts),
           UNCHANGED <<taskVars, typed, drops>>, moves' \in 0..MaxMove
    PROVE  TermInv'
<1> USE DEF TermInv
<1>1. size \in Nat /\ MaxSize \in Nat /\ UNCHANGED <<size, purged, running, closing>>
  BY TerminalSocketAssumption DEF TerminalTypeOK, taskVars
<1>2. wire' = <<>> /\ uplink' = <<>>
  BY DEF Connects
<1>3. Outputs' = {} /\ Acks' = {}
  BY <1>2 DEF Outputs, Acks
<1>4. CASE ~purged
  <2>1. PICK w \in Windows(range) :
          /\ view' = [pc |-> "open", range |-> range, window |-> w, shown |-> w.from,
                      attempts |-> attempts, caughtUp |-> FALSE]
          /\ handler' = [open |-> TRUE, offset |-> w.from,
                         end |-> IF Live(range) THEN NoEnd ELSE w.to,
                         awaiting_ack |-> FALSE, caught_up |-> FALSE]
    BY <1>4, Zenon DEF Connects
  <2>2. w \in Window /\ w.from \in Nat /\ w.to \in Nat /\ w.from <= w.to /\ w.to <= size
    BY <1>1, WindowsWithin DEF Window
  <2> DEFINE end == IF Live(range) THEN NoEnd ELSE w.to
  <2>3. end \in Nat /\ w.from <= end /\ (~Live(range) => end = w.to)
    BY <1>1, <2>2 DEF NoEnd, TerminalTypeOK
  <2> HIDE DEF end
  <2>4. /\ view' \in View /\ view'.pc = "open" /\ view'.range = range /\ view'.window = w
        /\ view'.shown = w.from
    BY <2>1, <2>2 DEF View
  <2>5. /\ handler' \in Handler /\ handler'.open /\ handler'.offset = w.from
        /\ handler'.end = end /\ ~handler'.awaiting_ack
    BY <2>1, <2>2, <2>3 DEF Handler, end
  <2>6. TerminalTypeOK'
    BY <1>1, <1>2, <2>4, <2>5 DEF TerminalTypeOK
  <2>7. Attached' /\ OneOfThem'
    BY <1>3, <2>4, <2>5 DEF Attached, OneOfThem
  <2>8. Adjacent'
    BY <1>1, <1>3, <2>2, <2>3, <2>4, <2>5 DEF Adjacent, Reached, Live
  <2> QED
    BY <2>2, <2>4, <2>6, <2>7, <2>8
<1>5. CASE purged
  <2>1. /\ view' = [pc |-> IF attempts < MaxAttempts THEN "waiting" ELSE "closed",
                    range |-> range, window |-> [from |-> 0, to |-> 0], shown |-> 0,
                    attempts |-> attempts, caughtUp |-> FALSE]
        /\ handler' = [open |-> FALSE, offset |-> 0, end |-> 0, awaiting_ack |-> FALSE,
                       caught_up |-> FALSE]
    BY <1>5 DEF Connects, NoHandler
  <2>2. view' \in View /\ view'.pc # "open" /\ view'.window.from <= view'.window.to
    BY <2>1 DEF View, Window
  <2>3. TerminalTypeOK'
    BY <1>1, <1>2, <2>1, <2>2 DEF TerminalTypeOK, Handler
  <2> QED
    BY <1>2, <1>3, <2>1, <2>2, <2>3 DEF Attached, OneOfThem, Adjacent
<1> QED
  BY <1>4, <1>5

LEMMA ClosesStep ==
    ASSUME TermInv, NEW retry \in BOOLEAN, Closes(retry), drops' \in 0..MaxDrop
    PROVE  TermInv'
<1> USE DEF TermInv
<1>1. /\ handler' = [open |-> FALSE, offset |-> 0, end |-> 0, awaiting_ack |-> FALSE,
                     caught_up |-> FALSE]
      /\ wire' = <<>> /\ uplink' = <<>>
      /\ UNCHANGED <<size, purged, running, closing, typed, moves>>
  BY DEF Closes, NoHandler, taskVars
<1>2. view' \in View /\ view'.pc # "open" /\ view'.window = view.window
  BY DEF Closes, TerminalTypeOK, View
<1>3. TerminalTypeOK'
  BY <1>1, <1>2 DEF TerminalTypeOK, Handler
<1>4. Outputs' = {} /\ Acks' = {}
  BY <1>1 DEF Outputs, Acks
<1> QED
  BY <1>1, <1>2, <1>3, <1>4 DEF Attached, OneOfThem, Adjacent

\* The next chunk is sent when nothing is on its way.
LEMMA HandlerSendsStep ==
    ASSUME TermInv, HandlerSends
    PROVE  TermInv'
<1> USE DEF TermInv
<1> DEFINE f == [type |-> "output", offset |-> NextOffset]
<1>1. /\ handler.open /\ ~handler.awaiting_ack /\ NextOffset > handler.offset
      /\ handler' = [handler EXCEPT !.offset = NextOffset, !.awaiting_ack = TRUE]
      /\ wire' = Append(wire, f)
      /\ UNCHANGED <<size, purged, running, closing, uplink, view, typed, drops, moves>>
  BY DEF HandlerSends, MayRead, Wants, taskVars
<1>2. /\ NextOffset \in Nat /\ NextOffset <= size /\ NextOffset <= handler.end
      /\ NextOffset - handler.offset \in 1..ChunkSize
  BY <1>1, NextChunk
<1>3. f \in Frame /\ f.type = "output" /\ f.offset = NextOffset
  BY <1>2 DEF Frame
<1> HIDE DEF f
<1>4. Outputs = {} /\ Acks = {} /\ view.shown = handler.offset /\ Reached(view.shown)
      /\ handler.offset \in Nat /\ view.window.from \in Nat
      /\ (~Live(view.range) => handler.end = view.window.to)
  BY <1>1 DEF OneOfThem, Adjacent, TerminalTypeOK, Handler, View, Window
<1>5. /\ wire' \in Seq(Frame) /\ Outputs' = {Len(wire) + 1} /\ wire'[Len(wire) + 1] = f
  BY <1>1, <1>3, <1>4, WireAppend
<1>6. /\ handler' \in Handler /\ handler'.open /\ handler'.offset = NextOffset
      /\ handler'.end = handler.end /\ handler'.awaiting_ack
  BY <1>1, <1>2 DEF TerminalTypeOK, Handler
<1>7. TerminalTypeOK'
  BY <1>1, <1>5, <1>6 DEF TerminalTypeOK
<1>8. Acks' = {}
  BY <1>1, <1>4 DEF Acks
<1>9. Attached' /\ OneOfThem'
  BY <1>1, <1>5, <1>6, <1>8 DEF Attached, OneOfThem
<1>10. view.window.from <= NextOffset
  BY <1>1, <1>2, <1>4 DEF Reached
<1>11. Adjacent'
  BY <1>1, <1>2, <1>3, <1>4, <1>5, <1>6, <1>10 DEF Adjacent, Reached
<1> QED
  BY <1>1, <1>7, <1>9, <1>11

\* Frames without output and messages without acknowledgement change nothing.
LEMMA AsideStep ==
    ASSUME TermInv, HandlerCaughtUp \/ HandlerReceivesInput \/ BrowserTypes \/ AttemptsReplenished
    PROVE  TermInv'
<1> USE DEF TermInv
<1>1. UNCHANGED <<size, purged, running, closing, drops, moves>>
  BY DEF HandlerCaughtUp, HandlerReceivesInput, BrowserTypes, AttemptsReplenished, taskVars
<1>2. /\ handler' \in Handler
      /\ handler'.open = handler.open /\ handler'.offset = handler.offset
      /\ handler'.end = handler.end /\ handler'.awaiting_ack = handler.awaiting_ack
  BY DEF HandlerCaughtUp, HandlerReceivesInput, BrowserTypes, AttemptsReplenished,
         TerminalTypeOK, Handler
<1>3. /\ view' \in View
      /\ view'.pc = view.pc /\ view'.range = view.range /\ view'.window = view.window
      /\ view'.shown = view.shown
  <2>1. CASE HandlerCaughtUp \/ HandlerReceivesInput \/ BrowserTypes
    BY <2>1 DEF HandlerCaughtUp, HandlerReceivesInput, BrowserTypes, TerminalTypeOK
  <2>2. CASE AttemptsReplenished
    BY <2>2, TerminalSocketAssumption DEF AttemptsReplenished, TerminalTypeOK, View
  <2> QED
    BY <2>1, <2>2
<1>4. typed' \in 0..MaxInput
  <2>1. typed \in 0..MaxInput /\ MaxInput \in Nat
    BY TerminalSocketAssumption DEF TerminalTypeOK
  <2>2. CASE HandlerCaughtUp \/ HandlerReceivesInput \/ AttemptsReplenished
    <3>1. typed' = typed
      BY <2>2 DEF HandlerCaughtUp, HandlerReceivesInput, AttemptsReplenished
    <3> QED
      BY <2>1, <3>1
  <2>3. CASE BrowserTypes
    <3>1. typed < MaxInput /\ typed' = typed + 1
      BY <2>3 DEF BrowserTypes
    <3> HIDE DEF TermInv
    <3> QED
      BY <2>1, <3>1
  <2> QED
    BY <2>2, <2>3
<1>5. /\ wire' \in Seq(Frame) /\ Outputs' = Outputs /\ \A i \in Outputs : wire'[i] = wire[i]
      /\ handler.open \/ wire' = wire
  <2>1. CASE UNCHANGED wire
    BY <2>1 DEF TerminalTypeOK, Outputs
  <2>2. CASE ~UNCHANGED wire
    <3>1. PICK f \in Frame : f.type # "output" /\ wire' = Append(wire, f)
      <4>1. CASE HandlerCaughtUp
        <5>1. [type |-> "caught_up", offset |-> handler.offset] \in Frame
          BY DEF TerminalTypeOK, Handler, Frame
        <5> QED
          BY <4>1, <5>1 DEF HandlerCaughtUp
      <4>2. CASE HandlerReceivesInput
        <5>1. [type |-> "error", offset |-> 0] \in Frame
          BY DEF Frame
        <5> QED
          BY <2>2, <4>2, <5>1 DEF HandlerReceivesInput
      <4> QED
        BY <2>2, <4>1, <4>2 DEF BrowserTypes, AttemptsReplenished
    <3> QED
      BY <2>2, <3>1, WireAppend
      DEF HandlerCaughtUp, HandlerReceivesInput, BrowserTypes, AttemptsReplenished
  <2> QED
    BY <2>1, <2>2
<1>6. /\ (uplink' \in Seq({"ack", "input"}) /\ handler.open) \/ uplink' = uplink
      /\ Acks' = {} \/ Acks # {}
      /\ \A i, j \in Acks' : i = j
  <2>1. CASE UNCHANGED uplink
    BY <2>1 DEF TerminalTypeOK, Acks, OneOfThem
  <2>2. CASE ~UNCHANGED uplink
    <3>1. handler.open
      BY <2>2 DEF HandlerCaughtUp, HandlerReceivesInput, BrowserTypes, AttemptsReplenished, Attached
    <3>2. CASE BrowserTypes
      BY <3>1, <3>2, UplinkAppend DEF BrowserTypes, OneOfThem
    <3>3. CASE HandlerReceivesInput
      <4>1. /\ uplink' \in Seq({"ack", "input"})
            /\ \A i \in Acks' : i + 1 \in Acks /\ i \in Nat \ {0}
        BY <3>3, UplinkTail DEF HandlerReceivesInput
      <4> QED
        BY <3>1, <4>1 DEF OneOfThem
    <3> QED
      BY <2>2, <3>2, <3>3 DEF HandlerCaughtUp, AttemptsReplenished
  <2> QED
    BY <2>1, <2>2
<1>7. TerminalTypeOK'
  BY <1>1, <1>2, <1>3, <1>4, <1>5, <1>6 DEF TerminalTypeOK
<1>8. Attached'
  BY <1>2, <1>3, <1>5, <1>6 DEF Attached
<1>9. OneOfThem'
  BY <1>2, <1>5, <1>6 DEF OneOfThem
<1>10. Adjacent'
  BY <1>1, <1>2, <1>3, <1>5 DEF Adjacent, Reached
<1> QED
  BY <1>3, <1>7, <1>8, <1>9, <1>10

\* The acknowledgement arrives: nothing is on its way any more.
LEMMA AckStep ==
    ASSUME TermInv, HandlerReceivesAck
    PROVE  TermInv'
<1> USE DEF TermInv
<1>1. /\ handler.open /\ uplink # <<>> /\ Head(uplink) = "ack" /\ uplink' = Tail(uplink)
      /\ handler' = [handler EXCEPT !.awaiting_ack = FALSE]
      /\ UNCHANGED <<size, purged, running, closing, wire, view, typed, drops, moves>>
  BY DEF HandlerReceivesAck, taskVars
<1>2. /\ uplink' \in Seq({"ack", "input"}) /\ 1 \in Acks
      /\ \A i \in Acks' : i + 1 \in Acks /\ i \in Nat \ {0}
  BY <1>1, UplinkTail
<1>3. Acks' = {}
  BY <1>2 DEF OneOfThem
<1>4. Outputs = {} /\ Outputs' = {}
  BY <1>1, <1>2 DEF OneOfThem, Outputs
<1>5. /\ handler' \in Handler /\ handler'.open /\ handler'.offset = handler.offset
      /\ handler'.end = handler.end
  BY <1>1 DEF TerminalTypeOK, Handler
<1>6. TerminalTypeOK'
  BY <1>1, <1>2, <1>5 DEF TerminalTypeOK
<1> QED
  BY <1>1, <1>3, <1>4, <1>5, <1>6 DEF Attached, OneOfThem, Adjacent, Reached

\* A connection for the same range, or for one that follows the log.
LEMMA RequestKept ==
    ASSUME TermInv
    PROVE  /\ view.range \in Request /\ view.attempts \in Nat
           /\ [view.range EXCEPT !.following = TRUE, !.direction = "tail"] \in Request
           /\ [view.range EXCEPT !.interactive = FALSE] \in Request
<1>1. view.range \in Request /\ view.attempts \in Nat
  BY DEF TermInv, TerminalTypeOK, View
<1> QED
  BY <1>1 DEF Request

Resumed == [view.range EXCEPT !.following = TRUE, !.direction = "tail"]

\* The page handles the first frame on the wire.
LEMMA RenderStep ==
    ASSUME TermInv, BrowserRenders, ~Connects(Resumed, view.attempts)
    PROVE  TermInv'
<1> USE DEF TermInv
<1>1. /\ view.pc = "open" /\ handler.open /\ wire # <<>> /\ wire' = Tail(wire)
      /\ UNCHANGED <<size, purged, running, closing, handler, typed, drops, moves>>
  BY Zenon DEF BrowserRenders, Resumed, Attached, taskVars
<1>2. /\ wire' \in Seq(Frame) /\ Head(wire) = wire[1] /\ wire[1] \in Frame
      /\ \A i \in Outputs' : i + 1 \in Outputs /\ wire'[i] = wire[i + 1] /\ i \in Nat \ {0}
      /\ \A i \in Outputs : i \in Nat /\ (i # 1 => i - 1 \in Outputs')
      /\ 1 \in Outputs <=> wire[1].type = "output"
  BY <1>1, WireTail
<1>3. CASE wire[1].type = "output"
  <2>1. view' = [view EXCEPT !.shown = wire[1].offset] /\ uplink' = Append(uplink, "ack")
    BY <1>2, <1>3, Zenon DEF BrowserRenders
  <2>2. 1 \in Outputs /\ Acks = {} /\ handler.awaiting_ack
    BY <1>2, <1>3 DEF OneOfThem
  <2>3. Outputs' = {}
    BY <1>2, <2>2 DEF OneOfThem
  <2>4. uplink' \in Seq({"ack", "input"}) /\ Acks' = {Len(uplink) + 1}
    BY <2>1, <2>2, UplinkAppend
  <2>5. wire[1].offset = handler.offset
    BY <1>1, <2>2 DEF Adjacent
  <2>6. /\ view' \in View /\ view'.pc = "open" /\ view'.range = view.range /\ view'.window = view.window
        /\ view'.shown = handler.offset
    BY <1>1, <2>1, <2>5 DEF TerminalTypeOK, View, Handler
  <2>7. TerminalTypeOK'
    BY <1>1, <1>2, <2>4, <2>6 DEF TerminalTypeOK
  <2>8. Attached' /\ OneOfThem'
    BY <1>1, <2>2, <2>3, <2>4, <2>6 DEF Attached, OneOfThem
  <2>9. Adjacent'
    BY <1>1, <2>3, <2>6 DEF Adjacent, Reached
  <2> QED
    BY <2>6, <2>7, <2>8, <2>9
<1>4. CASE wire[1].type # "output"
  <2>1. UNCHANGED uplink /\ view' \in {view, [view EXCEPT !.caughtUp = TRUE]}
    BY <1>2, <1>4, Zenon DEF BrowserRenders, Resumed
  <2>2. /\ view' \in View /\ view'.pc = view.pc /\ view'.range = view.range /\ view'.window = view.window
        /\ view'.shown = view.shown
    BY <2>1 DEF TerminalTypeOK, View
  <2>3. 1 \notin Outputs /\ (Outputs = {} <=> Outputs' = {})
    BY <1>2, <1>4
  <2>4. \A i, j \in Outputs' : i = j
    <3> SUFFICES ASSUME NEW i \in Outputs', NEW j \in Outputs' PROVE i = j
      OBVIOUS
    <3>1. i + 1 = j + 1 /\ i \in Nat /\ j \in Nat
      BY <1>2 DEF OneOfThem
    <3> QED
      BY <3>1
  <2>5. TerminalTypeOK'
    BY <1>1, <1>2, <2>1, <2>2 DEF TerminalTypeOK
  <2>6. Acks' = Acks
    BY <2>1 DEF Acks
  <2>7. Attached' /\ OneOfThem'
    BY <1>1, <2>2, <2>3, <2>4, <2>6 DEF Attached, OneOfThem
  <2>8. Adjacent'
    BY <1>1, <1>2, <2>2, <2>3 DEF Adjacent, Reached
  <2> QED
    BY <2>2, <2>5, <2>7, <2>8
<1> QED
  BY <1>3, <1>4

\* A page resumes following the log.
LEMMA ResumeStep ==
    ASSUME TermInv, BrowserRenders, Connects(Resumed, view.attempts)
    PROVE  TermInv'
<1>1. UNCHANGED <<taskVars, typed, drops, moves>>
  BY DEF BrowserRenders
<1>2. moves' \in 0..MaxMove
  BY <1>1 DEF TermInv, TerminalTypeOK
<1> QED
  BY <1>1, <1>2, RequestKept, ConnectsStep DEF Resumed

\* The user turns a page.
LEMMA TurnStep ==
    ASSUME TermInv, NEW direction \in {"earlier", "later", "hit"}, NEW start \in Nat, NEW end \in Nat,
           Turns(direction, start, end)
    PROVE  TermInv'
<1> DEFINE request == [view.range EXCEPT !.following = FALSE, !.direction = direction,
                                         !.start = start, !.end = end]
<1>1. view.range \in Request /\ view.attempts \in Nat
  BY RequestKept
<1>2. request \in Request
  BY <1>1 DEF Request
<1>3. Connects(request, view.attempts) /\ UNCHANGED <<taskVars, typed, drops>>
  BY DEF Turns
<1>4. moves' \in 0..MaxMove
  <2>1. moves \in 0..MaxMove /\ MaxMove \in Nat
    BY TerminalSocketAssumption DEF TermInv, TerminalTypeOK
  <2>2. moves < MaxMove /\ moves' = moves + 1
    BY DEF Turns
  <2> QED
    BY <2>1, <2>2
<1> HIDE DEF request
<1> QED
  BY <1>1, <1>2, <1>3, <1>4, ConnectsStep

\* Ranges begin and end within the natural numbers.
LEMMA PageStep ==
    ASSUME TermInv, EarlierPage \/ LaterPage \/ OpenHit
    PROVE  TermInv'
<1>1. /\ view.window.from \in Nat /\ view.window.to \in Nat /\ view.window.from <= view.window.to
      /\ view.shown \in Nat /\ size \in Nat /\ WindowBytes \in Nat /\ HitBytes \in Nat
  BY TerminalSocketAssumption DEF TermInv, TerminalTypeOK, View, Window
<1>2. CASE EarlierPage
  <2> DEFINE beyond == view.range.following /\ view.shown > view.window.to
             to == IF beyond THEN view.shown ELSE view.window.to
             froms == IF beyond THEN Larger(0, to - WindowBytes)..to ELSE {view.window.from}
             end(from) == from + Overlap(from, to)
  <2>1. \E from \in froms : Turns("earlier", Larger(0, end(from) - WindowBytes), end(from))
    BY <1>2, Zenon DEF EarlierPage
  <2>2. to \in Nat /\ \A from \in froms : from \in Nat /\ from <= to
    BY <1>1 DEF Larger
  <2> HIDE DEF froms, to
  <2>3. PICK from \in froms : Turns("earlier", Larger(0, end(from) - WindowBytes), end(from))
    BY <2>1
  <2>4. end(from) \in Nat
    BY <2>2, OverlapWithin
  <2> HIDE DEF end
  <2>5. Larger(0, end(from) - WindowBytes) \in Nat
    BY <1>1, <2>4 DEF Larger
  <2> QED
    BY <2>3, <2>4, <2>5, TurnStep
<1>3. CASE LaterPage
  <2> DEFINE start == view.window.to - Overlap(view.window.from, view.window.to)
  <2>1. PICK known \in (view.window.to + 1)..size :
          Turns("later", start, Smaller(known, start + WindowBytes))
    BY <1>3, Zenon DEF LaterPage
  <2>2. start \in Nat
    <3>1. Overlap(view.window.from, view.window.to) \in 0..(view.window.to - view.window.from)
      BY <1>1, OverlapWithin
    <3> QED
      BY <1>1, <3>1
  <2> HIDE DEF start
  <2>3. Smaller(known, start + WindowBytes) \in Nat
    BY <1>1, <2>2 DEF Smaller
  <2> QED
    BY <2>1, <2>2, <2>3, TurnStep
<1>4. CASE OpenHit
  <2>1. PICK start \in 0..(size - 1) : Turns("hit", start, start + HitBytes)
    BY <1>4, Zenon DEF OpenHit
  <2>2. start \in Nat /\ start + HitBytes \in Nat
    BY <1>1
  <2> QED
    BY <2>1, <2>2, TurnStep
<1> QED
  BY <1>2, <1>3, <1>4

LEMMA TermStep == TermInv /\ [TerminalNext]_terminalVars => TermInv'
<1> SUFFICES ASSUME TermInv, [TerminalNext]_terminalVars PROVE TermInv'
  OBVIOUS
<1>0. UNCHANGED moves => moves' \in 0..MaxMove
  BY DEF TermInv, TerminalTypeOK
<1>1. CASE SelectTask
  <2>1. PICK known \in 0..size, interactive \in BOOLEAN :
          LET start == Larger(0, known - WindowBytes)
          IN Connects([interactive |-> interactive, following |-> TRUE, direction |-> "tail",
                       start |-> start, end |-> start + WindowBytes], 0)
    BY <1>1, Zenon DEF SelectTask
  <2> DEFINE start == Larger(0, known - WindowBytes)
             request == [interactive |-> interactive, following |-> TRUE, direction |-> "tail",
                         start |-> start, end |-> start + WindowBytes]
  <2>2. size \in Nat /\ WindowBytes \in Nat
    BY TerminalSocketAssumption DEF TermInv, TerminalTypeOK
  <2>3. start \in Nat /\ start + WindowBytes \in Nat
    BY <2>2, LargerOfTwo
  <2>4. Connects(request, 0)
    BY <2>1
  <2> HIDE DEF start
  <2>5. request \in Request
    BY <2>3 DEF Request
  <2> HIDE DEF request
  <2>6. UNCHANGED <<taskVars, typed, drops, moves>>
    BY <1>1 DEF SelectTask
  <2> QED
    BY <1>0, <2>4, <2>5, <2>6, ConnectsStep
<1>2. CASE Reconnects \/ InteractionEnds
  <2>1. view.attempts + 1 \in Nat
    BY RequestKept
  <2> QED
    BY <1>0, <1>2, <2>1, RequestKept, ConnectsStep DEF Reconnects, InteractionEnds
<1>7. CASE Reopens
  <2>1. moves' \in 0..MaxMove
    <3>1. moves \in 0..MaxMove /\ MaxMove \in Nat
      BY TerminalSocketAssumption DEF TermInv, TerminalTypeOK
    <3>2. moves < MaxMove /\ moves' = moves + 1
      BY <1>7 DEF Reopens
    <3> QED
      BY <3>1, <3>2
  <2> QED
    BY <1>7, <2>1, RequestKept, ConnectsStep DEF Reopens
<1>3. CASE Drops
  <2>1. drops' \in 0..MaxDrop
    <3>1. drops \in 0..MaxDrop /\ MaxDrop \in Nat
      BY TerminalSocketAssumption DEF TermInv, TerminalTypeOK
    <3>2. drops < MaxDrop /\ drops' = drops + 1
      BY <1>3 DEF Drops
    <3> QED
      BY <3>1, <3>2
  <2> QED
    BY <1>3, <2>1, ClosesStep DEF Drops
<1>4. CASE HandlerShutsDown \/ HandlerLosesTask
  <2>1. drops' \in 0..MaxDrop
    BY <1>4 DEF HandlerShutsDown, HandlerLosesTask, TermInv, TerminalTypeOK
  <2> QED
    BY <1>4, <2>1, ClosesStep DEF HandlerShutsDown, HandlerLosesTask
<1>5. CASE UNCHANGED terminalVars
  BY <1>5
  DEF TermInv, TerminalTypeOK, Attached, OneOfThem, Adjacent, Reached, Outputs, Acks,
      terminalVars, taskVars
<1>6. CASE BrowserRenders
  BY <1>6, RenderStep, ResumeStep
<1> QED
  BY <1>1, <1>2, <1>3, <1>4, <1>5, <1>6, <1>7, TaskMoves, HandlerSendsStep, AsideStep, AckStep, PageStep
  DEF TerminalNext

-----------------------------------------------------------------------------
(* Theorems                                                                *)

LEMMA ChannelsInitial == Init => ChannelsInv
<1> SUFFICES ASSUME Init PROVE FeedInv /\ TermInv
  BY DEF ChannelsInv
<1>1. FeedInv
  <2>1. EventsTyped
    BY EventStreamAssumption DEF Init, EventInit, NoFeed, EventsTyped
  <2> QED
    BY <2>1 DEF Init, EventInit, NoFeed, FeedInv, Connected, WireCovers, BatchCovers
<1>2. TerminalTypeOK
  <2>1. handler \in Handler
    BY DEF Init, TerminalInit, NoHandler, Handler
  <2>2. view \in View
    BY DEF Init, TerminalInit, View, Request, Window
  <2>3. wire \in Seq(Frame) /\ uplink \in Seq({"ack", "input"})
    BY DEF Init, TerminalInit
  <2>4. size \in 0..MaxSize /\ typed \in 0..MaxInput /\ drops \in 0..MaxDrop
        /\ moves \in 0..MaxMove
    BY TerminalSocketAssumption DEF Init, TerminalInit
  <2>5. {purged, running, closing} \subseteq BOOLEAN
    BY Zenon DEF Init, TerminalInit
  <2> QED
    BY <2>1, <2>2, <2>3, <2>4, <2>5 DEF TerminalTypeOK
<1>3. Outputs = {} /\ Acks = {}
  BY DEF Init, TerminalInit, Outputs, Acks
<1>4. TermInv
  BY <1>2, <1>3 DEF Init, TerminalInit, NoHandler, TermInv, Attached, OneOfThem, Adjacent
<1> QED
  BY <1>1, <1>4

LEMMA ChannelsStep == ChannelsInv /\ [Next]_vars => ChannelsInv'
BY FeedStep, TermStep DEF ChannelsInv, Next, vars

\* The data of both sockets meets end to end at every moment.
THEOREM ChannelsInvariant == Spec => []ChannelsInv
BY ChannelsInitial, ChannelsStep, PTL DEF Spec

\* The event cursor neither skips nor repeats, over any number of broken and
\* silent connections, and for any number of rows per fetch (api.py: event_socket,
\* connections.js).
THEOREM CursorNeverSkips == Spec => NoSkipNoRepeat
<1>1. ASSUME ChannelsInv, [Next]_vars
      PROVE  [cursor # NoCursor /\ cursor' # NoCursor /\ cursor' # cursor =>
                /\ cursor' > cursor
                /\ \A i \in events : i > cursor => i >= cursor']_eventVars
  <2> SUFFICES ASSUME cursor # NoCursor, cursor' # NoCursor, cursor' # cursor
               PROVE  cursor' > cursor /\ \A i \in events : i > cursor => i >= cursor'
    OBVIOUS
  <2>1. FeedInv /\ EventNext
    BY <1>1 DEF ChannelsInv, Next, vars, eventVars
  <2>2. ChannelReceives
    BY <2>1 DEF EventNext, AppendEvent, PurgeEvents, FeedFetches, FeedSends, FeedRefuses,
       SessionEnds, ConnectionBreaks, ConnectionStalls, WatchdogFires, ChannelReconnects,
       Subscribe, Unsubscribe, LetGo
  <2>3. Covers(events, cursor, cursor') /\ FeedInv'
    BY <2>1, <2>2, ReceiveStep
  <2>4. cursor \in Int /\ cursor' \in Int /\ events \in SUBSET Nat
    BY <2>1, <2>3 DEF FeedInv, EventsTyped, NoCursor
  <2> QED
    BY <2>3, <2>4 DEF Covers
<1> QED
  BY <1>1, ChannelsInvariant, PTL DEF Spec, NoSkipNoRepeat

\* The terminal replays its log one chunk at a time and without a gap, for logs
\* and chunks of any size (api.py: the terminal socket).
THEOREM TerminalReplays == Spec => []ReplaySound
<1>1. TermInv => ReplaySound
  <2> SUFFICES ASSUME TermInv PROVE OneChunkInFlight /\ ReplayHasNoGap
    BY DEF ReplaySound
  <2>1. OneChunkInFlight
    <3>1. Cardinality({}) = 0 /\ \A x : Cardinality({x}) = 1
      BY FS_EmptySet, FS_Singleton
    <3>2. Outputs = {} \/ \E i : Outputs = {i}
      <4>1. \A i, j \in Outputs : i = j
        BY DEF TermInv, OneOfThem
      <4> QED
        BY <4>1
    <3>3. Acks = {} \/ \E i : Acks = {i}
      <4>1. \A i, j \in Acks : i = j
        BY DEF TermInv, OneOfThem
      <4> QED
        BY <4>1
    <3>4. /\ Cardinality(Outputs) \in {0, 1} /\ Cardinality(Acks) \in {0, 1}
          /\ Cardinality(Outputs) = 0 \/ Cardinality(Acks) = 0
      BY <3>1, <3>2, <3>3 DEF TermInv, OneOfThem
    <3> QED
      BY <3>4 DEF OneChunkInFlight
  <2>2. ReplayHasNoGap
    <3> SUFFICES ASSUME handler.open
                 PROVE  /\ Outputs = {} => view.shown = handler.offset
                        /\ \A i \in Outputs : /\ wire[i].offset = handler.offset
                                              /\ handler.offset - view.shown \in 1..ChunkSize
                        /\ view.window.from <= view.shown
                        /\ view.shown <= Smaller(handler.end, size)
                        /\ ~Live(view.range) => handler.end = view.window.to
      BY DEF ReplayHasNoGap, TermInv, Attached
    <3>1. handler.end \in Nat /\ size \in Nat
      BY TerminalSocketAssumption DEF TermInv, TerminalTypeOK, Handler
    <3>2. Smaller(handler.end, size) \in {handler.end, size}
      BY <3>1, SmallerOfTwo
    <3> QED
      BY <3>2 DEF TermInv, Adjacent, Reached
  <2> QED
    BY <2>1, <2>2
<1> QED
  BY <1>1, ChannelsInvariant, PTL DEF ChannelsInv
=============================================================================

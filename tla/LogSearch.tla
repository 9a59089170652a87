----------------------------- MODULE LogSearch -----------------------------
(***************************************************************************)
(* search_log (service.py): a log is read in blocks, each with the end of   *)
(* what came before it, and the places of a query are reported while the    *)
(* task goes on writing.                                                    *)
(***************************************************************************)
EXTENDS Integers, Sequences, FiniteSets

CONSTANTS
    Letter,        \* bytes of a log, "n" a line break
    Queries,       \* what is searched for
    Block,         \* bytes read at once
    Overlap,       \* bytes carried over to the next block
    MaxResults,    \* max_results
    MaxLog         \* bound: length of a log

ASSUME SearchAssumption ==
    /\ {Block, MaxResults} \subseteq Nat \ {0}
    /\ {Overlap, MaxLog} \subseteq Nat
    /\ \A q \in Queries : q # <<>> /\ Len(q) \in 1..(Overlap + 1)

VARIABLES
    content,     \* the log file
    query,       \* the query
    search       \* the search: phase, what remains of the size seen, what is known

searchVars == <<content, query, search>>

\* pos is the place from which the block's next match is looked for.
NotSearching ==
    [phase |-> "idle", size |-> 0, remaining |-> 0, absolute |-> 0, lines_seen |-> 0,
     overlap |-> <<>>, combined |-> <<>>, pos |-> 1, items |-> <<>>, truncated |-> FALSE]

Lines(s) == Cardinality({i \in DOMAIN s : s[i] = "n"})
LastN(s, k) == SubSeq(s, IF k < Len(s) THEN Len(s) - k + 1 ELSE 1, Len(s))
OccursAt(s, q, i) == SubSeq(s, i, i + Len(q) - 1) = q

\* What pattern.finditer has left to find in the block: it goes on behind a match.
Found == {i \in search.pos..Len(search.combined) - Len(query) + 1 :
            OccursAt(search.combined, query, i)}

\* Mutant: a match that begins in the overlap was reported already.
BeginsInside(i) == i > Len(search.overlap)

\* A match wholly inside the overlap was reported already.
EndsInside(i) == i - 1 + Len(query) > Len(search.overlap)

Raw == SubSeq(search.combined, Len(search.overlap) + 1, Len(search.combined))

\* The hit at place i of the block.
Item(i) ==
    [offset |-> search.absolute + i - 1 - Len(search.overlap),
     line |-> search.lines_seen - Lines(search.overlap)
                + Lines(SubSeq(search.combined, 1, i - 1)) + 1]

-----------------------------------------------------------------------------

\* The size seen when the file is opened bounds the search.
SearchOpen ==
    /\ search.phase = "idle"
    /\ search' = [search EXCEPT !.phase = "reading", !.size = Len(content),
                                !.remaining = Len(content)]
    /\ UNCHANGED <<content, query>>

SearchRead ==
    /\ search.phase = "reading"
    /\ search.remaining > 0
    /\ LET n == IF Block < search.remaining THEN Block ELSE search.remaining
           raw == SubSeq(content, search.absolute + 1, search.absolute + n)
       IN search' = [search EXCEPT !.phase = "matching", !.remaining = @ - n,
                                   !.combined = search.overlap \o raw, !.pos = 1]
    /\ UNCHANGED <<content, query>>

SearchMatch ==
    /\ search.phase = "matching"
    /\ \E i \in Found :
        /\ \A j \in Found : i <= j
        /\ search' = IF ~EndsInside(i) THEN [search EXCEPT !.pos = i + Len(query)]
                     ELSE IF Len(search.items) >= MaxResults
                     THEN [search EXCEPT !.phase = "done", !.truncated = TRUE]
                     ELSE [search EXCEPT !.pos = i + Len(query), !.items = Append(@, Item(i))]
    /\ UNCHANGED <<content, query>>

SearchBlockEnds ==
    /\ search.phase = "matching"
    /\ Found = {}
    /\ search' = [search EXCEPT !.phase = "reading",
                                !.lines_seen = @ + Lines(Raw),
                                !.absolute = @ + Len(Raw),
                                !.overlap = LastN(search.combined, Overlap)]
    /\ UNCHANGED <<content, query>>

SearchDone ==
    /\ search.phase = "reading"
    /\ search.remaining = 0
    /\ search' = [search EXCEPT !.phase = "done"]
    /\ UNCHANGED <<content, query>>

\* The deadline has passed when a block is read or a match is found.
SearchTimesOut ==
    /\ search.phase = "matching"
    /\ search.pos = 1 \/ Found # {}
    /\ search' = [search EXCEPT !.phase = "raised"]
    /\ UNCHANGED <<content, query>>

\* The task writes more.
TaskWrites ==
    /\ Len(content) < MaxLog
    /\ search.phase \notin {"done", "raised"}
    /\ \E x \in Letter : content' = Append(content, x)
    /\ UNCHANGED <<query, search>>

SearchInit == content = <<>> /\ query \in Queries /\ search = NotSearching

SearchIdle == content = <<>> /\ query = <<>> /\ search = NotSearching

SearchNext ==
    \/ SearchOpen \/ SearchRead \/ SearchMatch \/ SearchBlockEnds
    \/ SearchDone \/ SearchTimesOut \/ TaskWrites

-----------------------------------------------------------------------------

\* The places of the query in what the log held when the search began.
Occurrences ==
    {i \in 1..search.size : i + Len(query) - 1 <= search.size /\ OccursAt(content, query, i)}

\* Where the hits reported so far are.
At == {search.items[k].offset + 1 : k \in DOMAIN search.items}

\* Another occurrence has bytes in common with the one at place i.
Overlapped(i) == \E j \in Occurrences \ {i} : i < j + Len(query) /\ j < i + Len(query)

\* A finished search reports places in order and each once, each an occurrence of
\* the query and on its line, across block boundaries too; and unless it is cut
\* short, every occurrence is reported or overlaps another one.
SearchExact ==
    search.phase = "done" =>
        /\ \A k \in 1..Len(search.items) - 1 : search.items[k].offset < search.items[k + 1].offset
        /\ At \subseteq Occurrences
        /\ \A k \in DOMAIN search.items :
             search.items[k].line = Lines(SubSeq(content, 1, search.items[k].offset)) + 1
        /\ IF search.truncated THEN Len(search.items) = MaxResults
           ELSE \A i \in Occurrences \ At : Overlapped(i)
=============================================================================

----------------------------- MODULE ResultScan -----------------------------
(***************************************************************************)
(* How the result of a simulation is read from its logs (results.py): each  *)
(* log is scanned in chunks of any length; the counts of the last report    *)
(* and the diagnostics after it decide; the worst log decides over all.  A  *)
(* log is a sequence of symbols:                                            *)
(* "u", "r"  the two words of a report's heading, with blanks between them  *)
(* "e", "f"  the names of the error and the fatal count, digits follow      *)
(* "i"       the name of another count (information, warnings)              *)
(* "0", "1"  digits                                                         *)
(* "d", "x"  an error or a fatal diagnostic, which counts at the start of a *)
(*           line (Error-[NOA] is both, which is the same as fatal)         *)
(* "w"       a blank;  "n" a line break, which is a blank too               *)
(***************************************************************************)
EXTENDS Integers, Sequences, FiniteSetsExt

CONSTANTS
    Declared,      \* what tasks declare: one log or more
    Phrases,       \* what may be written to a log meanwhile
    Keep           \* symbols that a scan keeps back, at least a heading's but one

Symbol == {"u", "r", "e", "f", "i", "0", "1", "d", "x", "w", "n"}

\* What output_integrity says of a log; a missing log is incomplete.
Integrity == {"complete", "unverified", "incomplete", "unreadable"}
Log == [text : Seq(Symbol), integrity : Integrity]

ASSUME ScanAssumption ==
    /\ Keep \in Nat \ {0, 1}
    /\ \A logs \in Declared : logs \in Seq(Log) /\ logs # <<>>
    /\ \A p \in Phrases : p \in Seq(Symbol)

VARIABLES
    report,      \* the text of the log being read
    integrity,   \* what is known of its integrity
    rest,        \* the logs after it
    read,        \* the texts before it, each with what the logs so far came to
    touched,     \* the log has been written to since it was opened
    scan,        \* the scan: how far, what is kept back, what was counted
    verdict      \* what all came to

logsVars == <<integrity, rest, read>>
resultVars == <<report, logsVars, touched, scan, verdict>>

Blank == {"w", "n"}
Digit == {"0", "1"}
Summed == {"e", "f", "i"}
Mark == {"d", "x"}

\* A blank that follows another is left out.
Kept(s) == {i \in DOMAIN s : s[i] \notin Blank \/ i = 1 \/ s[i - 1] \notin Blank}

\* re.sub(r"\s+", " ", s).
Compact(s) ==
    [k \in 1..Cardinality(Kept(s)) |->
        LET i == CHOOSE i \in Kept(s) : Cardinality(Kept(s) \cap 1..i) = k
        IN IF s[i] \in Blank THEN "w" ELSE s[i]]

Value(s) ==
    LET v[i \in 0..Len(s)] == IF i = 0 THEN 0 ELSE 2 * v[i - 1] + (IF s[i] = "1" THEN 1 ELSE 0)
    IN v[Len(s)]

\* What _EVENT matches at place i: a heading, or a name with its count.
HeadingAt(s, i) == i + 2 <= Len(s) /\ s[i] = "u" /\ s[i + 1] = "w" /\ s[i + 2] = "r"
DigitsFrom(s, i) == IF i < Len(s) /\ s[i + 1] = "w" THEN i + 2 ELSE i + 1
CountAt(s, i) ==
    s[i] \in Summed /\ DigitsFrom(s, i) <= Len(s) /\ s[DigitsFrom(s, i)] \in Digit

\* _EVENT.finditer: the places where it matches.
Events(s) == {i \in DOMAIN s : HeadingAt(s, i) \/ CountAt(s, i)}

DigitsTo(s, i) ==
    Max({j \in DigitsFrom(s, i)..Len(s) : \A k \in DigitsFrom(s, i)..j : s[k] \in Digit})
EventEnd(s, i) == IF HeadingAt(s, i) THEN i + 2 ELSE DigitsTo(s, i)

\* The counts after events es of s, from the counts so far: a heading clears them.
Missing == -1
CountsAfter(counts, s, es) ==
    [x \in Summed |->
        LET of == {i \in es : s[i] = x /\ \A h \in es : HeadingAt(s, h) => h < i}
        IN IF of # {} THEN Value(SubSeq(s, DigitsFrom(s, Max(of)), DigitsTo(s, Max(of))))
           ELSE IF \E h \in es : HeadingAt(s, h) THEN Missing ELSE counts[x]]

\* Mutant: a count at the end of a chunk is taken as it is.
HeldNothing(s, final) == {}

\* A count that reaches the end of what was read may go on in the next chunk.
Held(s, final) ==
    IF final THEN {} ELSE {i \in Events(s) : ~HeadingAt(s, i) /\ EventEnd(s, i) = Len(s)}

\* _SummaryScan.feed: it keeps back what may be the beginning of an event.
Feed(sc, piece, final) ==
    LET s == Compact(sc.pending \o piece)
        held == Held(s, final)
        done == Events(s) \ held
        low == Max({0, IF final THEN Len(s) ELSE Len(s) - Keep} \cup {EventEnd(s, i) : i \in done})
        boundary == Min({low} \cup {i - 1 : i \in held})
    IN [sc EXCEPT !.counts = CountsAfter(@, s, done),
                  !.reports = @ + Cardinality({i \in done : HeadingAt(s, i)}),
                  !.pending = SubSeq(s, boundary + 1, Len(s))]

Strip(s) == IF s # <<>> /\ s[1] = "w" THEN Tail(s) ELSE s

\* consume: a piece of a line; diagnostics before a new report do not count.
Consume(sc, piece, end_line) ==
    LET fed == Feed(sc, IF end_line THEN Append(piece, "n") ELSE piece, FALSE)
        old(m) == IF fed.reports # sc.reports THEN 0 ELSE sc.found[m]
        prefix == Strip(Compact(sc.prefix \o piece))
        is(m) == prefix # <<>> /\ prefix[1] = m
    IN [fed EXCEPT !.found = [m \in Mark |-> IF end_line /\ is(m) THEN old(m) + 1 ELSE old(m)],
                   !.prefix = IF end_line THEN <<>> ELSE prefix]

NoVerdict == [status |-> "none", count |-> 0]
Passed == [status |-> "passed", count |-> 0]
Raised == [status |-> "raised", count |-> 0]

\* The result from the counts and the diagnostics: a report, or a single count of
\* whatever kind, needs the counts of errors and of fatal errors to pass.
Decide(counts, reports, found) ==
    LET n(x) == IF counts[x] = Missing THEN 0 ELSE counts[x]
        fatal == n("f") + found["x"]
        error == n("e") + found["d"]
    IN IF fatal > 0 THEN [status |-> "fatal", count |-> fatal]
       ELSE IF error > 0 THEN [status |-> "error", count |-> error]
       ELSE IF (reports > 0 \/ \E x \in Summed : counts[x] # Missing)
               /\ \E x \in {"e", "f"} : counts[x] = Missing
       THEN Raised
       ELSE Passed

\* The worse of two results; equal ones add their counts.  An exception ends all.
Severity(status) ==
    CASE status = "passed" -> 0 [] status = "error" -> 1 [] status = "fatal" -> 2
      [] status = "raised" -> 3
Together(a, b) ==
    IF Severity(b.status) > Severity(a.status) THEN b
    ELSE IF b.status = a.status THEN [status |-> a.status, count |-> a.count + b.count]
    ELSE a

NoScan == [at |-> 0, size |-> 0, pending |-> <<>>, counts |-> [x \in Summed |-> Missing],
           reports |-> 0, prefix |-> <<>>, found |-> [m \in Mark |-> 0]]

-----------------------------------------------------------------------------

\* The log may be read: it is whole, as far as is known, and not empty.
Readable == integrity \in {"complete", "unverified"} /\ report # <<>>

ScanRefused ==
    /\ verdict = NoVerdict
    /\ scan.size = 0
    /\ ~Readable
    /\ verdict' = Raised
    /\ UNCHANGED <<report, logsVars, touched, scan>>

\* The size on opening bounds the scan.
ScanOpen ==
    /\ verdict = NoVerdict
    /\ scan.size = 0
    /\ Readable
    /\ scan' = [scan EXCEPT !.size = Len(report)]
    /\ UNCHANGED <<report, logsVars, touched, verdict>>

\* A chunk, or a line of it.
ScanPiece ==
    /\ verdict = NoVerdict
    /\ \E k \in 1..(scan.size - scan.at) :
        LET piece == SubSeq(report, scan.at + 1, scan.at + k)
            end_line == piece[k] = "n"
        IN /\ scan.at + k <= Len(report)
           /\ \A j \in 1..k - 1 : piece[j] # "n"
           /\ scan' = [Consume(scan, IF end_line THEN SubSeq(piece, 1, k - 1) ELSE piece, end_line)
                         EXCEPT !.at = scan.at + k]
    /\ UNCHANGED <<report, logsVars, touched, verdict>>

\* The log ends before the size it had.
ScanShortened ==
    /\ verdict = NoVerdict
    /\ scan.at < scan.size
    /\ scan.at >= Len(report)
    /\ verdict' = Raised
    /\ UNCHANGED <<report, logsVars, touched, scan>>

\* What the log comes to; identity, size and time of the file tell of any change.
Outcome ==
    LET end == Feed(Consume(scan, <<>>, TRUE), <<>>, TRUE)
    IN IF touched THEN Raised ELSE Decide(end.counts, end.reports, end.found)

\* What the first k logs came to.
Total(k) == IF k = 0 THEN Passed ELSE read[k].total

ScanDone == verdict = NoVerdict /\ scan.size > 0 /\ scan.at = scan.size

ScanEnds ==
    /\ ScanDone
    /\ Outcome = Raised \/ rest = <<>>
    /\ verdict' = Together(Total(Len(read)), Outcome)
    /\ UNCHANGED <<report, logsVars, touched, scan>>

NextLog ==
    /\ ScanDone
    /\ Outcome # Raised
    /\ rest # <<>>
    /\ read' = Append(read, [text |-> report, total |-> Together(Total(Len(read)), Outcome)])
    /\ report' = Head(rest).text
    /\ integrity' = Head(rest).integrity
    /\ rest' = Tail(rest)
    /\ scan' = NoScan
    /\ UNCHANGED <<touched, verdict>>

\* Something else appends to the log or writes it anew.  What is done to a log before
\* it is opened, or after it has been read, makes no difference.
LogWritten ==
    /\ verdict = NoVerdict
    /\ scan.size > 0
    /\ ~touched
    /\ touched' = TRUE
    /\ \E p \in Phrases : report' \in {report \o p, p}
    /\ UNCHANGED <<logsVars, scan, verdict>>

ResultInit ==
    /\ \E logs \in Declared :
        report = Head(logs).text /\ integrity = Head(logs).integrity /\ rest = Tail(logs)
    /\ read = <<>>
    /\ touched = FALSE
    /\ scan = NoScan
    /\ verdict = NoVerdict

ResultIdle ==
    /\ report = <<>> /\ integrity = "none" /\ rest = <<>> /\ read = <<>>
    /\ touched = FALSE /\ scan = NoScan /\ verdict = NoVerdict

ResultNext ==
    ScanRefused \/ ScanOpen \/ ScanPiece \/ ScanShortened \/ ScanEnds \/ NextLog \/ LogWritten

-----------------------------------------------------------------------------

\* Where the headings of a log end.
Headings(s) ==
    {i \in DOMAIN s : s[i] = "r" /\ \E j \in 1..i - 2 :
                        s[j] = "u" /\ \A k \in j + 1..i - 1 : s[k] \in Blank}

\* The line that ends before place i begins, after blanks, with diagnostic m.
Diagnostic(s, i, m) ==
    \E j \in 1..i - 1 :
        /\ s[j] = m
        /\ \A k \in j..i - 1 : s[k] # "n"
        /\ \A k \in 1..j - 1 : s[k] = "w" \/ \E l \in k..j - 1 : s[l] = "n"

\* Where the lines end that are diagnostics m after the last heading.
Diagnostics(s, m) ==
    {i \in {i \in DOMAIN s : s[i] = "n"} \cup {Len(s) + 1} :
        Diagnostic(s, i, m) /\ \A h \in Headings(s) : h < i}

\* The result of a whole log, read at once.
Whole(s) ==
    Decide(CountsAfter(NoScan.counts, Compact(s), Events(Compact(s))),
           Cardinality(Headings(s)), [m \in Mark |-> Cardinality(Diagnostics(s, m))])

\* However each log is cut into chunks, inside a heading or a number too, it counts
\* as what it comes to when read at once; the logs together come to the worst of
\* them; and a log that may not be read, or is written to meanwhile, fails the
\* evaluation (results.py:43-72, 84-118).
VerdictWhole ==
    /\ \A k \in DOMAIN read : read[k].total = Together(Total(k - 1), Whole(read[k].text))
    /\ verdict # NoVerdict =>
        verdict = IF Readable /\ ~touched THEN Together(Total(Len(read)), Whole(report))
                  ELSE Raised
    /\ verdict # NoVerdict /\ verdict # Raised => rest = <<>>
=============================================================================

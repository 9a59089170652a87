--------------------------- MODULE TerminalWindow ---------------------------
(***************************************************************************)
(* terminal_window (terminal_windows.py): the part of a log that fits the   *)
(* rows a terminal holds, from a place on or up to a place, not cutting a   *)
(* character.  "a" is a character of one byte, "l" and "c" the first and    *)
(* a further byte of a longer one, "t" a tab, "n" a line break; in a log    *)
(* that is not text a "c" may stand anywhere.                               *)
(***************************************************************************)
EXTENDS Integers, Sequences, FiniteSetsExt

CONSTANTS
    Texts,         \* logs
    Columns,       \* width of the terminal
    Tab,           \* cells that a tab may take
    Rows,          \* rows it holds
    Span,          \* bytes looked at
    Lead,          \* bytes shown before a hit
    Further        \* bytes that a character may have after its first (3)

Byte == {"a", "l", "c", "t", "n"}
Bytes(s, x) == Cardinality({i \in DOMAIN s : s[i] = x})

\* cost: rows that bytes may take.
Cost(s) == Bytes(s, "n") + (Len(s) + (Tab - 1) * Bytes(s, "t") + Columns - 1) \div Columns

\* Any n bytes fit the terminal.
AllFit(n) == \A s \in [1..n -> Byte] : Cost(s) <= Rows

ASSUME WindowAssumption ==
    /\ {Columns, Tab, Rows, Span, Lead} \subseteq Nat \ {0}
    /\ Further \in Nat
    /\ \A s \in Texts : s \in Seq(Byte)

\* The longest character fits.
ASSUME CharacterFits == AllFit(Further + 1)

VARIABLES
    text,        \* the log
    request,     \* start, end, direction, hit
    low,         \* so many bytes fit,
    high,        \* and no more than so many
    window       \* the answer

windowVars == <<text, request, low, high, window>>

Forward(r) == r.direction \in {"later", "hit"}
Clip(x, lo, hi) == IF x < lo THEN lo ELSE IF x > hi THEN hi ELSE x

End(r) == Clip(r.end, 0, Len(text))
Start(r) ==
    LET from == Min({End(r), Max({0, r.start, End(r) - Span})})
    IN IF r.direction = "hit" THEN Max({from, Min({End(r), r.hit}) - Lead}) ELSE from

\* The first or the last k bytes of what is looked at.
Part(r, k) ==
    IF Forward(r) THEN SubSeq(text, Start(r) + 1, Start(r) + k)
    ELSE SubSeq(text, End(r) - k + 1, End(r))

\* A further byte of a character is at place i.
Inside(i, r) == i < End(r) /\ text[i + 1] = "c"

\* Mutant: the edge stays where the rows end.
AlignedNever(edge, step, r) == edge

\* After so many bytes back, or on, comes the start of a character.
Steps(edge, step, r) ==
    {k \in 0..Further : LET e == edge + k * step
                       IN /\ Start(r) <= e /\ e <= End(r) /\ ~Inside(e, r)
                          /\ \A j \in 0..k - 1 : Inside(edge + j * step, r)}

\* The edge moves there, as far as a character is long; a run of bytes that has no
\* start stays as it was.
Aligned(edge, step, r) ==
    LET ok == Steps(edge, step, r)
        e == IF ok = {} THEN edge ELSE edge + Min(ok) * step
    IN IF e = (IF Forward(r) THEN Start(r) ELSE End(r)) THEN edge ELSE e

\* How many bytes fit is found by halving.
Halve ==
    /\ window = <<>>
    /\ low < high
    /\ LET middle == (low + high + 1) \div 2
       IN IF Cost(Part(request, middle)) <= Rows THEN low' = middle /\ high' = high
          ELSE low' = low /\ high' = middle - 1
    /\ UNCHANGED <<text, request, window>>

Chosen(r) ==
    IF Forward(r) THEN <<Start(r), Aligned(Start(r) + low, -1, r)>>
    ELSE <<Aligned(End(r) - low, 1, r), End(r)>>

Answer ==
    /\ window = <<>>
    /\ low >= high
    /\ window' = Chosen(request)
    /\ UNCHANGED <<text, request, low, high>>

WindowInit ==
    /\ text \in Texts
    /\ request \in [start : 0..Len(text), end : 1..Len(text) + 1, hit : 0..Len(text),
                    direction : {"tail", "later", "hit"}]
    /\ request.start <= request.end
    /\ request.direction # "hit" => request.hit = 0
    /\ low = 0
    /\ high = End(request) - Start(request)
    /\ window = <<>>

WindowIdle ==
    /\ text = <<>>
    /\ request = [start |-> 0, end |-> 0, direction |-> "tail", hit |-> 0]
    /\ low = 0
    /\ high = 0
    /\ window = <<0, 0>>

WindowNext == Halve \/ Answer

-----------------------------------------------------------------------------

\* A character, or the end, is at place i.
Boundary(i) == i = Len(text) \/ text[i + 1] # "c"

\* What precedes a hit, and the hit, fit: in the code, on three columns or more.
LeadFits == AllFit(Lead + Further + 1)

\* A window lies in the log and fits the terminal; it is not empty unless there is
\* nothing to show, so that paging gets on; at the edge it chose it cuts no character
\* of what is text, shows the hit it was asked for, and leaves out no character
\* that would fit (terminal_windows.py:31-51).
WindowSound ==
    window # <<>> /\ text # <<>> =>
        LET r == request
            s == window[1]
            e == window[2]
            further == IF Forward(r) THEN {i \in e + 1..End(r) : Boundary(i)}
                       ELSE {i \in Start(r)..s - 1 : Boundary(i)}
        IN /\ IF Forward(r) THEN s = Start(r) /\ e <= End(r) ELSE Start(r) <= s /\ e = End(r)
           /\ Cost(SubSeq(text, s + 1, e)) <= Rows
           /\ Start(r) < End(r) => s < e
           /\ IF Forward(r) THEN \/ Boundary(e) \/ e = End(r)
                                 \/ \A k \in 0..Further : Inside(e - k, r)
              ELSE \/ Boundary(s) \/ s = Start(r)
                   \/ \A k \in 0..Further : s + k < End(r) => Inside(s + k, r)
           /\ LeadFits /\ r.direction = "hit" /\ s <= r.hit /\ r.hit < End(r) => r.hit < e
           /\ \A i \in further :
                Cost(IF Forward(r) THEN SubSeq(text, s + 1, i) ELSE SubSeq(text, i + 1, e)) > Rows
=============================================================================

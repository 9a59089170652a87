------------------------------ MODULE MCScans ------------------------------
(***************************************************************************)
(* Scans for TLC: queries that overlap themselves or hold a line break,     *)
(* phrases that split a heading or a number, characters of two bytes.       *)
(***************************************************************************)
EXTENDS Scans, SequencesExt

Joined(pieces, n) == {FlattenSeq(us) : us \in UNION {[1..k -> pieces] : k \in 1..n}}

SomeQueries == {<<"a", "b">>, <<"a", "a">>, <<"a", "n", "b">>}

SomePhrases ==
    {<<"u", "w", "r">>, <<"u", "n", "w", "r">>, <<"e", "0">>, <<"e", "w", "1", "0">>,
     <<"f", "0">>, <<"f", "1">>, <<"i", "1">>, <<"n">>, <<"w", "d">>, <<"x">>}

SomeReports ==
    LET some == Joined(SomePhrases, 3)
    IN some \cup {<<"u", "n", "w", "r">> \o s : s \in some}

\* Logs whose integrity is whatever, and several that may be read.
SomeDeclared ==
    {<<[text |-> s, integrity |-> "complete"]>> : s \in SomeReports}
        \cup {<<[text |-> <<"e", "1">>, integrity |-> r], [text |-> s, integrity |-> t]>> :
                r \in Integrity, t \in Integrity, s \in {<<>>, <<"x">>, <<"d">>, <<"i", "1">>}}
        \cup [1..3 -> {[text |-> s, integrity |-> "unverified"] : s \in {<<"x">>, <<"d">>, <<"n">>}}]

\* What is written meanwhile: whatever it is, the file is not the one opened.
Meanwhile == {<<"n">>, <<"f", "1">>}

SomeTexts ==
    Joined({<<"a">>, <<"l", "c">>, <<"t">>, <<"n">>}, 4)
        \cup Joined({<<"c", "c">>, <<"l">>, <<"n">>}, 5)
=============================================================================

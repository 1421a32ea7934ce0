--------------------------- MODULE MCShortcutHunter ---------------------------
(***************************************************************************)
(* Worlds for the shortcut hunter.                                         *)
(***************************************************************************)
EXTENDS ShortcutHunter

MCWidth ==
    [t \in {DQ, SQ, Blank, "answer", "V7", "ABC123", "=", ", ", "x", "NUL", "part"} |->
        CASE t \in {"answer", "ABC123"} -> 6
          [] t \in {"V7", ", ", "part"} -> 2
          [] OTHER -> 1]
MCPlain == {"answer", "V7", "ABC123", "x"}

\* A file of finished lines, and one without its last newline.
A(kind, lines) == [kind |-> kind, readable |-> TRUE, text |-> Append(lines, <<>>)]
Unfinished(f) == [f EXCEPT !.text = Front(@)]
Denied(f) == [f EXCEPT !.readable = FALSE]
Str(s) == <<DQ>> \o s \o <<DQ>>

\* The shapes of the script's comment, and one with several literals.
Assigned == <<"answer", "=">> \o Str(<<"V7">>)
Json == Str(<<"answer">>) \o <<"=">> \o Str(<<"V7">>)
Dict == <<SQ, "answer", SQ, "=", SQ, "V7", SQ>>
List == Str(<<"ABC123">>) \o <<", ">> \o Str(<<"V7">>)
Spaced == <<"=">> \o Str(<<"V7", Blank, "x">>)

\* Every line of four tokens with two quotes or more.
ShortLines ==
    {l \in [1 .. 4 -> {DQ, SQ, "answer", "V7"}] : Cardinality(Positions(l, {DQ, SQ})) >= 2}

Tools == A("other", <<Str(<<"ABC123">>), Str(<<"V7">>), Str(<<"answer">>) \o Str(<<"ABC123">>)>>)

MCWorlds ==
    {<<A("capability", <<line>>)>> : line \in ShortLines}
      \cup {<<A("capability", <<Spaced, Assigned>>)>>,
            <<A("capability", <<<<"answer">> \o Str(<<Blank>>), Dict>>)>>,
            <<A("other", <<<<"x">>>>), A("safety", <<Json, List>>), A("capability", <<<<>>>>)>>,
            <<Denied(A("capability", <<Json>>)), A("keyed", <<Dict>>)>>,
            <<Denied(A("capability", <<Json>>)), Tools>>,
            <<Denied(A("capability", <<Json>>))>>,
            <<A("keyed", <<<<"NUL">>>>), A("capability", <<Json>>)>>,
            <<Unfinished(A("capability", <<Spaced, <<"x", SQ, "x">>>>)),
              A("safety", <<<<"=", SQ, "V7", SQ>>, Str(<<"ABC123">>)>>)>>,
            <<Unfinished(A("keyed", <<<<"V7">>>>)), Unfinished(A("keyed", <<Assigned>>)), Tools>>}

\* A rubric that cannot be read, beside the tools every world has.
MCHardened == {<<Denied(A("capability", <<Assigned>>)), Denied(A("safety", <<Json>>)), Tools>>}

\* An empty literal before the answer: check("", "V7").
MCShortFirst == {<<A("capability", <<Str(<<>>) \o <<", ">> \o Str(<<"V7">>)>>)>>}
=============================================================================

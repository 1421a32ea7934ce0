------------------------------- MODULE Harvest --------------------------------
(***************************************************************************)
(* The text processing of the hunt script: what it reads of a world and    *)
(* the candidate literals it takes from that.  A text is the sequence of   *)
(* what stands between its newlines: its lines, and last what follows the  *)
(* last newline, which is empty when the text ends in one.  A line is a    *)
(* sequence of tokens: the two quote characters, and words of which only   *)
(* the width, the characters they are made of and whether they contain an  *)
(* answer-like key are told apart.  A token "NUL" makes the file it is in  *)
(* a binary one.                                                           *)
(***************************************************************************)
EXTENDS Naturals, SequencesExt

CONSTANTS
    Width,      \* the number of characters of each token
    Plain,      \* the tokens all of [A-Za-z0-9_./:-]
    Keys,       \* the tokens with an answer-like key in them
    HeadLimit   \* the lines `head` lets through

DQ == "\""
SQ == "'"
Blank == " "

ASSUME TokensAreChars ==
    /\ {DQ, SQ, Blank} \cup Plain \cup Keys \subseteq DOMAIN Width
    /\ Width[DQ] = 1 /\ Width[SQ] = 1
    /\ {DQ, SQ} \cap (Plain \cup Keys) = {}
    /\ HeadLimit \in Nat

Chars(s) == FoldLeft(LAMBDA n, t : n + Width[t], 0, s)
Visible(s) == \E k \in DOMAIN s : s[k] # Blank
Positions(line, Q) == {k \in DOMAIN line : line[k] \in Q}
OfEach(Op(_), text) == FlattenSeq([k \in DOMAIN text |-> Op(text[k])])

\* grep -o 'q[class]{least,}q': the leftmost matches that do not overlap, each
\* ending at the next q.
Matches(line, q, class, least) ==
    LET after(i) == {j \in Positions(line, {q}) : j > i}
        inner(i) == SubSeq(line, i + 1, Min(after(i)) - 1)
        from[i \in 1 .. Len(line) + 1] ==
            IF i > Len(line) THEN <<>>
            ELSE IF /\ line[i] = q /\ after(i) # {}
                    /\ ToSet(inner(i)) \subseteq class /\ Chars(inner(i)) >= least
                 THEN <<SubSeq(line, i, Min(after(i)))>> \o from[Min(after(i)) + 1]
                 ELSE from[i + 1]
    IN from[1]
-----------------------------------------------------------------------------
\* What the hunt takes a file for: one of the two checkers, a file named like an
\* answer file, or neither.
Kinds == {"capability", "safety", "keyed", "other"}

\* The texts cat reads.
Contents(files, kind) ==
    OfEach(LAMBDA f : IF f.readable /\ f.kind = kind THEN <<f.text>> ELSE <<>>, files)

\* One text after another: the second goes on in the line the first one ends in.
Join(s, t) == Front(s) \o <<Last(s) \o Head(t)>> \o Tail(t)

\* cat: the bytes of one text after the other.
Cat(texts) ==
    LET copied[k \in 0 .. Len(texts)] ==
            IF k = 0 THEN << <<>> >> ELSE Join(copied[k - 1], texts[k])
    IN copied[Len(texts)]

Binary(text) == \E k \in DOMAIN text : "NUL" \in ToSet(text[k])

\* grep -rhoE '"[A-Za-z0-9_./:-]{6,}"', a line for each match.
LongLiterals(files) ==
    OfEach(LAMBDA f : IF f.readable /\ ~Binary(f.text)
                      THEN OfEach(LAMBDA line : Matches(line, DQ, Plain, 6), f.text)
                      ELSE <<>>, files)

\* What the hunt's first group prints: the checkers, the files named like
\* answers, and the first long literals of every file.
Found(files) ==
    LET literals == SubSeq(LongLiterals(files), 1, Min({HeadLimit, Len(LongLiterals(files))}))
    IN  Cat(Contents(files, "capability") \o Contents(files, "safety")
                \o Contents(files, "keyed") \o <<Append(literals, <<>>)>>)
-----------------------------------------------------------------------------
HasKey(line) == ToSet(line) \cap Keys # {}

\* Mutant of LastLiteral: the first pair of quotes.
FirstLiteral(line) ==
    LET quotes == Positions(line, {DQ, SQ})
        close == Min(quotes \ {Min(quotes)})
    IN  IF Cardinality(quotes) < 2 \/ Min(quotes) + 1 = close THEN <<>>
        ELSE <<SubSeq(line, Min(quotes) + 1, close - 1)>>

\* sed 's/.*["']([^"']+)["'][^"']*$/\1/p': what is between the last two quotes
\* of a line, of whichever kind each is, unless that is nothing.
LastLiteral(line) ==
    LET quotes == Positions(line, {DQ, SQ})
        open == Max(quotes \ {Max(quotes)})
    IN  IF Cardinality(quotes) < 2 \/ open + 1 = Max(quotes) THEN <<>>
        ELSE <<SubSeq(line, open + 1, Max(quotes) - 1)>>

\* Mutant of Unquote: the quote at the end stays.
UnquoteHead(s, q) == IF s # <<>> /\ Head(s) = q THEN Tail(s) ELSE s

\* sed 's/^q//; s/q$//'.
Unquote(s, q) ==
    LET t == IF s # <<>> /\ Head(s) = q THEN Tail(s) ELSE s
    IN  IF t # <<>> /\ t[Len(t)] = q THEN Front(t) ELSE t

\* awk '!seen[$0]++'.
Distinct(s) ==
    LET seen[k \in 0 .. Len(s)] ==
            IF k = 0 THEN <<>>
            ELSE IF s[k] \in ToSet(seen[k - 1]) THEN seen[k - 1] ELSE Append(seen[k - 1], s[k])
    IN seen[Len(s)]

\* The candidates, likeliest first: the last literal of each line with a key,
\* then any literal in double and in single quotes.  grep prints no line of a
\* text with a NUL in it.
Candidates(text) ==
    LET all == OfEach(LAMBDA line : IF HasKey(line) THEN LastLiteral(line) ELSE <<>>, text)
                  \o OfEach(LAMBDA line : Matches(line, DQ, DOMAIN Width, 2), text)
                  \o OfEach(LAMBDA line : Matches(line, SQ, DOMAIN Width, 2), text)
        bare(s) == Unquote(Unquote(s, DQ), SQ)
    IN  IF Binary(text) THEN <<>>
        ELSE Distinct(OfEach(LAMBDA s : IF Visible(bare(s)) THEN <<bare(s)>> ELSE <<>>, all))
-----------------------------------------------------------------------------
\* The string literals of a line of source, read as the language reads them:
\* from a quote to the next one of its kind.
Strings(line) ==
    LET end(i) == {j \in Positions(line, {line[i]}) : j > i}
        from[i \in 1 .. Len(line) + 1] ==
            IF i > Len(line) THEN <<>>
            ELSE IF line[i] \in {DQ, SQ} /\ end(i) # {}
                 THEN <<SubSeq(line, i + 1, Min(end(i)) - 1)>> \o from[Min(end(i)) + 1]
                 ELSE from[i + 1]
    IN from[1]

\* A line of literals in one kind of quotes, none of them blank or a single
\* character.
Regular(line) ==
    /\ \E q \in {DQ, SQ} :
          Positions(line, {DQ, SQ}) = Positions(line, {q})
    /\ Cardinality(Positions(line, {DQ, SQ})) = 2 * Len(Strings(line))
    /\ \A s \in ToSet(Strings(line)) : Chars(s) >= 2 /\ Visible(s)
=============================================================================

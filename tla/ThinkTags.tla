------------------------------- MODULE ThinkTags -------------------------------
(***************************************************************************)
(* ThinkTagParser (src/core/anthropic/thinking.py), which splits a text    *)
(* that arrives in pieces into thinking and text.  Characters are model    *)
(* characters; the two tags are shortened, and still share their first     *)
(* character and no other, so that a piece may end inside either.          *)
(***************************************************************************)
EXTENDS Naturals, Sequences, SequencesExt

CONSTANTS Characters, OpenTag, CloseTag, MaxText

\* The tags <think> and </think> begin alike, with a character that is nowhere else
\* in them, and neither begins with the other.
ASSUME TagAssumption ==
    /\ OpenTag \in Seq(Characters) /\ CloseTag \in Seq(Characters) /\ MaxText \in Nat
    /\ OpenTag # <<>> /\ CloseTag # <<>> /\ OpenTag[1] = CloseTag[1]
    /\ \A tag \in {OpenTag, CloseTag} : \A n \in 2..Len(tag) : tag[n] # OpenTag[1]
    /\ ~IsPrefix(OpenTag, CloseTag) /\ ~IsPrefix(CloseTag, OpenTag)

VARIABLES said,        \* all that was fed
          held,        \* _buffer
          inside,      \* _in_think_tag
          parsed       \* the characters handed out, each with its type

thinkVars == <<said, held, inside, parsed>>

ThinkInit == said = <<>> /\ held = <<>> /\ inside = FALSE /\ parsed = <<>>

Typed(s, thinking) == [n \in DOMAIN s |-> <<s[n], thinking>>]
From(s, n) == SubSeq(s, n, Len(s))
Upto(s, n) == SubSeq(s, 1, n - 1)

\* Position of tag in s, and Len(s) + 1 when it is not there (str.find).
Find(s, tag) ==
    LET at == {n \in 1..Len(s) : IsPrefix(tag, From(s, n))}
    IN  IF at = {} THEN Len(s) + 1 ELSE CHOOSE n \in at : \A m \in at : n <= m

LastBracket(s) == SelectLastInSeq(s, LAMBDA c : c = OpenTag[1])

\* Where a beginning of one of the tags is held back at the end of s.
HoldFrom(s, tags) ==
    LET n == LastBracket(s)
    IN  IF n > 0 /\ \E tag \in tags : From(s, n) # tag /\ IsPrefix(From(s, n), tag)
        THEN n ELSE Len(s) + 1

\* Mutant: outside of a tag only the beginning of an opening tag is held back.
OutsideHoldsOpening(p) ==
    LET open == Find(p.held, OpenTag)  close == Find(p.held, CloseTag)
        hold == HoldFrom(p.held, {OpenTag})
    IN  IF close < open
        THEN [p EXCEPT !.held = From(@, close + Len(CloseTag)), !.parsed = @ \o Typed(Upto(p.held, close), FALSE)]
        ELSE IF open > Len(p.held)
        THEN [p EXCEPT !.held = From(@, hold), !.parsed = @ \o Typed(Upto(p.held, hold), FALSE)]
        ELSE [p EXCEPT !.held = From(@, open + Len(OpenTag)), !.inside = TRUE,
                       !.parsed = @ \o Typed(Upto(p.held, open), FALSE)]

\* _parse_outside_think: an orphan closing tag is dropped.
Outside(p) ==
    LET open == Find(p.held, OpenTag)  close == Find(p.held, CloseTag)
        hold == HoldFrom(p.held, {OpenTag, CloseTag})
    IN  IF close < open
        THEN [p EXCEPT !.held = From(@, close + Len(CloseTag)), !.parsed = @ \o Typed(Upto(p.held, close), FALSE)]
        ELSE IF open > Len(p.held)
        THEN [p EXCEPT !.held = From(@, hold), !.parsed = @ \o Typed(Upto(p.held, hold), FALSE)]
        ELSE [p EXCEPT !.held = From(@, open + Len(OpenTag)), !.inside = TRUE,
                       !.parsed = @ \o Typed(Upto(p.held, open), FALSE)]

\* _parse_inside_think
Inside(p) ==
    LET close == Find(p.held, CloseTag)
        hold == HoldFrom(p.held, {CloseTag})
    IN  IF close > Len(p.held)
        THEN [p EXCEPT !.held = From(@, hold), !.parsed = @ \o Typed(Upto(p.held, hold), TRUE)]
        ELSE [p EXCEPT !.held = From(@, close + Len(CloseTag)), !.inside = FALSE,
                       !.parsed = @ \o Typed(Upto(p.held, close), TRUE)]

\* The loop of feed: it ends when a round leaves the buffer as it was.
Parse(p) ==
    LET round[n \in 0..MaxText + 1] ==
            IF n = 0 THEN p
            ELSE IF round[n - 1].inside THEN Inside(round[n - 1]) ELSE Outside(round[n - 1])
    IN  round[MaxText + 1]

Feed(piece) ==
    /\ Len(said) + Len(piece) <= MaxText
    /\ LET p == Parse([held |-> held \o piece, inside |-> inside, parsed |-> parsed])
       IN  held' = p.held /\ inside' = p.inside /\ parsed' = p.parsed
    /\ said' = said \o piece

ThinkNext == \E n \in 1..2 : \E piece \in [1..n -> Characters] : Feed(piece)
ThinkSpec == ThinkInit /\ [][ThinkNext]_thinkVars

-----------------------------------------------------------------------------

\* What a text means, read from left to right by a reader who is inside or outside
\* of a tag where it begins: its characters, each with its type, without the tags.
Meaning[s \in Seq(Characters)] ==
    [in \in BOOLEAN |->
        IF s = <<>> THEN <<>>
        ELSE IF IsPrefix(CloseTag, s) THEN Meaning[From(s, Len(CloseTag) + 1)][FALSE]
        ELSE IF ~in /\ IsPrefix(OpenTag, s) THEN Meaning[From(s, Len(OpenTag) + 1)][TRUE]
        ELSE <<<<s[1], in>>>> \o Meaning[From(s, 2)][in]]

\* However the text is cut into pieces, what was handed out, and what flush
\* would hand out now, is the meaning of the whole.
PiecesDoNotMatter == parsed \o Typed(held, inside) = Meaning[said][FALSE]
=============================================================================

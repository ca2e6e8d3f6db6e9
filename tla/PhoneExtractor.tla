--------------------------- MODULE PhoneExtractor ---------------------------
(* phoneExtractor.ts: the numbers a text or a page shows, and the words    *)
(* around each, its context.  A page is a sequence of pieces: "text" is    *)
(* shown, "block" is the end of a paragraph or list item, "inline" any     *)
(* other tag, "script" is hidden, "link" is a tel: link's opening tag,     *)
(* "title" and "meta" are the head's.  The confidence a candidate gets     *)
(* from its formatting and from keywords is left out.                      *)
EXTENDS PhoneNormalizer

CONSTANT Window     \* CONTEXT_WINDOW_CHARS

ASSUME WindowOK == Window \in Nat \ {0}

Separators == {Space, Break, Dot, Dash}
Blanks == {Space, Break}

\* The position after [\s.-]?\d at p, 0 when there is no such unit.
AfterUnit(t, p) ==
    IF p \in DOMAIN t /\ t[p] \in Digit THEN p + 1
    ELSE IF /\ p + 1 \in DOMAIN t
            /\ t[p] \in Separators /\ t[p + 1] \in Digit THEN p + 2
    ELSE 0

\* The position after as many units from p as there are, least to most of them.
AfterUnits(t, p, least, most) ==
    LET end[n \in 0 .. most] ==
            IF n = 0 THEN p
            ELSE LET last == end[n - 1] IN IF last = 0 THEN 0 ELSE AfterUnit(t, last)
        reached == { n \in least .. most : end[n] # 0 }
    IN IF reached = {} THEN 0 ELSE end[Max(reached)]

HasAt(t, p, s) == SubSeq(t, p, p + Len(s) - 1) = s

MatchEnd_tenDigits(t, p) ==
    IF t[p] = 0 THEN AfterUnits(t, p + 1, 8, 9)
    ELSE IF \E s \in {<<Plus, 8, 4>>, <<8, 4>>} : p + Len(s) - 1 <= Len(t) /\ HasAt(t, p, s)
         THEN AfterUnits(t, p + (IF t[p] = Plus THEN 3 ELSE 2), 8, 10)
    ELSE IF \E d \in {8, 9} : p + 3 <= Len(t) /\ HasAt(t, p, <<1, d, 0, 0>>)
         THEN AfterUnits(t, p + 4, 4, 7)
    ELSE 0

\* The position after the match of PHONE_CANDIDATE_REGEX at p, 0 for no match.
MatchEnd(t, p) ==
    IF t[p] = 0 THEN AfterUnits(t, p + 1, 8, 10)
    ELSE IF \E s \in {<<Plus, 8, 4>>, <<8, 4>>} : p + Len(s) - 1 <= Len(t) /\ HasAt(t, p, s)
         THEN AfterUnits(t, p + (IF t[p] = Plus THEN 3 ELSE 2), 8, 10)
    ELSE IF \E d \in {8, 9} : p + 3 <= Len(t) /\ HasAt(t, p, <<1, d, 0, 0>>)
         THEN AfterUnits(t, p + 4, 4, 7)
    ELSE 0

\* The part of a context's window that is in the candidate's own paragraph.
ClampBefore(s) ==
    LET cut == { i \in DOMAIN s : s[i] = Break }
    IN IF cut = {} THEN s ELSE SubSeq(s, Max(cut) + 1, Len(s))

ClampAfter_lastBreak(s) ==
    LET cut == { i \in DOMAIN s : s[i] = Break }
    IN IF cut = {} THEN s ELSE SubSeq(s, 1, Max(cut) - 1)

ClampAfter(s) ==
    LET cut == { i \in DOMAIN s : s[i] = Break }
    IN IF cut = {} THEN s ELSE SubSeq(s, 1, Min(cut) - 1)

Candidate(t, start, end) ==
    [phone |-> SubSeq(t, start, end - 1), start |-> start, end |-> end,
     before |-> ClampBefore(SubSeq(t, Max({1, start - Window}), start - 1)),
     after |-> ClampAfter(SubSeq(t, end, Min({Len(t), end + Window - 1})))]

\* Every match, left to right, each search starting where the last match ended.
ExtractFromText(t) ==
    LET from[p \in 1 .. Len(t) + 1] ==
            IF p = Len(t) + 1 THEN <<>>
            ELSE LET end == MatchEnd(t, p)
                 IN IF end = 0 THEN from[p + 1]
                    ELSE <<Candidate(t, p, end)>> \o from[end]
    IN from[1]

\* What a run of blanks becomes: one line break if it has one, else one space.
Squeeze(t, c) ==
    IF c \notin Blanks THEN Append(t, c)
    ELSE IF t = <<>> THEN t
    ELSE IF Last(t) \notin Blanks THEN Append(t, c)
    ELSE IF c = Break THEN Append(Front(t), Break) ELSE t

\* A text with its runs of blanks squeezed, and none before the first word.
Squeezed(s) ==
    LET upTo[n \in 0 .. Len(s)] ==
            IF n = 0 THEN <<>> ELSE Squeeze(upTo[n - 1], s[n])
    IN upTo[Len(s)]

\* What a piece of the page leaves in its text.
TextOf(piece) ==
    IF piece.kind = "block" THEN <<Break>>
    ELSE IF piece.kind = "text" THEN piece.chars
    ELSE IF piece.kind = "title" THEN <<Space>> \o piece.chars \o <<Space>>
    ELSE <<Space>>

StripHtmlToVisibleText(page) ==
    LET t == Squeezed(FlattenSeq([i \in DOMAIN page |-> TextOf(page[i])]))
    IN IF t # <<>> /\ Last(t) \in Blanks THEN Front(t) ELSE t

FromBody(page) == ExtractFromText(StripHtmlToVisibleText(page))

\* The numbers of the tel: links, then those shown, in the title, in the meta.
ExtractFromHtml(page) ==
    LET all(kind) == Kept(page, {piece \in Range(page) : piece.kind = kind})
        inHead(kind) == IF all(kind) = <<>> THEN <<>>
                        ELSE ExtractFromText(Head(all(kind)).chars)
        phones(found) == [i \in DOMAIN found |-> found[i].phone]
        links == all("link")
    IN [i \in DOMAIN links |-> links[i].chars] \o phones(FromBody(page))
       \o phones(inHead("title")) \o phones(inHead("meta"))
=============================================================================

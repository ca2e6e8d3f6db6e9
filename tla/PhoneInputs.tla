---------------------------- MODULE PhoneInputs ----------------------------
(* What reaches the normalizer, the extractor and the call-log parser: a   *)
(* number typed key by key, a page written piece by piece, and a line of   *)
(* the call list.  The three algorithms are compared, on every such input, *)
(* with what the writer meant.                                             *)
EXTENDS PhoneExtractor, CallLogLine

CONSTANTS
    Keys,       \* the characters tried one by one at the start of a number
    Free,       \* how many characters are tried so
    MaxKeys,    \* the longest number typed; after Free it goes on with 1s
    Shown,      \* the spellings of numbers that pages and lines show
    Tagged,     \* those that also stand in links, scripts and heads
    Gaps,       \* what is written between them
    Marks,      \* what the page's help text puts between number and count
    MaxPieces   \* the longest page and line

\* A number as it is dialed in the country, from abroad, or to a hotline.
Dialable(s) ==
    LET digits == Cardinality({ i \in DOMAIN s : s[i] \in Digit })
    IN \/ s[1] = 0 /\ digits \in 9 .. 11
       \/ /\ IsPrefix(<<Plus, 8, 4>>, s) \/ IsPrefix(<<8, 4>>, s)
          /\ digits \in 10 .. 12
       \/ /\ IsPrefix(<<1, 9, 0, 0>>, s) \/ IsPrefix(<<1, 8, 0, 0>>, s)
          /\ digits \in 8 .. 11

\* A spelling is digits with a plus before them or single separators between
\* them, a number that is dialed or a shorter one; a mark is a comma or a times
\* sign with blanks around it; what stands between numbers, or after a count,
\* has no character of a number.
InputsOK ==
    /\ \A s \in Shown :
          /\ s \in Seq(PhoneChar \cup {Space, Dot, Dash}) /\ Len(s) >= 2
          /\ s[1] \in PhoneChar /\ s[Len(s)] \in Digit
          /\ \A i \in 2 .. Len(s) : s[i] # Plus
          /\ \A i \in 1 .. Len(s) : s[i] \in Digit \/ s[i + 1] \in Digit
          /\ Len(s) > 6 => Dialable(s)
    /\ Tagged \subseteq Shown
    /\ \A m \in Marks :
          /\ m \in Seq({Comma, Times} \cup Blanks)
          /\ \E i \in 1 .. Len(m) : /\ m[i] \in {Comma, Times}
                                   /\ \A j \in 1 .. Len(m) : j # i => m[j] \in Blanks
    /\ \A g \in Gaps : g \in Seq(Nat) /\ g # <<>> /\ Range(g) \cap PhoneChar = {}

ASSUME InputConstantsOK == InputsOK

VARIABLES
    typed,      \* the number in the lookup box
    page,       \* a page under extraction
    line        \* a line of the call list, its number, mark and count

inputVars == <<typed, page, line>>

InputsInit == typed = <<>> /\ page = <<>> /\ line = <<>>

PressKey ==
    /\ page = <<>> /\ line = <<>> /\ Len(typed) < MaxKeys
    /\ \E c \in IF Len(typed) < Free THEN Keys ELSE {1} : typed' = Append(typed, c)
    /\ UNCHANGED <<page, line>>

Pieces ==
    [kind : {"text"}, chars : Shown \cup Gaps]
        \cup [kind : {"link", "script", "title", "meta"}, chars : Tagged]
        \cup [kind : {"block", "inline"}, chars : {<<>>}]

WritePage ==
    /\ typed = <<>> /\ line = <<>> /\ Len(page) < MaxPieces
    /\ \E piece \in Pieces : page' = Append(page, piece)
    /\ UNCHANGED <<typed, line>>

WriteLine ==
    /\ typed = <<>> /\ page = <<>> /\ Len(line) < MaxPieces
    /\ \E s \in IF line = <<>> THEN Shown
                ELSE IF Len(line) = 1 THEN Marks
                ELSE IF Len(line) = 2 THEN { <<d>> : d \in 1 .. 9 } \cup {<<1, 2>>}
                ELSE { g \in Gaps : Break \notin Range(g) } :
          line' = Append(line, s)
    /\ UNCHANGED <<typed, page>>

InputsStep == PressKey \/ WritePage \/ WriteLine

-----------------------------------------------------------------------------

Types == {"MOBILE", "LANDLINE", "HOTLINE_1900", "HOTLINE_1800", "SHORT_CODE", "UNKNOWN"}

\* Whatever is typed, what is stored is digits after at most one leading plus,
\* and a number of a known type is always stored (vietnamPhone.ts:82).
TypeOK ==
    LET found == NormalizeVietnamPhone(typed)
        s == found.normalized
    IN /\ found.type \in Types
       /\ AllDigits(s) \/ (Head(s) = Plus /\ AllDigits(Tail(s)))
       /\ s = <<>> => found.type = "UNKNOWN"

\* Normalizing a stored form gives that form and its type again.  The spam
\* flags, the export and the suppressions normalize what the database holds
\* (callDirectoryExport.ts:141, labelSuppressions.ts:16) and would otherwise
\* look a number up under another key than the one it is stored under.  Short
\* codes typed with a plus before a 0 are the exception: +0191 is stored as
\* 0191, which the normalizer then refuses.
StoredFormStable ==
    LET found == NormalizeVietnamPhone(typed)
    IN /\ found.normalized # <<>>
       /\ ~ IsPrefix(<<Plus, 0>>, OnlyDigitsKeepPlus(typed))
       => NormalizeVietnamPhone(found.normalized) = found

\* A national number is one number however it is spelled: with its 0, with +84
\* or with 84.  Reports, call logs and identities of one caller meet only then.
SpellingsAgree ==
    LET s == OnlyDigitsKeepPlus(typed)
    IN s # <<>> /\ Head(s) = 0 /\ Len(s) >= 10 =>
          \A code \in {<<Plus, 8, 4>>, <<8, 4>>} :
             NormalizeVietnamPhone(code \o Tail(s)) = NormalizeVietnamPhone(typed)

\* The types the call directory exports (callDirectoryExport.ts:109) are E.164:
\* +84 and the nine digits of a mobile or the ten of a landline.  The export
\* strips the plus, and puts it back to look the suppressions up.
ExportedIsE164 ==
    LET found == NormalizeVietnamPhone(typed)
    IN found.type \in {"MOBILE", "LANDLINE"} =>
          /\ IsPrefix(<<Plus, 8, 4>>, found.normalized)
          /\ Len(found.normalized) = IF found.type = "MOBILE" THEN 12 ELSE 13

\* One number has one stored form, well formed, that every spelling leads to
\* and that every later normalization gives back.
OneStoredForm == TypeOK /\ StoredFormStable /\ SpellingsAgree /\ ExportedIsE164

Read(found) ==
    [i \in DOMAIN found |-> NormalizeVietnamPhone(found[i].phone).normalized]

\* What a visitor of the page sees.
Visible(piece) == piece.kind \in {"text", "title"}

IsNumber(piece) == piece.chars \in Shown

IsPhone(piece) == IsNumber(piece) /\ Len(piece.chars) > 6

\* Between two numbers there is something that no number is written with.
Apart ==
    \A i, j \in DOMAIN page :
       i < j /\ (\A n \in {i, j} : Visible(page[n]) /\ IsNumber(page[n])) =>
          \E k \in i .. j : /\ page[k].kind = "text"
                            /\ \E c \in Range(page[k].chars) : c >= Comma

\* The one description that the code reads.
FirstMeta ==
    { page[i] : i \in { i \in DOMAIN page :
                         /\ page[i].kind = "meta"
                         /\ \A j \in 1 .. i - 1 : page[j].kind # "meta" } }

\* Numbers that a page shows apart are all found, in their order, each as it
\* would be stored had it been typed alone, and nothing else is: not what a
\* script hides, and no number made of pieces of two (phoneExtractor.ts:8, 16).
\* The whole page adds to them the numbers of its tel: links and of its head.
ShownNumbersFound ==
    LET stored(s) == NormalizeVietnamPhone(s).normalized
        written == Kept(page, { p \in Range(page) : Visible(p) /\ IsPhone(p) })
        named == { p \in Range(page) : \/ p.kind = "link"
                                       \/ IsPhone(p) /\ (Visible(p) \/ p \in FirstMeta) }
    IN Apart =>
          /\ Read(FromBody(page)) = [i \in DOMAIN written |-> stored(written[i].chars)]
          /\ { stored(s) : s \in Range(ExtractFromHtml(page)) }
                = { stored(p.chars) : p \in named }

\* The words taken as a number's context stand in its own paragraph, as close
\* to it as the window: nothing of another list item is read as the name of
\* this one's owner (phoneExtractor.ts:12-15, 33).
ContextOfParagraph ==
    LET t == StripHtmlToVisibleText(page)
        found == FromBody(page)
        inParagraph(s, i, j) == i <= j => s = SubSeq(t, i, j)
    IN \A k \in DOMAIN found :
          LET c == found[k]
          IN /\ inParagraph(c.before, c.start - Len(c.before), c.start - 1)
             /\ inParagraph(c.after, c.end, c.end + Len(c.after) - 1)
             /\ Break \notin Range(c.before) \cup Range(c.after)
             /\ c.before = <<>> /\ c.start > 1 => t[c.start - 1] = Break
             /\ c.after = <<>> /\ c.end <= Len(t) => t[c.end] = Break

\* A line written as the help text says, a number alone or a number, a mark
\* and a count, is read as that number and that count, whatever follows them
\* (index.html:98, app.js:296).
LineReadAsWritten ==
    Len(line) \in {1} \cup 3 .. MaxPieces =>
       ParseCallLogLine(FlattenSeq(line)) =
          << [phone_raw |-> line[1],
              call_count |-> IF Len(line) = 1 THEN 1 ELSE Value(line[3])] >>
=============================================================================

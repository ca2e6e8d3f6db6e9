---------------------------- MODULE CallLogLine ----------------------------
(* parseCallLogLine (app.js): one line of the pasted list of calls, a      *)
(* number and how many times it called.  That a run of blanks inside the    *)
(* number becomes one space is left out: the API drops them all.           *)
EXTENDS PhoneNormalizer

Blank(c) == c \in {Space, Break}

\* The position of the first character from p on that is not a blank.
SkipBlanks(s, p) ==
    Min({ q \in p .. Len(s) + 1 : q = Len(s) + 1 \/ ~ Blank(s[q]) })

\* [+\d][\d\s.\-]*\d: the longest beginning of that shape, 0 for none.
PhoneEnd(s) ==
    LET inPhone(i) == IF i = 1 THEN s[i] \in Digit \cup {Plus}
                      ELSE s[i] \in Digit \cup {Space, Break, Dot, Dash}
        ends == { e \in 2 .. Len(s) : s[e] \in Digit /\ \A i \in 1 .. e : inPhone(i) }
    IN IF ends = {} THEN 0 ELSE Max(ends)

Value(digits) == FoldLeft(LAMBDA n, d : 10 * n + d, 0, digits)

CountAfter_noBlank(s, e) ==
    LET mark == SkipBlanks(s, e + 1)
        last == Max({mark} \cup { i \in mark + 1 .. Len(s) :
                                     \A j \in mark + 1 .. i : s[j] \in Digit })
    IN IF mark \in DOMAIN s /\ s[mark] \in {Comma, Times, Dash} /\ last > mark
       THEN Value(SubSeq(s, mark + 1, last)) ELSE 1

\* \s*(?:[,xX*-]\s*(\d+))?: the count that follows the phone, 1 when none does.
CountAfter(s, e) ==
    LET mark == SkipBlanks(s, e + 1)
        first == SkipBlanks(s, mark + 1)
        last == Max({first - 1} \cup { i \in first .. Len(s) :
                                         \A j \in first .. i : s[j] \in Digit })
    IN IF mark \in DOMAIN s /\ s[mark] \in {Comma, Times, Dash} /\ last >= first
       THEN Value(SubSeq(s, first, last)) ELSE 1

\* <<>> when the page cannot read the line and leaves it out of the import.
ParseCallLogLine(line) ==
    LET s == SubSeq(line, SkipBlanks(line, 1), Len(line))
        e == PhoneEnd(s)
    IN IF e = 0 THEN <<>>
       ELSE << [phone_raw |-> SubSeq(s, 1, e), call_count |-> CountAfter(s, e)] >>
=============================================================================

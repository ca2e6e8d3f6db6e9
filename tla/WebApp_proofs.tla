--------------------------- MODULE WebApp_proofs ---------------------------
(***************************************************************************)
(* TLAPS proofs about the page of apps/web, for every set of numbers,      *)
(* lines, jobs and charts, and any number of requests under way.           *)
(***************************************************************************)
EXTENDS WebApp, FiniteSetTheorems, SequenceTheorems, TLAPS

-----------------------------------------------------------------------------
(* Requests under way.                                                     *)

LEMMA RemovedAt ==
    ASSUME NEW S, NEW q \in Seq(S), NEW i \in DOMAIN q
    PROVE  /\ RemoveAt(q, i) \in Seq(S)
           /\ Len(RemoveAt(q, i)) = Len(q) - 1
           /\ \A k \in 1..(Len(q) - 1) :
                RemoveAt(q, i)[k] = q[IF k < i THEN k ELSE k + 1]
  <1> DEFINE l == SubSeq(q, 1, i - 1)
             r == SubSeq(q, i + 1, Len(q))
  <1>1. Len(q) \in Nat /\ i \in 1..Len(q) /\ \A k \in 1..Len(q) : q[k] \in S
    BY LenProperties, ElementOfSeq
  <1>2. /\ l \in Seq(S) /\ Len(l) = i - 1
        /\ \A k \in 1..(i - 1) : l[k] = q[k]
    <2>1. /\ l \in Seq(S) /\ Len(l) = IF 1 <= i - 1 THEN i - 1 - 1 + 1 ELSE 0
          /\ \A k \in 1..(i - 1 - 1 + 1) : l[k] = q[1 + k - 1]
      BY <1>1, SubSeqProperties
    <2>2. QED
      BY <1>1, <2>1
  <1>3. /\ r \in Seq(S) /\ Len(r) = Len(q) - i
        /\ \A k \in 1..(Len(q) - i) : r[k] = q[i + k]
    <2>1. /\ r \in Seq(S)
          /\ Len(r) = IF i + 1 <= Len(q) THEN Len(q) - (i + 1) + 1 ELSE 0
          /\ \A k \in 1..(Len(q) - (i + 1) + 1) : r[k] = q[i + 1 + k - 1]
      BY <1>1, SubSeqProperties
    <2>2. QED
      BY <1>1, <2>1
  <1>4. RemoveAt(q, i) = l \o r
    BY DEF RemoveAt
  <1> HIDE DEF l, r
  <1>5. /\ l \o r \in Seq(S) /\ Len(l \o r) = Len(l) + Len(r)
        /\ \A k \in 1..(Len(l) + Len(r)) :
            (l \o r)[k] = IF k <= Len(l) THEN l[k] ELSE r[k - Len(l)]
    BY <1>2, <1>3, ConcatProperties
  <1>6. Len(l) + Len(r) = Len(q) - 1
    BY <1>1, <1>2, <1>3
  <1>7. \A k \in 1..(Len(q) - 1) : (l \o r)[k] = q[IF k < i THEN k ELSE k + 1]
    <2> SUFFICES ASSUME NEW k \in 1..(Len(q) - 1)
                 PROVE  (l \o r)[k] = q[IF k < i THEN k ELSE k + 1]
      OBVIOUS
    <2>1. CASE k < i
      BY <1>1, <1>2, <1>5, <1>6, <2>1
    <2>2. CASE ~(k < i)
      <3>1. k - (i - 1) \in 1..(Len(q) - i) /\ i + (k - (i - 1)) = k + 1
        BY <1>1, <2>2
      <3>2. (l \o r)[k] = r[k - (i - 1)]
        BY <1>1, <1>2, <1>5, <1>6, <2>2
      <3>3. QED
        BY <1>3, <2>2, <3>1, <3>2
    <2>3. QED
      BY <2>1, <2>2
  <1>8. QED
    BY <1>4, <1>5, <1>6, <1>7

LEMMA RequestsAre ==
    ASSUME NEW A, NEW B, NEW q \in Requests(A, B)
    PROVE  /\ Len(q) \in Nat /\ DOMAIN q = 1..Len(q)
           /\ q = <<>> <=> Len(q) = 0
           /\ \A k \in DOMAIN q :
                q[k] \in [ask : A, answer : B \cup {NoAnswer}, late : BOOLEAN]
  BY LenProperties, ElementOfSeq, EmptySeq DEF Requests

LEMMA SentRequests ==
    ASSUME NEW A, NEW B, NEW q \in Requests(A, B), NEW a \in A
    PROVE  /\ Sent(q, a) \in Requests(A, B)
           /\ Len(Sent(q, a)) = Len(q) + 1
           /\ \A k \in DOMAIN q : Sent(q, a)[k] = q[k]
           /\ Sent(q, a)[Len(q) + 1] = [ask |-> a, answer |-> NoAnswer, late |-> FALSE]
  <1> DEFINE R == [ask : A, answer : B \cup {NoAnswer}, late : BOOLEAN]
             new == [ask |-> a, answer |-> NoAnswer, late |-> FALSE]
  <1>1. q \in Seq(R) /\ new \in R /\ DOMAIN q = 1..Len(q) /\ Len(q) \in Nat
    BY RequestsAre DEF Requests
  <1> HIDE DEF R, new
  <1>2. /\ Append(q, new) \in Seq(R) /\ Len(Append(q, new)) = Len(q) + 1
        /\ \A k \in 1..Len(q) : Append(q, new)[k] = q[k]
        /\ Append(q, new)[Len(q) + 1] = new
    BY <1>1, AppendProperties
  <1>3. QED
    BY <1>1, <1>2 DEF Requests, R, new, Sent

LEMMA AnsweredRequests ==
    ASSUME NEW A, NEW B, NEW q \in Requests(A, B), NEW i \in DOMAIN q, NEW b \in B
    PROVE  /\ Answered(q, i, b) \in Requests(A, B)
           /\ Len(Answered(q, i, b)) = Len(q)
           /\ \A k \in DOMAIN q : k # i => Answered(q, i, b)[k] = q[k]
           /\ Answered(q, i, b)[i].ask = q[i].ask
           /\ Answered(q, i, b)[i].late = q[i].late
           /\ Answered(q, i, b)[i].answer = b
  <1> DEFINE R == [ask : A, answer : B \cup {NoAnswer}, late : BOOLEAN]
             new == [q[i] EXCEPT !.answer = b]
  <1>1. q \in Seq(R) /\ q[i] \in R
    BY RequestsAre DEF Requests
  <1>2. /\ new = [ask |-> q[i].ask, answer |-> b, late |-> q[i].late]
        /\ new \in R
    BY <1>1
  <1>3. Answered(q, i, b) = [q EXCEPT ![i] = new]
    BY DEF Answered
  <1> HIDE DEF new, R
  <1>4. /\ [q EXCEPT ![i] = new] \in Seq(R) /\ Len([q EXCEPT ![i] = new]) = Len(q)
        /\ \A k \in 1..Len(q) : [q EXCEPT ![i] = new][k] = IF k = i THEN new ELSE q[k]
    BY <1>1, <1>2, ExceptSeq
  <1>5. DOMAIN q = 1..Len(q)
    BY RequestsAre
  <1>6. Answered(q, i, b) \in Requests(A, B)
    BY <1>3, <1>4 DEF Requests, R
  <1>7. Answered(q, i, b)[i] = [ask |-> q[i].ask, answer |-> b, late |-> q[i].late]
    BY <1>2, <1>3, <1>4, <1>5
  <1>8. QED
    BY <1>3, <1>4, <1>5, <1>6, <1>7

\* What is left when a request is delivered or lost: each of the others as it
\* was asked and answered, and a last one that is not late was the last one
\* before and was not late then.
LEMMA TakenRequests ==
    ASSUME NEW A, NEW B, NEW q \in Requests(A, B), NEW i \in DOMAIN q
    PROVE  /\ Taken(q, i) \in Requests(A, B)
           /\ Len(Taken(q, i)) = Len(q) - 1
           /\ \A k \in DOMAIN Taken(q, i) : \E j \in DOMAIN q :
                /\ Taken(q, i)[k].ask = q[j].ask
                /\ Taken(q, i)[k].answer = q[j].answer
           /\ Len(q) # 1 /\ ~Taken(q, i)[Len(q) - 1].late =>
                /\ i # Len(q) /\ ~q[Len(q)].late
                /\ Taken(q, i)[Len(q) - 1].ask = q[Len(q)].ask
                /\ Taken(q, i)[Len(q) - 1].answer = q[Len(q)].answer
  <1> DEFINE R == [ask : A, answer : B \cup {NoAnswer}, late : BOOLEAN]
             mark == [k \in DOMAIN q |-> [q[k] EXCEPT !.late = @ \/ k < i]]
  <1>1. /\ Len(q) \in Nat /\ DOMAIN q = 1..Len(q) /\ i \in 1..Len(q)
        /\ \A k \in DOMAIN q : q[k] \in R
    BY RequestsAre
  <1>2. \A k \in DOMAIN q :
            /\ mark[k] = [ask |-> q[k].ask, answer |-> q[k].answer, late |-> q[k].late \/ k < i]
            /\ mark[k] \in R
    BY <1>1
  <1>3. /\ DOMAIN mark = 1..Len(q) /\ mark \in [1..Len(q) -> R]
    BY <1>1, <1>2
  <1>4. mark \in Seq(R) /\ Len(mark) = Len(q)
    <2> HIDE DEF R, mark
    <2>1. mark \in Seq(R)
      BY <1>1, <1>3, SeqDef
    <2>2. QED
      BY <1>1, <1>3, <2>1, LenProperties
  <1>5. Taken(q, i) = RemoveAt(mark, i)
    BY DEF Taken
  <1> DEFINE t == RemoveAt(mark, i)
  <1>6. /\ t \in Seq(R) /\ Len(t) = Len(q) - 1
        /\ \A k \in 1..(Len(q) - 1) : t[k] = mark[IF k < i THEN k ELSE k + 1]
    <2> HIDE DEF R, mark
    <2>1. QED
      BY <1>1, <1>3, <1>4, RemovedAt
  <1>7. DOMAIN t = 1..(Len(q) - 1)
    <2> HIDE DEF R, t
    <2>1. QED
      BY <1>6, LenProperties
  <1> HIDE DEF mark
  <1>8. \A k \in 1..(Len(q) - 1) :
            /\ k < i => t[k] = [ask |-> q[k].ask, answer |-> q[k].answer, late |-> TRUE]
            /\ k >= i => t[k] = [ask |-> q[k + 1].ask, answer |-> q[k + 1].answer,
                                 late |-> q[k + 1].late]
    <2> SUFFICES ASSUME NEW k \in 1..(Len(q) - 1)
                 PROVE  /\ k < i => t[k] = [ask |-> q[k].ask, answer |-> q[k].answer, late |-> TRUE]
                        /\ k >= i => t[k] = [ask |-> q[k + 1].ask, answer |-> q[k + 1].answer,
                                             late |-> q[k + 1].late]
      OBVIOUS
    <2> HIDE DEF t
    <2>1. k \in DOMAIN q /\ k + 1 \in DOMAIN q
      BY <1>1
    <2>2. k < i => t[k] = mark[k]
      BY <1>6
    <2>3. k >= i => t[k] = mark[k + 1]
      BY <1>1, <1>6
    <2>4. k >= i => (q[k + 1].late \/ k + 1 < i) = q[k + 1].late
      BY <1>1, <2>1
    <2>5. QED
      BY <1>2, <2>1, <2>2, <2>3, <2>4
  <1> HIDE DEF t
  <1>9. \A k \in 1..(Len(q) - 1) : \E j \in DOMAIN q :
            t[k].ask = q[j].ask /\ t[k].answer = q[j].answer
    <2> TAKE k \in 1..(Len(q) - 1)
    <2>1. k \in DOMAIN q /\ k + 1 \in DOMAIN q
      BY <1>1
    <2>2. CASE k < i
      <3>1. t[k] = [ask |-> q[k].ask, answer |-> q[k].answer, late |-> TRUE]
        BY <1>8, <2>2
      <3>2. QED
        BY <2>1, <3>1
    <2>3. CASE k >= i
      <3>1. t[k] = [ask |-> q[k + 1].ask, answer |-> q[k + 1].answer, late |-> q[k + 1].late]
        BY <1>8, <2>3
      <3>2. QED
        BY <2>1, <3>1
    <2>4. QED
      BY <1>1, <2>2, <2>3
  <1>10. ASSUME Len(q) # 1, ~t[Len(q) - 1].late
         PROVE  /\ i # Len(q) /\ ~q[Len(q)].late
                /\ t[Len(q) - 1].ask = q[Len(q)].ask
                /\ t[Len(q) - 1].answer = q[Len(q)].answer
    <2> DEFINE k == Len(q) - 1
    <2>1. k \in 1..(Len(q) - 1) /\ k + 1 = Len(q)
      BY <1>1, <1>10
    <2>2. ~(k < i)
      <3>1. SUFFICES ASSUME k < i  PROVE FALSE
        OBVIOUS
      <3>2. t[k] = [ask |-> q[k].ask, answer |-> q[k].answer, late |-> TRUE]
        BY <1>8, <2>1, <3>1
      <3>3. t[k].late
        BY <3>2
      <3>4. QED
        BY <1>10, <3>3
    <2>3. t[k] = [ask |-> q[Len(q)].ask, answer |-> q[Len(q)].answer, late |-> q[Len(q)].late]
      <3>1. k >= i
        BY <1>1, <2>1, <2>2
      <3>2. QED
        BY <1>8, <2>1, <3>1
    <2>4. i # Len(q)
      BY <1>1, <2>2
    <2>5. QED
      BY <1>10, <2>3, <2>4
  <1>11. QED
    BY <1>5, <1>6, <1>7, <1>9, <1>10 DEF Requests, R, t

-----------------------------------------------------------------------------
(* The look-up tab: types, and what a summary of reports says.             *)

\* The reports of a number that did not come from this browser.
Others(p) == {r \in About(p) : r.reporter # BrowserRef}

\* The summaries that count this browser once at most, and banners of them.
HonestSummaries ==
    {s \in Phones \X Spam : s[2].reporters <= 1 + Cardinality(Others(s[1]))}

HonestBanners == {b \in Banners : b.reporters <= 1 + Cardinality(Others(b.phone))}

\* A look-up that has read the reports of its number.
Read == SpamRead \cup NumberRead \cup Found

\* Every answer under way is honest, and warns where this browser has reported.
LookupsHonest ==
    \A k \in DOMAIN lookups :
        /\ lookups[k].ask.due => lookups[k].ask.phone \in acknowledged
        /\ lookups[k].answer \in Read =>
            /\ <<lookups[k].ask.phone, lookups[k].answer.spam>> \in HonestSummaries
            /\ lookups[k].ask.due => lookups[k].answer.spam.risk # "NONE"

PostsHonest ==
    \A k \in DOMAIN posts :
        /\ posts[k].answer # NoAnswer => posts[k].ask \in Flagged
        /\ posts[k].answer \in Spam =>
            /\ <<posts[k].ask, posts[k].answer>> \in HonestSummaries
            /\ posts[k].answer.risk # "NONE"

PageHonest ==
    /\ acknowledged \subseteq Flagged
    /\ banner # None => banner \in HonestBanners
    /\ AcknowledgedWarns

\* The number a report would be about is the one on the screen.
CurrentShown == shown # None => current = shown.phone

LookupTyped == LookupTypeOK /\ IsFiniteSet(reports) /\ CurrentShown

HonestInv == LookupTyped /\ LookupsHonest /\ PostsHonest /\ PageHonest

LEMMA KeysOfReports ==
    ASSUME NEW S, IsFiniteSet(S)
    PROVE  /\ IsFiniteSet({ReporterKey(r) : r \in S})
           /\ Cardinality({ReporterKey(r) : r \in S}) <= Cardinality(S)
  <1> DEFINE T == {ReporterKey(r) : r \in S}
             f == [r \in S |-> ReporterKey(r)]
  <1>1. f \in Surjection(S, T)
    BY DEF Surjection
  <1> HIDE DEF f
  <1>2. QED
    BY <1>1, FS_Surjection

LEMMA SummaryFacts ==
    ASSUME reports \subseteq Report, IsFiniteSet(reports), NEW p \in Phones
    PROVE  /\ SpamSummary(p) \in Spam
           /\ <<p, SpamSummary(p)>> \in HonestSummaries
           /\ p \in Flagged => SpamSummary(p).risk # "NONE"
  <1> DEFINE keys == {ReporterKey(r) : r \in About(p)}
             others == {ReporterKey(r) : r \in Others(p)}
             n == Cardinality(keys)
  <1>1. IsFiniteSet(About(p)) /\ IsFiniteSet(Others(p))
    <2>1. About(p) \in SUBSET reports /\ Others(p) \in SUBSET reports
      BY DEF About, Others
    <2>2. QED
      BY <2>1, FS_Subset
  <1>2. IsFiniteSet(keys) /\ n \in Nat
    BY <1>1, KeysOfReports, FS_CardinalityType
  <1>3. /\ IsFiniteSet(others) /\ Cardinality(others) <= Cardinality(Others(p))
        /\ Cardinality(others) \in Nat /\ Cardinality(Others(p)) \in Nat
    BY <1>1, KeysOfReports, FS_CardinalityType
  <1>4. keys \in SUBSET (others \cup {BrowserRef})
    BY LookupConstantsOK, CallDirectoryConstantsOK DEF Others, ReporterKey
  <1>5. n <= 1 + Cardinality(Others(p))
    <2> DEFINE both == others \cup {BrowserRef}
    <2> HIDE DEF keys, others
    <2>1. IsFiniteSet(both) /\ Cardinality(both) <= Cardinality(others) + 1
      <3>1. /\ IsFiniteSet(both)
            /\ \/ Cardinality(both) = Cardinality(others)
               \/ Cardinality(both) = Cardinality(others) + 1
        <4> HIDE DEF n
        <4>1. QED
          BY <1>3, FS_AddElement, Zenon
      <3>2. QED
        BY <1>3, <3>1
    <2>2. n <= Cardinality(both) /\ Cardinality(both) \in Nat
      BY <1>4, <2>1, FS_Subset, FS_CardinalityType
    <2>3. QED
      BY <1>2, <1>3, <2>1, <2>2
  <1>6. About(p) # {} => n >= 1
    <2>1. About(p) # {} => keys # {}
      OBVIOUS
    <2> HIDE DEF keys
    <2>2. keys # {} => n # 0
      BY <1>2, FS_EmptySet
    <2>3. QED
      BY <1>2, <2>1, <2>2
  <1>7. SpamSummary(p) = [reporters |-> n, risk |-> RiskLevel(n)]
    BY DEF SpamSummary, DistinctReporters
  <1> HIDE DEF n
  <1>8. RiskLevel(n) \in {"NONE", "MEDIUM", "HIGH"} /\ (n >= 1 => RiskLevel(n) # "NONE")
    BY DEF RiskLevel
  <1>9. SpamSummary(p).reporters = n /\ SpamSummary(p).risk = RiskLevel(n)
    BY <1>7
  <1>10. QED
    BY <1>2, <1>5, <1>6, <1>7, <1>8, <1>9 DEF Spam, HonestSummaries, Flagged

\* Whatever lookupPhone has read at a step is an honest answer in the making.
LEMMA ReadsHonestly ==
    ASSUME HonestInv, NEW i \in DOMAIN lookups,
           ReadSpam(i) \/ ReadNumber(i) \/ ReadIdentities(i)
    PROVE  \E a \in Replies :
            /\ Reads(i, a)
            /\ a \in Read =>
                /\ <<lookups[i].ask.phone, a.spam>> \in HonestSummaries
                /\ lookups[i].ask.due => a.spam.risk # "NONE"
  <1> DEFINE p == lookups[i].ask.phone
             answer == lookups[i].answer
             Right(a) == /\ <<p, a.spam>> \in HonestSummaries
                         /\ lookups[i].ask.due => a.spam.risk # "NONE"
  <1>1. p \in Phones \cup {Garbage}
    <2>1. lookups[i].ask \in Asks
      BY RequestsAre DEF HonestInv, LookupTyped, LookupTypeOK
    <2>2. QED
      BY <2>1 DEF Asks
  <1>2. CASE ReadSpam(i)
    <2>1. CASE p = Garbage
      BY <1>2, <2>1, SignsDiffer DEF ReadSpam, Replies, Read
    <2>2. CASE p # Garbage
      <3>1. /\ SpamSummary(p) \in Spam /\ <<p, SpamSummary(p)>> \in HonestSummaries
            /\ p \in Flagged => SpamSummary(p).risk # "NONE"
        BY <1>1, <2>2, SummaryFacts DEF HonestInv, LookupTyped, LookupTypeOK, ServerTypeOK
      <3>2. lookups[i].ask.due => p \in Flagged
        BY DEF HonestInv, LookupsHonest, PageHonest
      <3> DEFINE a == [spam |-> SpamSummary(p)]
      <3>3. a \in Replies /\ a.spam = SpamSummary(p)
        BY <3>1 DEF Replies, SpamRead
      <3>4. Reads(i, a)
        BY <1>2, <2>2 DEF ReadSpam
      <3> HIDE DEF a
      <3>5. Right(a)
        BY <3>1, <3>2, <3>3
      <3>6. QED
        BY <3>3, <3>4, <3>5
    <2>3. QED
      BY <2>1, <2>2
  <1>3. ASSUME answer \in SpamRead \cup NumberRead  PROVE answer.spam \in Spam /\ Right(answer)
    BY <1>3 DEF HonestInv, LookupsHonest, SpamRead, NumberRead, Read
  <1>4. CASE ReadNumber(i)
    <2> DEFINE a == IF directory[p] = "absent"
                    THEN [spam |-> answer.spam, seen |-> FALSE, named |-> FALSE]
                    ELSE [spam |-> answer.spam, seen |-> TRUE]
    <2>1. answer.spam \in Spam /\ Right(answer)
      BY <1>3, <1>4 DEF ReadNumber
    <2>2. a.spam = answer.spam /\ a \in Replies
      BY <2>1 DEF Replies, Found, NumberRead
    <2>3. Reads(i, a)
      BY <1>4 DEF ReadNumber
    <2> HIDE DEF a
    <2>4. Right(a)
      BY <2>1, <2>2
    <2>5. QED
      BY <2>2, <2>3, <2>4
  <1>5. CASE ReadIdentities(i)
    <2> DEFINE a == [spam |-> answer.spam, seen |-> TRUE, named |-> directory[p] = "named"]
    <2>1. answer.spam \in Spam /\ Right(answer)
      BY <1>3, <1>5 DEF ReadIdentities
    <2>2. a.spam = answer.spam /\ a \in Replies
      BY <2>1 DEF Replies, Found
    <2>3. Reads(i, a)
      BY <1>5 DEF ReadIdentities
    <2> HIDE DEF a
    <2>4. Right(a)
      BY <2>1, <2>2
    <2>5. QED
      BY <2>2, <2>3, <2>4
  <1>6. QED
    BY <1>2, <1>4, <1>5

\* A row is added to the table, whoever reports.
LEMMA ReportAdded ==
    ASSUME LookupTyped, NEW p \in Phones, NEW c \in Categories,
           NEW who \in Reporters \cup {Anonymous}, Submit(p, c, who)
    PROVE  /\ (reports \subseteq Report)' /\ IsFiniteSet(reports')
           /\ reports \subseteq reports' /\ p \in Flagged'
  <1> DEFINE new == [id |-> Cardinality(reports) + 1, phone |-> p,
                     category |-> c, reporter |-> who]
  <1>1. reports' = reports \cup {new}
    BY DEF Submit
  <1>2. Cardinality(reports) \in Nat
    BY FS_CardinalityType DEF LookupTyped
  <1>3. new \in Report /\ new.phone = p
    BY <1>2 DEF Report
  <1> HIDE DEF new
  <1>4. IsFiniteSet(reports')
    BY <1>1, FS_AddElement DEF LookupTyped
  <1>5. QED
    BY <1>1, <1>3, <1>4 DEF LookupTyped, LookupTypeOK, ServerTypeOK, About, Flagged

\* Reports are never deleted: what was honest of them remains so.
LEMMA HonestyLasts ==
    ASSUME IsFiniteSet(reports'), reports \subseteq reports'
    PROVE  /\ Flagged \subseteq Flagged'
           /\ HonestSummaries \subseteq HonestSummaries'
           /\ HonestBanners \subseteq HonestBanners'
  <1>1. \A p : About(p) \subseteq About(p)'
    BY DEF About
  <1>2. ASSUME NEW p
        PROVE  /\ Cardinality(Others(p)) \in Nat /\ Cardinality(Others(p)') \in Nat
               /\ Cardinality(Others(p)) <= Cardinality(Others(p)')
    <2>1. Others(p)' \in SUBSET reports' /\ Others(p) \in SUBSET Others(p)'
      BY DEF About, Others
    <2>2. IsFiniteSet(Others(p)')
      BY <2>1, FS_Subset
    <2>3. IsFiniteSet(Others(p)) /\ Cardinality(Others(p)) <= Cardinality(Others(p)')
      BY <2>1, <2>2, FS_Subset
    <2>4. QED
      BY <2>2, <2>3, FS_CardinalityType
  <1>3. HonestSummaries \subseteq HonestSummaries'
    <2>1. ASSUME NEW p \in Phones, NEW spam \in Spam,
                 spam.reporters <= 1 + Cardinality(Others(p))
          PROVE  spam.reporters <= 1 + Cardinality(Others(p)')
      BY <1>2, <2>1 DEF Spam
    <2>2. QED
      BY <2>1 DEF HonestSummaries
  <1>4. HonestBanners \subseteq HonestBanners'
    <2>1. ASSUME NEW b \in Banners, b.reporters <= 1 + Cardinality(Others(b.phone))
          PROVE  b.reporters <= 1 + Cardinality(Others(b.phone)')
      <3>1. b.phone \in Phones /\ b.reporters \in Nat
        BY DEF Banners
      <3>2. QED
        BY <1>2, <2>1, <3>1
    <2>2. QED
      BY <2>1 DEF HonestBanners
  <1>5. QED
    BY <1>1, <1>3, <1>4 DEF Flagged

\* The banner of an honest summary of a number is honest.
LEMMA BannerTyped ==
    ASSUME NEW p \in Phones, NEW spam \in Spam
    PROVE  /\ SpamBanner(p, spam) \in {None} \cup Banners
           /\ SpamBanner(p, spam) = None <=> spam.risk = "NONE"
           /\ SpamBanner(p, spam) # None => SpamBanner(p, spam).phone = p
           /\ SpamBanner(p, spam) # None /\ <<p, spam>> \in HonestSummaries =>
                SpamBanner(p, spam) \in HonestBanners
  <1>1. CASE spam.risk = "NONE"
    BY <1>1 DEF SpamBanner
  <1>2. CASE spam.risk # "NONE"
    <2>1. SpamBanner(p, spam) =
            [phone |-> p, reporters |-> spam.reporters, risk |-> spam.risk]
      BY <1>2 DEF SpamBanner
    <2>2. SpamBanner(p, spam) \in Banners
      BY <1>2, <2>1 DEF Banners, Spam
    <2>3. /\ SpamBanner(p, spam).phone = p
          /\ SpamBanner(p, spam).reporters = spam.reporters
      BY <2>1
    <2>4. <<p, spam>> \in HonestSummaries => SpamBanner(p, spam) \in HonestBanners
      BY <2>2, <2>3 DEF HonestSummaries, HonestBanners
    <2>5. QED
      BY <1>2, <2>2, <2>3, <2>4, SignsDiffer
  <1>3. QED
    BY <1>1, <1>2

LEMMA HonestInit == LookupInit => HonestInv
  <1> SUFFICES ASSUME LookupInit  PROVE HonestInv
    OBVIOUS
  <1>1. ServerTypeOK /\ IsFiniteSet(reports)
    BY CallDirectoryConstantsOK DEF LookupInit, ServerInit, ServerTypeOK
  <1>2. <<>> \in Requests(Asks, Replies) /\ <<>> \in Requests(Phones, {Inserted} \cup Spam)
    BY EmptySeq DEF Requests
  <1>3. LookupTyped
    BY <1>1, <1>2, LookupConstantsOK DEF LookupInit, LookupTyped, LookupTypeOK, CurrentShown
  <1>4. QED
    BY <1>3 DEF LookupInit, HonestInv, LookupsHonest, PostsHonest, PageHonest,
                AcknowledgedWarns

LEMMA HonestKept ==
    ASSUME HonestInv, UNCHANGED lookupVars  PROVE HonestInv'
  <1> USE DEF lookupVars, serverVars, resultVars
  <1>1. LookupTyped'
    BY DEF HonestInv, LookupTyped, LookupTypeOK, CurrentShown, ServerTypeOK
  <1>2. UNCHANGED <<Flagged, HonestSummaries, HonestBanners>>
    BY DEF Flagged, About, HonestSummaries, HonestBanners, Others
  <1>3. QED
    BY <1>1, <1>2 DEF HonestInv, LookupsHonest, PostsHonest, PageHonest, AcknowledgedWarns

\* A look-up is sent, with the number typed.
LEMMA HonestSubmitLookup ==
    ASSUME HonestInv, SubmitLookup  PROVE HonestInv'
  <1> USE DEF HonestInv
  <1>1. PICK p \in Phones \cup {Garbage} :
            /\ query' = p
            /\ lookups' = Sent(lookups, [phone |-> p, due |-> p \in acknowledged])
    BY DEF SubmitLookup
  <1> DEFINE ask == [phone |-> p, due |-> p \in acknowledged]
  <1>2. /\ UNCHANGED <<serverVars, directory, lookupLast, current, form, banner,
                       posts, reportStatus, acknowledged>>
        /\ status' = "loading" /\ shown' = None
        /\ calm' \in BOOLEAN /\ apart' \in BOOLEAN
    BY DEF SubmitLookup
  <1>3. ask \in Asks /\ (ask.due => ask.phone \in acknowledged)
    <2>1. (p \in acknowledged) \in BOOLEAN
      OBVIOUS
    <2>2. ask \in Asks
      BY <2>1 DEF Asks
    <2>3. ask.due = (p \in acknowledged) /\ ask.phone = p
      OBVIOUS
    <2>4. QED
      BY <2>2, <2>3
  <1> HIDE DEF ask
  <1>4. /\ lookups' \in Requests(Asks, Replies) /\ DOMAIN lookups' = 1..(Len(lookups) + 1)
        /\ DOMAIN lookups = 1..Len(lookups) /\ Len(lookups) \in Nat
        /\ \A k \in DOMAIN lookups : lookups'[k] = lookups[k]
        /\ lookups'[Len(lookups) + 1] = [ask |-> ask, answer |-> NoAnswer, late |-> FALSE]
    BY <1>1, <1>3, SentRequests, RequestsAre DEF LookupTyped, LookupTypeOK, ask
  <1>5. LookupTyped'
    BY <1>1, <1>2, <1>4 DEF LookupTyped, LookupTypeOK, CurrentShown, ServerTypeOK, serverVars
  <1>6. UNCHANGED <<Flagged, HonestSummaries, HonestBanners>>
    BY <1>2 DEF serverVars, Flagged, About, HonestSummaries, HonestBanners, Others
  <1>7. LookupsHonest'
    <2> SUFFICES ASSUME NEW k \in DOMAIN lookups'
                 PROVE  /\ lookups'[k].ask.due => lookups'[k].ask.phone \in acknowledged
                        /\ lookups'[k].answer \in Read =>
                            /\ <<lookups'[k].ask.phone, lookups'[k].answer.spam>> \in HonestSummaries
                            /\ lookups'[k].ask.due => lookups'[k].answer.spam.risk # "NONE"
      BY <1>2, <1>6 DEF LookupsHonest
    <2>1. CASE k \in DOMAIN lookups
      BY <1>4, <2>1 DEF LookupsHonest
    <2>2. CASE k = Len(lookups) + 1
      <3>1. lookups'[k].ask = ask /\ lookups'[k].answer = NoAnswer
        BY <1>4, <2>2
      <3>2. QED
        BY <1>3, <3>1, SignsDiffer DEF Read
    <2>3. QED
      BY <1>4, <2>1, <2>2
  <1>8. QED
    BY <1>2, <1>5, <1>6, <1>7 DEF PostsHonest, PageHonest, AcknowledgedWarns

\* lookupPhone has read one table more.
LEMMA HonestReads ==
    ASSUME HonestInv, NEW i \in DOMAIN lookups,
           ReadSpam(i) \/ ReadNumber(i) \/ ReadIdentities(i)
    PROVE  HonestInv'
  <1> USE DEF HonestInv
  <1>1. PICK a \in Replies :
            /\ Reads(i, a)
            /\ a \in Read =>
                /\ <<lookups[i].ask.phone, a.spam>> \in HonestSummaries
                /\ lookups[i].ask.due => a.spam.risk # "NONE"
    BY ReadsHonestly
  <1>2. /\ lookups' = Answered(lookups, i, a)
        /\ UNCHANGED <<serverVars, directory, query, lookupLast, status,
                       resultVars, posts, calm, apart, acknowledged>>
    BY <1>1 DEF Reads
  <1>3. /\ lookups' \in Requests(Asks, Replies)
        /\ DOMAIN lookups = 1..Len(lookups) /\ Len(lookups') = Len(lookups)
        /\ \A k \in DOMAIN lookups : k # i => lookups'[k] = lookups[k]
        /\ lookups'[i].ask = lookups[i].ask /\ lookups'[i].answer = a
    BY <1>2, AnsweredRequests, RequestsAre DEF LookupTyped, LookupTypeOK
  <1>4. DOMAIN lookups' = DOMAIN lookups
    BY <1>3, RequestsAre
  <1>5. LookupTyped'
    BY <1>2, <1>3 DEF LookupTyped, LookupTypeOK, CurrentShown, ServerTypeOK, serverVars, resultVars
  <1>6. UNCHANGED <<Flagged, HonestSummaries, HonestBanners>>
    BY <1>2 DEF serverVars, Flagged, About, HonestSummaries, HonestBanners, Others
  <1>7. LookupsHonest'
    <2> SUFFICES ASSUME NEW k \in DOMAIN lookups
                 PROVE  /\ lookups'[k].ask.due => lookups'[k].ask.phone \in acknowledged
                        /\ lookups'[k].answer \in Read =>
                            /\ <<lookups'[k].ask.phone, lookups'[k].answer.spam>> \in HonestSummaries
                            /\ lookups'[k].ask.due => lookups'[k].answer.spam.risk # "NONE"
      BY <1>2, <1>4, <1>6 DEF LookupsHonest
    <2>1. CASE k # i
      BY <1>3, <2>1 DEF LookupsHonest
    <2>2. CASE k = i
      <3>1. lookups'[k].ask = lookups[i].ask /\ lookups'[k].answer = a
        BY <1>3, <2>2
      <3>2. lookups[i].ask.due => lookups[i].ask.phone \in acknowledged
        BY DEF LookupsHonest
      <3>3. QED
        BY <1>1, <3>1, <3>2
    <2>3. QED
      BY <2>1, <2>2
  <1>8. QED
    BY <1>2, <1>5, <1>6, <1>7 DEF PostsHonest, PageHonest, AcknowledgedWarns, resultVars

\* A look-up is answered or lost: what the others were asked and answered stays.
LEMMA HonestLookupReturns ==
    ASSUME HonestInv, NEW i \in DOMAIN lookups, LookupReturns(i)
    PROVE  /\ lookups' \in Requests(Asks, Replies) /\ lookupLast' \in BOOLEAN
           /\ LookupsHonest'
           /\ UNCHANGED <<Flagged, HonestSummaries, HonestBanners>>
  <1> USE DEF HonestInv
  <1>1. /\ lookups' = Taken(lookups, i)
        /\ UNCHANGED <<serverVars, acknowledged>>
        /\ lookupLast' = IsLast(lookups, i)
    BY DEF LookupReturns
  <1>2. /\ lookups' \in Requests(Asks, Replies)
        /\ \A k \in DOMAIN lookups' : \E m \in DOMAIN lookups :
                lookups'[k].ask = lookups[m].ask /\ lookups'[k].answer = lookups[m].answer
    <2>1. lookups \in Requests(Asks, Replies)
      BY DEF LookupTyped, LookupTypeOK
    <2>2. /\ Taken(lookups, i) \in Requests(Asks, Replies)
          /\ \A k \in DOMAIN Taken(lookups, i) : \E m \in DOMAIN lookups :
                /\ Taken(lookups, i)[k].ask = lookups[m].ask
                /\ Taken(lookups, i)[k].answer = lookups[m].answer
      BY <2>1, TakenRequests
    <2>3. QED
      BY <1>1, <2>2
  <1>3. UNCHANGED <<Flagged, HonestSummaries, HonestBanners>>
    BY <1>1 DEF serverVars, Flagged, About, HonestSummaries, HonestBanners, Others
  <1>4. LookupsHonest'
    <2> SUFFICES ASSUME NEW k \in DOMAIN lookups'
                 PROVE  /\ lookups'[k].ask.due => lookups'[k].ask.phone \in acknowledged
                        /\ lookups'[k].answer \in Read =>
                            /\ <<lookups'[k].ask.phone, lookups'[k].answer.spam>> \in HonestSummaries
                            /\ lookups'[k].ask.due => lookups'[k].answer.spam.risk # "NONE"
      BY <1>1, <1>3 DEF LookupsHonest
    <2>1. PICK m \in DOMAIN lookups :
                lookups'[k].ask = lookups[m].ask /\ lookups'[k].answer = lookups[m].answer
      BY <1>2
    <2>2. QED
      BY <2>1 DEF LookupsHonest
  <1>5. lookupLast' \in BOOLEAN
    BY <1>1 DEF IsLast
  <1>6. QED
    BY <1>2, <1>3, <1>4, <1>5

\* A result is rendered; its warning is the one that was read.
LEMMA HonestDeliverLookup ==
    ASSUME HonestInv, NEW i \in DOMAIN lookups, DeliverLookup(i)
    PROVE  HonestInv'
  <1> USE DEF HonestInv
  <1> DEFINE data == lookups[i].answer
             ask == lookups[i].ask
  <1>1. /\ lookups' \in Requests(Asks, Replies) /\ lookupLast' \in BOOLEAN
        /\ LookupsHonest' /\ UNCHANGED <<Flagged, HonestSummaries, HonestBanners>>
    BY HonestLookupReturns DEF DeliverLookup
  <1>2. UNCHANGED <<serverVars, directory, query, posts, calm, apart, acknowledged>>
    BY DEF DeliverLookup, LookupReturns
  <1>3. CASE data = Refused /\ status' = "error" /\ UNCHANGED resultVars
    <2>1. LookupTyped'
      BY <1>1, <1>2, <1>3 DEF LookupTyped, LookupTypeOK, CurrentShown, ServerTypeOK, serverVars, resultVars
    <2>2. QED
      BY <1>1, <1>2, <1>3, <2>1 DEF PostsHonest, PageHonest, AcknowledgedWarns, resultVars
  <1>4. CASE /\ data \in Found
             /\ status' = IF data.seen THEN "none" ELSE "empty"
             /\ RenderResult(ask, data)
    <2>1. /\ <<ask.phone, data.spam>> \in HonestSummaries
          /\ ask.due => data.spam.risk # "NONE"
      BY <1>4 DEF LookupsHonest, Read
    <2>2. /\ ask.phone \in Phones /\ data.spam \in Spam
          /\ data.seen \in BOOLEAN /\ data.named \in BOOLEAN
      BY <1>4, <2>1 DEF HonestSummaries, Found
    <2>3. ask \in Asks
      BY RequestsAre DEF LookupTyped, LookupTypeOK
    <2>4. ask.due \in BOOLEAN
      BY <2>3 DEF Asks
    <2>5. /\ shown' = [phone |-> ask.phone, seen |-> data.seen, named |-> data.named,
                       due |-> ask.due]
          /\ current' = ask.phone /\ banner' = SpamBanner(ask.phone, data.spam)
          /\ form' = None /\ reportStatus' = "hidden" /\ status' \in {"none", "empty"}
      BY <1>4 DEF RenderResult
    <2>6. shown' \in Results /\ shown'.due = ask.due /\ shown'.phone = ask.phone
      BY <2>2, <2>4, <2>5 DEF Results
    <2>7. /\ banner' \in {None} \cup Banners
          /\ banner' # None => banner' \in HonestBanners
          /\ ask.due => banner' # None
      BY <2>1, <2>2, <2>5, BannerTyped
    <2>8. LookupTyped'
      BY <1>1, <1>2, <2>2, <2>5, <2>6, <2>7
         DEF LookupTyped, LookupTypeOK, CurrentShown, ServerTypeOK, serverVars
    <2>9. QED
      BY <1>1, <1>2, <2>6, <2>7, <2>8 DEF PostsHonest, PageHonest, AcknowledgedWarns
  <1>5. QED
    BY <1>3, <1>4 DEF DeliverLookup

LEMMA HonestLoseLookup ==
    ASSUME HonestInv, NEW i \in DOMAIN lookups, LoseLookup(i)
    PROVE  HonestInv'
  <1> USE DEF HonestInv
  <1>1. /\ lookups' \in Requests(Asks, Replies) /\ lookupLast' \in BOOLEAN
        /\ LookupsHonest' /\ UNCHANGED <<Flagged, HonestSummaries, HonestBanners>>
    BY HonestLookupReturns DEF LoseLookup
  <1>2. /\ UNCHANGED <<serverVars, directory, query, posts, calm, apart, acknowledged>>
        /\ status' = "error" /\ UNCHANGED resultVars
    BY DEF LoseLookup, LookupReturns
  <1>3. LookupTyped'
    BY <1>1, <1>2 DEF LookupTyped, LookupTypeOK, CurrentShown, ServerTypeOK, serverVars, resultVars
  <1>4. QED
    BY <1>1, <1>2, <1>3 DEF PostsHonest, PageHonest, AcknowledgedWarns, resultVars

LEMMA HonestToggleForm ==
    ASSUME HonestInv, ToggleForm  PROVE HonestInv'
  <1> USE DEF HonestInv
  <1>1. /\ shown # None /\ form' = IF form = None THEN shown.phone ELSE None
        /\ UNCHANGED <<serverVars, directory, query, lookups, lookupLast, status, shown,
                       current, banner, posts, reportStatus, calm, apart, acknowledged>>
    BY DEF ToggleForm
  <1>2. shown \in Results
    BY <1>1 DEF LookupTyped, LookupTypeOK
  <1>3. form' \in Phones \cup {None}
    BY <1>1, <1>2 DEF Results
  <1>4. LookupTyped'
    BY <1>1, <1>3 DEF LookupTyped, LookupTypeOK, CurrentShown, ServerTypeOK, serverVars
  <1>5. UNCHANGED <<Flagged, HonestSummaries, HonestBanners>>
    BY <1>1 DEF serverVars, Flagged, About, HonestSummaries, HonestBanners, Others
  <1>6. QED
    BY <1>1, <1>4, <1>5 DEF LookupsHonest, PostsHonest, PageHonest, AcknowledgedWarns

LEMMA HonestSubmitReport ==
    ASSUME HonestInv, SubmitReport  PROVE HonestInv'
  <1> USE DEF HonestInv
  <1>1. /\ shown # None /\ posts' = Sent(posts, current) /\ reportStatus' = "loading"
        /\ apart' \in BOOLEAN
        /\ UNCHANGED <<serverVars, directory, query, lookups, lookupLast, status,
                       shown, current, form, banner, calm, acknowledged>>
    BY DEF SubmitReport
  <1>2. current \in Phones
    <2>1. shown \in Results
      BY <1>1 DEF LookupTyped, LookupTypeOK
    <2>2. QED
      BY <1>1, <2>1 DEF LookupTyped, CurrentShown, Results
  <1>3. /\ posts' \in Requests(Phones, {Inserted} \cup Spam)
        /\ DOMAIN posts' = 1..(Len(posts) + 1)
        /\ DOMAIN posts = 1..Len(posts) /\ Len(posts) \in Nat
        /\ \A k \in DOMAIN posts : posts'[k] = posts[k]
        /\ posts'[Len(posts) + 1] = [ask |-> current, answer |-> NoAnswer, late |-> FALSE]
    BY <1>1, <1>2, SentRequests, RequestsAre DEF LookupTyped, LookupTypeOK
  <1>4. LookupTyped'
    BY <1>1, <1>3 DEF LookupTyped, LookupTypeOK, CurrentShown, ServerTypeOK, serverVars
  <1>5. UNCHANGED <<Flagged, HonestSummaries, HonestBanners>>
    BY <1>1 DEF serverVars, Flagged, About, HonestSummaries, HonestBanners, Others
  <1>6. PostsHonest'
    <2> SUFFICES ASSUME NEW k \in DOMAIN posts'
                 PROVE  /\ posts'[k].answer # NoAnswer => posts'[k].ask \in Flagged
                        /\ posts'[k].answer \in Spam =>
                            /\ <<posts'[k].ask, posts'[k].answer>> \in HonestSummaries
                            /\ posts'[k].answer.risk # "NONE"
      BY <1>5 DEF PostsHonest
    <2>1. CASE k \in DOMAIN posts
      BY <1>3, <2>1 DEF PostsHonest
    <2>2. CASE k = Len(posts) + 1
      <3>1. posts'[k].answer = NoAnswer
        BY <1>3, <2>2
      <3>2. QED
        BY <3>1, SignsDiffer
    <2>3. QED
      BY <1>3, <2>1, <2>2
  <1>7. QED
    BY <1>1, <1>4, <1>5, <1>6 DEF LookupsHonest, PageHonest, AcknowledgedWarns

\* The API's answers to a report: the INSERT, then the summary.
LEMMA HonestPostAnswered ==
    ASSUME HonestInv, NEW i \in DOMAIN posts, NEW a \in {Inserted} \cup Spam,
           posts' = Answered(posts, i, a),
           Flagged \subseteq Flagged', HonestSummaries \subseteq HonestSummaries',
           posts[i].ask \in Flagged',
           a \in Spam => <<posts[i].ask, a>> \in HonestSummaries' /\ a.risk # "NONE"
    PROVE  posts' \in Requests(Phones, {Inserted} \cup Spam) /\ PostsHonest'
  <1> USE DEF HonestInv
  <1>1. /\ posts' \in Requests(Phones, {Inserted} \cup Spam)
        /\ DOMAIN posts = 1..Len(posts) /\ Len(posts') = Len(posts)
        /\ \A k \in DOMAIN posts : k # i => posts'[k] = posts[k]
        /\ posts'[i].ask = posts[i].ask /\ posts'[i].answer = a
    BY AnsweredRequests, RequestsAre DEF LookupTyped, LookupTypeOK
  <1>2. DOMAIN posts' = DOMAIN posts
    BY <1>1, RequestsAre
  <1>3. ASSUME NEW k \in DOMAIN posts
        PROVE  /\ posts'[k].answer # NoAnswer => posts'[k].ask \in Flagged'
               /\ posts'[k].answer \in Spam =>
                    /\ <<posts'[k].ask, posts'[k].answer>> \in HonestSummaries'
                    /\ posts'[k].answer.risk # "NONE"
    <2>1. CASE k # i
      BY <1>1, <2>1 DEF PostsHonest
    <2>2. CASE k = i
      BY <1>1, <2>2
    <2>3. QED
      BY <2>1, <2>2
  <1>4. QED
    BY <1>1, <1>2, <1>3 DEF PostsHonest

LEMMA HonestInsertReport ==
    ASSUME HonestInv, NEW i \in DOMAIN posts, InsertReport(i)
    PROVE  HonestInv'
  <1> USE DEF HonestInv
  <1>1. PICK c \in Categories : Submit(posts[i].ask, c, BrowserRef)
    BY DEF InsertReport
  <1>2. /\ posts' = Answered(posts, i, Inserted)
        /\ UNCHANGED <<suppressed, autoBlock, directory, query, lookups, lookupLast,
                       status, resultVars, calm, apart, acknowledged>>
    BY DEF InsertReport
  <1>3. posts[i].ask \in Phones
    BY RequestsAre DEF LookupTyped, LookupTypeOK
  <1>4. /\ (reports \subseteq Report)' /\ IsFiniteSet(reports')
        /\ reports \subseteq reports'
        /\ posts[i].ask \in Flagged'
    BY <1>1, <1>3, LookupConstantsOK, ReportAdded
  <1>5. /\ Flagged \subseteq Flagged' /\ HonestSummaries \subseteq HonestSummaries'
        /\ HonestBanners \subseteq HonestBanners'
    BY <1>4, HonestyLasts
  <1>6. posts' \in Requests(Phones, {Inserted} \cup Spam) /\ PostsHonest'
    BY <1>2, <1>4, <1>5, SignsDiffer, HonestPostAnswered
  <1>7. LookupTyped'
    BY <1>2, <1>4, <1>6
       DEF LookupTyped, LookupTypeOK, CurrentShown, ServerTypeOK, resultVars
  <1>8. QED
    BY <1>2, <1>5, <1>6, <1>7 DEF LookupsHonest, PageHonest, AcknowledgedWarns, resultVars

LEMMA HonestSummariseReport ==
    ASSUME HonestInv, NEW i \in DOMAIN posts, SummariseReport(i)
    PROVE  HonestInv'
  <1> USE DEF HonestInv
  <1>1. /\ posts[i].answer = Inserted
        /\ posts' = Answered(posts, i, SpamSummary(posts[i].ask))
        /\ UNCHANGED <<serverVars, directory, query, lookups, lookupLast,
                       status, resultVars, calm, apart, acknowledged>>
    BY DEF SummariseReport
  <1>2. posts[i].ask \in Phones /\ posts[i].ask \in Flagged
    BY <1>1, RequestsAre, SignsDiffer DEF LookupTyped, LookupTypeOK, PostsHonest
  <1>3. /\ SpamSummary(posts[i].ask) \in Spam
        /\ <<posts[i].ask, SpamSummary(posts[i].ask)>> \in HonestSummaries
        /\ SpamSummary(posts[i].ask).risk # "NONE"
    BY <1>2, SummaryFacts DEF LookupTyped, LookupTypeOK, ServerTypeOK
  <1>4. UNCHANGED <<Flagged, HonestSummaries, HonestBanners>>
    BY <1>1 DEF serverVars, Flagged, About, HonestSummaries, HonestBanners, Others
  <1>5. posts' \in Requests(Phones, {Inserted} \cup Spam) /\ PostsHonest'
    BY <1>1, <1>2, <1>3, <1>4, HonestPostAnswered
  <1>6. LookupTyped'
    BY <1>1, <1>5
       DEF LookupTyped, LookupTypeOK, CurrentShown, ServerTypeOK, serverVars, resultVars
  <1>7. QED
    BY <1>1, <1>4, <1>5, <1>6 DEF LookupsHonest, PageHonest, AcknowledgedWarns, resultVars

LEMMA HonestReportReturns ==
    ASSUME HonestInv, NEW i \in DOMAIN posts, ReportReturns(i)
    PROVE  /\ posts' \in Requests(Phones, {Inserted} \cup Spam) /\ PostsHonest'
           /\ UNCHANGED <<Flagged, HonestSummaries, HonestBanners>>
  <1> USE DEF HonestInv
  <1>1. posts' = Taken(posts, i) /\ UNCHANGED serverVars
    BY DEF ReportReturns
  <1>2. /\ posts' \in Requests(Phones, {Inserted} \cup Spam)
        /\ \A k \in DOMAIN posts' : \E m \in DOMAIN posts :
                posts'[k].ask = posts[m].ask /\ posts'[k].answer = posts[m].answer
    <2> DEFINE B == {Inserted} \cup Spam
    <2> HIDE DEF B
    <2>1. posts \in Requests(Phones, B)
      BY DEF LookupTyped, LookupTypeOK, B
    <2>2. /\ Taken(posts, i) \in Requests(Phones, B)
          /\ \A k \in DOMAIN Taken(posts, i) : \E m \in DOMAIN posts :
                /\ Taken(posts, i)[k].ask = posts[m].ask
                /\ Taken(posts, i)[k].answer = posts[m].answer
      BY <2>1, TakenRequests
    <2>3. QED
      BY <1>1, <2>2 DEF B
  <1>3. UNCHANGED <<Flagged, HonestSummaries, HonestBanners>>
    BY <1>1 DEF serverVars, Flagged, About, HonestSummaries, HonestBanners, Others
  <1>4. ASSUME NEW k \in DOMAIN posts'
        PROVE  /\ posts'[k].answer # NoAnswer => posts'[k].ask \in Flagged
               /\ posts'[k].answer \in Spam =>
                    /\ <<posts'[k].ask, posts'[k].answer>> \in HonestSummaries
                    /\ posts'[k].answer.risk # "NONE"
    <2>1. PICK m \in DOMAIN posts :
                posts'[k].ask = posts[m].ask /\ posts'[k].answer = posts[m].answer
      BY <1>2
    <2>2. QED
      BY <2>1 DEF PostsHonest
  <1>5. QED
    BY <1>2, <1>3, <1>4 DEF PostsHonest

\* The banner is that of the report, which warns: nothing shown loses its warning.
LEMMA HonestDeliverReport ==
    ASSUME HonestInv, NEW i \in DOMAIN posts, DeliverReport(i)
    PROVE  HonestInv'
  <1> USE DEF HonestInv
  <1>1. /\ posts' \in Requests(Phones, {Inserted} \cup Spam) /\ PostsHonest'
        /\ UNCHANGED <<Flagged, HonestSummaries, HonestBanners>>
    BY HonestReportReturns DEF DeliverReport
  <1>2. /\ posts[i].answer \in Spam
        /\ banner' = SpamBanner(posts[i].ask, posts[i].answer)
        /\ form' = None /\ reportStatus' \in {"hidden", "sent"}
        /\ acknowledged' = acknowledged \cup {posts[i].ask}
        /\ UNCHANGED <<serverVars, directory, query, lookups, lookupLast, status,
                       shown, current, calm, apart>>
    BY DEF DeliverReport, ReportSays, ReportReturns
  <1>3. /\ posts[i].ask \in Phones /\ posts[i].ask \in Flagged
        /\ <<posts[i].ask, posts[i].answer>> \in HonestSummaries
        /\ posts[i].answer.risk # "NONE"
    BY <1>2, RequestsAre, SignsDiffer DEF LookupTyped, LookupTypeOK, PostsHonest
  <1>4. banner' \in Banners /\ banner' \in HonestBanners /\ banner' # None
    BY <1>2, <1>3, BannerTyped
  <1>5. acknowledged' \subseteq Flagged
    BY <1>2, <1>3 DEF PageHonest
  <1>6. LookupTyped'
    BY <1>1, <1>2, <1>3, <1>4
       DEF LookupTyped, LookupTypeOK, CurrentShown, ServerTypeOK, serverVars
  <1>7. QED
    BY <1>1, <1>2, <1>4, <1>5, <1>6 DEF LookupsHonest, PageHonest, AcknowledgedWarns

LEMMA HonestLoseReport ==
    ASSUME HonestInv, NEW i \in DOMAIN posts, LoseReport(i)
    PROVE  HonestInv'
  <1> USE DEF HonestInv
  <1>1. /\ posts' \in Requests(Phones, {Inserted} \cup Spam) /\ PostsHonest'
        /\ UNCHANGED <<Flagged, HonestSummaries, HonestBanners>>
    BY HonestReportReturns DEF LoseReport
  <1>2. /\ reportStatus' \in {"hidden", "error"} /\ UNCHANGED <<form, banner, acknowledged>>
        /\ UNCHANGED <<serverVars, directory, query, lookups, lookupLast, status,
                       shown, current, calm, apart>>
    BY DEF LoseReport, ReportSays, ReportReturns
  <1>3. LookupTyped'
    BY <1>1, <1>2 DEF LookupTyped, LookupTypeOK, CurrentShown, ServerTypeOK, serverVars
  <1>4. QED
    BY <1>1, <1>2, <1>3 DEF LookupsHonest, PageHonest, AcknowledgedWarns

LEMMA HonestOtherReports ==
    ASSUME HonestInv, OtherReports  PROVE HonestInv'
  <1> USE DEF HonestInv
  <1>1. PICK p \in Phones, c \in Categories,
             who \in (Reporters \ {BrowserRef}) \cup {Anonymous} : Submit(p, c, who)
    BY DEF OtherReports
  <1>2. UNCHANGED <<suppressed, autoBlock, directory, query, lookups, lookupLast,
                    status, resultVars, posts, calm, apart, acknowledged>>
    BY DEF OtherReports
  <1>3. /\ (reports \subseteq Report)' /\ IsFiniteSet(reports')
        /\ reports \subseteq reports'
    BY <1>1, ReportAdded
  <1>4. /\ Flagged \subseteq Flagged' /\ HonestSummaries \subseteq HonestSummaries'
        /\ HonestBanners \subseteq HonestBanners'
    BY <1>3, HonestyLasts
  <1>5. LookupTyped'
    BY <1>2, <1>3 DEF LookupTyped, LookupTypeOK, CurrentShown, ServerTypeOK, resultVars
  <1>6. QED
    BY <1>2, <1>4, <1>5
       DEF LookupsHonest, PostsHonest, PageHonest, AcknowledgedWarns, resultVars

LEMMA HonestAggregate ==
    ASSUME HonestInv, Aggregate  PROVE HonestInv'
  <1> USE DEF HonestInv
  <1>1. /\ directory' \in [Phones -> Progress]
        /\ UNCHANGED <<serverVars, query, lookups, lookupLast, status, resultVars,
                       posts, calm, apart, acknowledged>>
    BY DEF Aggregate, LookupTyped, LookupTypeOK, Progress
  <1>2. LookupTyped'
    BY <1>1
       DEF LookupTyped, LookupTypeOK, CurrentShown, ServerTypeOK, serverVars, resultVars
  <1>3. UNCHANGED <<Flagged, HonestSummaries, HonestBanners>>
    BY <1>1 DEF serverVars, Flagged, About, HonestSummaries, HonestBanners, Others
  <1>4. QED
    BY <1>1, <1>2, <1>3
       DEF LookupsHonest, PostsHonest, PageHonest, AcknowledgedWarns, resultVars

LEMMA HonestStep ==
    ASSUME HonestInv, LookupStep  PROVE HonestInv'
  BY HonestSubmitLookup, HonestToggleForm, HonestSubmitReport, HonestReads,
     HonestDeliverLookup, HonestInsertReport, HonestSummariseReport,
     HonestDeliverReport, HonestLoseLookup, HonestLoseReport, HonestOtherReports,
     HonestAggregate
     DEF LookupStep, LookupAnswers

\* What the run checks of the warnings follows.
LEMMA HonestWarns == HonestInv => WarningsHonest
  <1> SUFFICES ASSUME HonestInv  PROVE WarningsHonest
    OBVIOUS
  <1>1. ASSUME banner # None
        PROVE  banner.reporters <= 1 + Cardinality({r \in About(banner.phone) :
                                                        r.reporter # BrowserRef})
    BY <1>1 DEF HonestInv, PageHonest, HonestBanners, Others
  <1>2. QED
    BY <1>1 DEF HonestInv, PageHonest, WarningsHonest, BrowserCountsOnce

-----------------------------------------------------------------------------
(* The look-up tab: whose result, form and banner are on the screen.       *)

\* While no look-up and report overlap, reports are about the number shown.
ReportsOfShown ==
    /\ apart /\ lookups # <<>> => posts = <<>>
    /\ apart /\ shown # None => \A k \in DOMAIN posts : posts[k].ask = shown.phone

\* The last look-up sent, unless it was overtaken, asks what was typed last; a
\* look-up that overlaps no other is alone, over a result that is hidden.
LastLookupAsks ==
    /\ lookups # <<>> /\ ~lookups[Len(lookups)].late =>
            lookups[Len(lookups)].ask.phone = query
    /\ calm /\ lookups # <<>> => Len(lookups) = 1 /\ ~lookups[1].late /\ shown = None

ScreenInv ==
    ReportsConcernShown /\ BannerOfShown /\ ReportsOfShown /\ LastLookupAsks
        /\ SettledLookupAnswers

LEMMA ScreenInit == LookupInit => ScreenInv
  BY DEF LookupInit, ScreenInv, ReportsConcernShown, BannerOfShown, ReportsOfShown,
         LastLookupAsks, SettledLookupAnswers

LEMMA ScreenKept ==
    ASSUME ScreenInv, UNCHANGED <<query, lookups, lookupLast, status, resultVars,
                                  posts, calm, apart>>
    PROVE  ScreenInv'
  BY DEF resultVars, ScreenInv, ReportsConcernShown, BannerOfShown, ReportsOfShown,
         LastLookupAsks, SettledLookupAnswers

LEMMA ScreenSubmitLookup ==
    ASSUME HonestInv, ScreenInv, SubmitLookup  PROVE ScreenInv'
  <1>1. PICK p \in Phones \cup {Garbage} :
            /\ query' = p
            /\ lookups' = Sent(lookups, [phone |-> p, due |-> p \in acknowledged])
    BY DEF SubmitLookup
  <1> DEFINE ask == [phone |-> p, due |-> p \in acknowledged]
  <1>2. /\ shown' = None /\ calm' = (lookups = <<>>) /\ apart' = (posts = <<>>)
        /\ posts' = posts
    BY DEF SubmitLookup
  <1>3. ask \in Asks
    <2>1. (p \in acknowledged) \in BOOLEAN
      OBVIOUS
    <2>2. QED
      BY <2>1 DEF Asks
  <1>4. ask.phone = p
    OBVIOUS
  <1> HIDE DEF ask
  <1>5. lookups \in Requests(Asks, Replies)
    BY DEF HonestInv, LookupTyped, LookupTypeOK
  <1>6. /\ Len(lookups') = Len(lookups) + 1 /\ Len(lookups) \in Nat
        /\ lookups = <<>> <=> Len(lookups) = 0
        /\ lookups'[Len(lookups) + 1] = [ask |-> ask, answer |-> NoAnswer, late |-> FALSE]
    BY <1>1, <1>3, <1>5, SentRequests, RequestsAre DEF ask
  <1>7. /\ lookups'[Len(lookups')].ask.phone = query' /\ ~lookups'[Len(lookups')].late
        /\ lookups' # <<>>
    <2>1. Len(lookups') # 0
      BY <1>6
    <2>2. lookups' # <<>>
      BY <2>1, EmptySeq
    <2>3. lookups'[Len(lookups')] = [ask |-> ask, answer |-> NoAnswer, late |-> FALSE]
      BY <1>6
    <2>4. QED
      BY <1>1, <1>4, <2>2, <2>3
  <1>8. LastLookupAsks'
    <2>1. calm' => Len(lookups') = 1
      <3>1. calm' => lookups = <<>>
        BY <1>2
      <3>2. lookups = <<>> => Len(lookups') = 1
        BY <1>6
      <3>3. QED
        BY <3>1, <3>2
    <2>2. QED
      BY <1>2, <1>7, <2>1 DEF LastLookupAsks
  <1>9. QED
    BY <1>2, <1>7, <1>8
       DEF ScreenInv, ReportsConcernShown, BannerOfShown, ReportsOfShown,
           SettledLookupAnswers

LEMMA ScreenReads ==
    ASSUME HonestInv, ScreenInv, NEW i \in DOMAIN lookups,
           ReadSpam(i) \/ ReadNumber(i) \/ ReadIdentities(i)
    PROVE  ScreenInv'
  <1>1. PICK a \in Replies : Reads(i, a)
    BY ReadsHonestly
  <1>2. /\ lookups' = Answered(lookups, i, a)
        /\ UNCHANGED <<query, lookupLast, status, resultVars, posts, calm, apart>>
    BY <1>1 DEF Reads
  <1>3. lookups \in Requests(Asks, Replies)
    BY DEF HonestInv, LookupTyped, LookupTypeOK
  <1>4. /\ lookups' \in Requests(Asks, Replies) /\ Len(lookups') = Len(lookups)
        /\ Len(lookups) \in Nat /\ DOMAIN lookups = 1..Len(lookups)
        /\ \A k \in DOMAIN lookups : k # i => lookups'[k] = lookups[k]
        /\ lookups'[i].ask = lookups[i].ask /\ lookups'[i].late = lookups[i].late
        /\ lookups = <<>> <=> Len(lookups) = 0
    BY <1>2, <1>3, AnsweredRequests, RequestsAre
  <1>5. lookups' # <<>> /\ lookups # <<>>
    BY <1>4, RequestsAre
  <1>6. \A k \in DOMAIN lookups :
            lookups'[k].ask = lookups[k].ask /\ lookups'[k].late = lookups[k].late
    BY <1>4
  <1>7. Len(lookups) \in DOMAIN lookups /\ 1 \in DOMAIN lookups
    BY <1>4, <1>5
  <1>8. LastLookupAsks'
    BY <1>2, <1>4, <1>5, <1>6, <1>7 DEF ScreenInv, LastLookupAsks, resultVars
  <1>9. QED
    BY <1>2, <1>5, <1>8
       DEF ScreenInv, ReportsConcernShown, BannerOfShown, ReportsOfShown,
           SettledLookupAnswers, resultVars

\* A look-up returns: when none is left under way and none was overtaken, it
\* was the one that asks what was typed last.
LEMMA ScreenLookupReturns ==
    ASSUME HonestInv, ScreenInv, NEW i \in DOMAIN lookups, LookupReturns(i)
    PROVE  /\ lookups' # <<>> /\ ~lookups'[Len(lookups')].late =>
                lookups'[Len(lookups')].ask.phone = query
           /\ lookups' = <<>> /\ lookupLast' => lookups[i].ask.phone = query
           /\ lookups # <<>> /\ (calm => lookups' = <<>> /\ shown = None)
           /\ UNCHANGED <<query, posts, calm, apart>>
  <1>1. /\ lookups' = Taken(lookups, i) /\ lookupLast' = IsLast(lookups, i)
        /\ UNCHANGED <<query, posts, calm, apart>>
    BY DEF LookupReturns
  <1>2. lookups \in Requests(Asks, Replies)
    BY DEF HonestInv, LookupTyped, LookupTypeOK
  <1>3. /\ Taken(lookups, i) \in Requests(Asks, Replies)
        /\ Len(Taken(lookups, i)) = Len(lookups) - 1
        /\ Len(lookups) # 1 /\ ~Taken(lookups, i)[Len(lookups) - 1].late =>
                /\ ~lookups[Len(lookups)].late
                /\ Taken(lookups, i)[Len(lookups) - 1].ask = lookups[Len(lookups)].ask
    BY <1>2, TakenRequests
  <1>4. /\ Len(lookups) \in Nat /\ i \in 1..Len(lookups) /\ lookups # <<>>
        /\ lookups' = <<>> <=> Len(lookups') = 0
    <2>1. lookups' = <<>> <=> Len(lookups') = 0
      BY <1>1, <1>3, RequestsAre
    <2>2. QED
      BY <1>2, <2>1, RequestsAre
  <1>5. /\ Len(lookups') = Len(lookups) - 1
        /\ Len(lookups) # 1 /\ ~lookups'[Len(lookups')].late =>
                /\ ~lookups[Len(lookups)].late
                /\ lookups'[Len(lookups')].ask = lookups[Len(lookups)].ask
    BY <1>1, <1>3
  <1>6. ASSUME lookups' # <<>>, ~lookups'[Len(lookups')].late
        PROVE  lookups'[Len(lookups')].ask.phone = query
    <2>1. Len(lookups) # 1
      BY <1>4, <1>5, <1>6
    <2>2. QED
      BY <1>4, <1>5, <1>6, <2>1 DEF ScreenInv, LastLookupAsks
  <1>7. ASSUME lookups' = <<>>, lookupLast'  PROVE lookups[i].ask.phone = query
    BY <1>1, <1>4, <1>7 DEF IsLast, ScreenInv, LastLookupAsks
  <1>8. calm => lookups' = <<>> /\ shown = None
    BY <1>4, <1>5 DEF ScreenInv, LastLookupAsks
  <1>9. QED
    BY <1>1, <1>4, <1>6, <1>7, <1>8

LEMMA ScreenDeliverLookup ==
    ASSUME HonestInv, ScreenInv, NEW i \in DOMAIN lookups, DeliverLookup(i)
    PROVE  ScreenInv'
  <1> DEFINE data == lookups[i].answer
             ask == lookups[i].ask
  <1>1. /\ lookups' # <<>> /\ ~lookups'[Len(lookups')].late =>
                lookups'[Len(lookups')].ask.phone = query'
        /\ lookups' = <<>> /\ lookupLast' => ask.phone = query'
        /\ lookups # <<>> /\ (calm' => lookups' = <<>> /\ shown = None)
        /\ UNCHANGED <<query, posts, calm, apart>>
    BY ScreenLookupReturns DEF DeliverLookup
  <1>2. apart => posts = <<>>
    BY <1>1 DEF ScreenInv, ReportsOfShown
  <1>3. LastLookupAsks'
    BY <1>1 DEF LastLookupAsks
  <1>4. CASE data = Refused /\ status' = "error" /\ UNCHANGED resultVars
    BY <1>1, <1>2, <1>3, <1>4
       DEF ScreenInv, ReportsConcernShown, BannerOfShown, ReportsOfShown,
           SettledLookupAnswers, resultVars
  <1>5. CASE /\ data \in Found
             /\ status' = IF data.seen THEN "none" ELSE "empty"
             /\ RenderResult(ask, data)
    <2>1. /\ shown' = [phone |-> ask.phone, seen |-> data.seen, named |-> data.named,
                       due |-> ask.due]
          /\ banner' = SpamBanner(ask.phone, data.spam)
          /\ form' = None
      BY <1>5 DEF RenderResult
    <2>2. ask.phone \in Phones /\ data.spam \in Spam
      BY <1>5 DEF HonestInv, LookupsHonest, Read, HonestSummaries, Found
    <2>3. shown'.phone = ask.phone /\ status' # "error"
      BY <1>5, <2>1
    <2>4. banner' # None => banner'.phone = ask.phone
      BY <2>1, <2>2, BannerTyped
    <2>5. shown' # None
      <3>1. ask \in Asks
        BY RequestsAre DEF HonestInv, LookupTyped, LookupTypeOK
      <3>2. ask.due \in BOOLEAN /\ data.seen \in BOOLEAN /\ data.named \in BOOLEAN
        BY <1>5, <3>1 DEF Asks, Found
      <3>3. QED
        BY <2>1, <2>2, <3>2, SignsDiffer DEF Results
    <2>6. BannerOfShown' /\ ReportsConcernShown' /\ ReportsOfShown'
      BY <1>1, <1>2, <2>1, <2>3, <2>4
         DEF BannerOfShown, ReportsConcernShown, ReportsOfShown
    <2>7. SettledLookupAnswers'
      BY <1>1, <2>3, <2>5 DEF SettledLookupAnswers
    <2>8. QED
      BY <1>3, <2>6, <2>7 DEF ScreenInv
  <1>6. QED
    BY <1>4, <1>5 DEF DeliverLookup

LEMMA ScreenLoseLookup ==
    ASSUME HonestInv, ScreenInv, NEW i \in DOMAIN lookups, LoseLookup(i)
    PROVE  ScreenInv'
  <1>1. /\ lookups' # <<>> /\ ~lookups'[Len(lookups')].late =>
                lookups'[Len(lookups')].ask.phone = query'
        /\ lookups # <<>> /\ (calm' => lookups' = <<>> /\ shown = None)
        /\ UNCHANGED <<query, posts, calm, apart>>
    BY ScreenLookupReturns DEF LoseLookup
  <1>2. status' = "error" /\ UNCHANGED resultVars
    BY DEF LoseLookup
  <1>3. LastLookupAsks'
    BY <1>1 DEF LastLookupAsks
  <1>4. QED
    BY <1>1, <1>2, <1>3
       DEF ScreenInv, ReportsConcernShown, BannerOfShown, ReportsOfShown,
           SettledLookupAnswers, resultVars

LEMMA ScreenToggleForm ==
    ASSUME HonestInv, ScreenInv, ToggleForm  PROVE ScreenInv'
  <1>1. /\ form' = IF form = None THEN shown.phone ELSE None
        /\ UNCHANGED <<query, lookups, lookupLast, status, shown, current, banner,
                       posts, calm, apart>>
    BY DEF ToggleForm
  <1>2. ReportsConcernShown'
    BY <1>1 DEF HonestInv, LookupTyped, CurrentShown, ReportsConcernShown
  <1>3. QED
    BY <1>1, <1>2
       DEF ScreenInv, BannerOfShown, ReportsOfShown, LastLookupAsks, SettledLookupAnswers

LEMMA ScreenSubmitReport ==
    ASSUME HonestInv, ScreenInv, SubmitReport  PROVE ScreenInv'
  <1>1. /\ shown # None /\ posts' = Sent(posts, current)
        /\ apart' = (apart /\ lookups = <<>>)
        /\ UNCHANGED <<query, lookups, lookupLast, status, shown, current, form,
                       banner, calm>>
    BY DEF SubmitReport
  <1>2. current = shown.phone /\ current \in Phones
    <2>1. shown \in Results
      BY <1>1 DEF HonestInv, LookupTyped, LookupTypeOK
    <2>2. QED
      BY <1>1, <2>1 DEF HonestInv, LookupTyped, CurrentShown, Results
  <1>3. posts \in Requests(Phones, {Inserted} \cup Spam)
    BY DEF HonestInv, LookupTyped, LookupTypeOK
  <1>4. /\ DOMAIN posts' = 1..(Len(posts) + 1)
        /\ DOMAIN posts = 1..Len(posts) /\ Len(posts) \in Nat
        /\ \A k \in DOMAIN posts : posts'[k] = posts[k]
        /\ posts'[Len(posts) + 1] = [ask |-> current, answer |-> NoAnswer, late |-> FALSE]
    BY <1>1, <1>2, <1>3, SentRequests, RequestsAre
  <1>5. posts'[Len(posts) + 1].ask = current
    BY <1>4
  <1>6. ASSUME apart', NEW k \in DOMAIN posts'  PROVE posts'[k].ask = shown.phone
    <2>1. CASE k \in DOMAIN posts
      BY <1>1, <1>4, <1>6, <2>1 DEF ScreenInv, ReportsOfShown
    <2>2. CASE k = Len(posts) + 1
      BY <1>2, <1>5, <2>2
    <2>3. QED
      BY <1>4, <2>1, <2>2
  <1>7. ReportsOfShown'
    BY <1>1, <1>6 DEF ReportsOfShown
  <1>8. QED
    BY <1>1, <1>7
       DEF ScreenInv, ReportsConcernShown, BannerOfShown, LastLookupAsks,
           SettledLookupAnswers

LEMMA ScreenPostAnswered ==
    ASSUME HonestInv, ScreenInv, NEW i \in DOMAIN posts, NEW a \in {Inserted} \cup Spam,
           posts' = Answered(posts, i, a),
           UNCHANGED <<query, lookups, lookupLast, status, resultVars, calm, apart>>
    PROVE  ScreenInv'
  <1>1. posts \in Requests(Phones, {Inserted} \cup Spam)
    BY DEF HonestInv, LookupTyped, LookupTypeOK
  <1>2. /\ posts' \in Requests(Phones, {Inserted} \cup Spam)
        /\ DOMAIN posts = 1..Len(posts) /\ Len(posts') = Len(posts)
        /\ \A k \in DOMAIN posts : k # i => posts'[k] = posts[k]
        /\ posts'[i].ask = posts[i].ask
    BY <1>1, AnsweredRequests, RequestsAre
  <1>3. /\ DOMAIN posts' = DOMAIN posts
        /\ \A k \in DOMAIN posts : posts'[k].ask = posts[k].ask
    BY <1>2, RequestsAre
  <1>4. posts # <<>>
    BY EmptySeq
  <1>5. QED
    BY <1>3, <1>4
       DEF resultVars, ScreenInv, ReportsConcernShown, BannerOfShown, ReportsOfShown,
           LastLookupAsks, SettledLookupAnswers

LEMMA ScreenReportReturns ==
    ASSUME HonestInv, ScreenInv, NEW i \in DOMAIN posts, ReportReturns(i)
    PROVE  ReportsOfShown'
  <1>1. posts' = Taken(posts, i) /\ UNCHANGED <<lookups, shown, apart>>
    BY DEF ReportReturns
  <1> DEFINE B == {Inserted} \cup Spam
  <1> HIDE DEF B
  <1>2. posts \in Requests(Phones, B)
    BY DEF HonestInv, LookupTyped, LookupTypeOK, B
  <1>3. \A k \in DOMAIN Taken(posts, i) : \E m \in DOMAIN posts :
            Taken(posts, i)[k].ask = posts[m].ask
    BY <1>2, TakenRequests
  <1>4. posts # <<>>
    BY EmptySeq
  <1>5. QED
    BY <1>1, <1>3, <1>4 DEF ScreenInv, ReportsOfShown

LEMMA ScreenDeliverReport ==
    ASSUME HonestInv, ScreenInv, NEW i \in DOMAIN posts, DeliverReport(i)
    PROVE  ScreenInv'
  <1>1. ReportsOfShown'
    BY ScreenReportReturns DEF DeliverReport
  <1>2. /\ posts[i].answer \in Spam
        /\ banner' = SpamBanner(posts[i].ask, posts[i].answer) /\ form' = None
        /\ UNCHANGED <<query, lookups, lookupLast, status, shown, current, calm, apart>>
    BY DEF DeliverReport, ReportReturns
  <1>3. posts[i].ask \in Phones
    BY RequestsAre DEF HonestInv, LookupTyped, LookupTypeOK
  <1>4. banner' # None => banner'.phone = posts[i].ask
    BY <1>2, <1>3, BannerTyped
  <1>5. BannerOfShown'
    BY <1>2, <1>4 DEF ScreenInv, ReportsOfShown, BannerOfShown
  <1>6. QED
    BY <1>1, <1>2, <1>5
       DEF ScreenInv, ReportsConcernShown, LastLookupAsks, SettledLookupAnswers

LEMMA ScreenLoseReport ==
    ASSUME HonestInv, ScreenInv, NEW i \in DOMAIN posts, LoseReport(i)
    PROVE  ScreenInv'
  <1>1. ReportsOfShown'
    BY ScreenReportReturns DEF LoseReport
  <1>2. UNCHANGED <<query, lookups, lookupLast, status, shown, current, form, banner,
                    calm, apart>>
    BY DEF LoseReport, ReportReturns
  <1>3. QED
    BY <1>1, <1>2
       DEF ScreenInv, ReportsConcernShown, BannerOfShown, LastLookupAsks,
           SettledLookupAnswers

LEMMA ScreenStep ==
    ASSUME HonestInv, ScreenInv, LookupStep  PROVE ScreenInv'
  <1>1. ASSUME NEW i \in DOMAIN posts, InsertReport(i)  PROVE ScreenInv'
    <2>1. /\ posts' = Answered(posts, i, Inserted)
          /\ UNCHANGED <<query, lookups, lookupLast, status, resultVars, calm, apart>>
      BY <1>1 DEF InsertReport
    <2>2. QED
      BY <2>1, ScreenPostAnswered
  <1>2. ASSUME NEW i \in DOMAIN posts, SummariseReport(i)  PROVE ScreenInv'
    <2>1. /\ posts' = Answered(posts, i, SpamSummary(posts[i].ask))
          /\ UNCHANGED <<query, lookups, lookupLast, status, resultVars, calm, apart>>
      BY <1>2 DEF SummariseReport
    <2>2. posts[i].ask \in Phones
      BY RequestsAre DEF HonestInv, LookupTyped, LookupTypeOK
    <2>3. SpamSummary(posts[i].ask) \in Spam
      BY <2>2, SummaryFacts DEF HonestInv, LookupTyped, LookupTypeOK, ServerTypeOK
    <2>4. QED
      BY <2>1, <2>3, ScreenPostAnswered
  <1>3. CASE OtherReports \/ Aggregate
    <2>1. UNCHANGED <<query, lookups, lookupLast, status, resultVars, posts, calm, apart>>
      BY <1>3 DEF OtherReports, Aggregate
    <2>2. QED
      BY <2>1, ScreenKept
  <1>4. QED
    BY <1>1, <1>2, <1>3, ScreenSubmitLookup, ScreenReads, ScreenDeliverLookup,
       ScreenLoseLookup, ScreenToggleForm, ScreenSubmitReport, ScreenDeliverReport,
       ScreenLoseReport
       DEF LookupStep, LookupAnswers

-----------------------------------------------------------------------------
(* The operations tab.                                                     *)

\* The last request of a chart, unless it was overtaken, asks for the range
\* whose button is marked.
ChartsAskRange ==
    \A c \in Charts : LET q == chartLoads[c] IN
        q # <<>> /\ ~q[Len(q)].late => q[Len(q)].ask = range[c]

OpsInv == OpsTypeOK /\ OneTimer /\ ChartsAskRange /\ ChartFollowsRange

Dashboards == [pipeline : JobCounts] \cup [queue : QueueStates]
              \cup [pipeline : JobCounts, queue : QueueStates]

LEMMA OpsInitInv == OpsInit => OpsInv
  <1> SUFFICES ASSUME OpsInit  PROVE OpsInv
    OBVIOUS
  <1>1. \A A, B : <<>> \in Requests(A, B)
    BY EmptySeq DEF Requests
  <1>2. OpsTypeOK
    BY <1>1, OpsConstantsOK DEF OpsInit, OpsTypeOK, Ranges
  <1>3. QED
    BY <1>2 DEF OpsInit, OpsInv, OneTimer, ChartsAskRange, ChartFollowsRange

LEMMA OpsKept == ASSUME OpsInv, UNCHANGED opsVars  PROVE OpsInv'
  BY DEF opsVars, panelVars, OpsInv, OpsTypeOK, OneTimer, ChartsAskRange, ChartFollowsRange

\* What the API computes from the table of jobs.
LEMMA JobsRead ==
    ASSUME jobs \in [Jobs -> JobStates]
    PROVE  /\ JobsSummary \in JobCounts /\ QueueHealth \in QueueStates
           /\ \A l : JobList(l) \in JobLists
  <1>1. \A s : Having(s) \subseteq Jobs /\ Cardinality(Having(s)) \in Nat
    <2> TAKE s
    <2>1. Having(s) \in SUBSET Jobs
      BY DEF Having
    <2>2. QED
      BY <2>1, OpsConstantsOK, FS_Subset, FS_CardinalityType
  <1>2. JobsSummary \in JobCounts
    BY <1>1 DEF JobsSummary, JobCounts
  <1>3. QueueHealth \in QueueStates
    <2> DEFINE pending == Having("PENDING")
               oldest == IF pending = {} THEN 0 ELSE Max({waited[j] : j \in pending})
               health == EvaluateQueueHealth(Cardinality(pending), oldest, Thresholds)
    <2>1. health \in {"HEALTHY", "WARNING", "CRITICAL"}
      <3> HIDE DEF oldest, pending
      <3>1. QED
        BY DEF EvaluateQueueHealth
    <2>2. QueueHealth = [pending |-> Cardinality(pending),
                         running |-> Cardinality(Having("RUNNING")), status |-> health]
      BY DEF QueueHealth
    <2> HIDE DEF health
    <2>3. QED
      BY <1>1, <2>1, <2>2 DEF QueueStates
  <1>4. ASSUME NEW l  PROVE JobList(l) \in JobLists
    <2> DEFINE S == IF l = "running" THEN Having("RUNNING") ELSE Jobs \ Having("none")
    <2>1. S \in SUBSET Jobs /\ \A j \in S : jobs[j] \in Statuses
      BY <1>1 DEF Having, JobStates, Statuses
    <2>2. JobList(l) = [j \in S |-> jobs[j]]
      BY DEF JobList
    <2> HIDE DEF S
    <2>3. JobList(l) \in [S -> Statuses]
      BY <2>1, <2>2
    <2>4. QED
      BY <2>1, <2>3 DEF JobLists
  <1>5. QED
    BY <1>2, <1>3, <1>4

\* A request is sent for a chart: it asks for the range that is marked then.
LEMMA ChartAsked ==
    ASSUME NEW q \in Requests(Ranges, {}), NEW r \in Ranges
    PROVE  LET t == Sent(q, r) IN
           t \in Requests(Ranges, {}) /\ t # <<>> /\ t[Len(t)].ask = r
  <1>1. /\ Sent(q, r) \in Requests(Ranges, {}) /\ Len(Sent(q, r)) = Len(q) + 1
        /\ Sent(q, r)[Len(q) + 1] = [ask |-> r, answer |-> NoAnswer, late |-> FALSE]
    BY SentRequests
  <1>2. Sent(q, r)[Len(q) + 1].ask = r /\ Len(q) \in Nat
    BY <1>1, RequestsAre
  <1>3. Sent(q, r) # <<>>
    BY <1>1, <1>2, RequestsAre
  <1>4. QED
    BY <1>1, <1>2, <1>3

LEMMA OpsLoadDashboard ==
    ASSUME OpsInv, LoadDashboard
    PROVE  dashboards' \in Requests({Nothing}, Dashboards)
  <1>1. dashboards' = Sent(dashboards, Nothing)
    BY DEF LoadDashboard
  <1>2. dashboards \in Requests({Nothing}, Dashboards)
    BY DEF OpsInv, OpsTypeOK, Dashboards
  <1>3. QED
    BY <1>1, <1>2, SentRequests

\* Opening the tab, its refresh button and its timer.
LEMMA OpsRefreshes ==
    ASSUME OpsInv, ShowOps \/ PressRefresh \/ Tick  PROVE OpsInv'
  <1>1. /\ dashboards' \in Requests({Nothing}, Dashboards)
        /\ UNCHANGED <<jobs, waited, range, chartLoads, listLoads, panelVars>>
    BY OpsLoadDashboard DEF ShowOps, PressRefresh, Tick
  <1>2. timers' \in Nat /\ timers' <= 1
    <2>1. CASE timers' = timers
      BY <2>1 DEF OpsInv, OpsTypeOK, OneTimer
    <2>2. CASE StartAutoRefresh
      BY <2>2 DEF OpsInv, OpsTypeOK, OneTimer, StartAutoRefresh
    <2>3. QED
      BY <2>1, <2>2 DEF ShowOps, PressRefresh, Tick
  <1>3. OpsTypeOK'
    BY <1>1, <1>2 DEF OpsInv, OpsTypeOK, panelVars, Dashboards
  <1>4. QED
    BY <1>1, <1>2, <1>3
       DEF OpsInv, OneTimer, ChartsAskRange, ChartFollowsRange, panelVars

LEMMA OpsReadSummary ==
    ASSUME OpsInv, NEW i \in DOMAIN dashboards, ReadSummary(i)
    PROVE  OpsInv'
  <1>1. /\ dashboards \in Requests({Nothing}, Dashboards)
        /\ JobsSummary \in JobCounts /\ QueueHealth \in QueueStates
    BY JobsRead DEF OpsInv, OpsTypeOK, Dashboards
  <1>2. PICK a \in Dashboards : dashboards' = Answered(dashboards, i, a)
    <2> DEFINE answer == dashboards[i].answer
    <2>1. CASE \/ dashboards' = Answered(dashboards, i, [pipeline |-> JobsSummary])
               \/ dashboards' = Answered(dashboards, i, [queue |-> QueueHealth])
      <3>1. /\ [pipeline |-> JobsSummary] \in Dashboards
            /\ [queue |-> QueueHealth] \in Dashboards
        BY <1>1 DEF Dashboards
      <3>2. QED
        BY <2>1, <3>1
    <2>2. CASE /\ answer \in [pipeline : JobCounts]
               /\ dashboards' = Answered(dashboards, i, [pipeline |-> answer.pipeline,
                                                         queue |-> QueueHealth])
      <3>1. [pipeline |-> answer.pipeline, queue |-> QueueHealth] \in Dashboards
        BY <1>1, <2>2 DEF Dashboards
      <3>2. QED
        BY <2>2, <3>1
    <2>3. CASE /\ answer \in [queue : QueueStates]
               /\ dashboards' = Answered(dashboards, i, [pipeline |-> JobsSummary,
                                                         queue |-> answer.queue])
      <3>1. [pipeline |-> JobsSummary, queue |-> answer.queue] \in Dashboards
        BY <1>1, <2>3 DEF Dashboards
      <3>2. QED
        BY <2>3, <3>1
    <2>4. QED
      BY <2>1, <2>2, <2>3 DEF ReadSummary
  <1>3. dashboards' \in Requests({Nothing}, Dashboards)
    BY <1>1, <1>2, AnsweredRequests
  <1>4. UNCHANGED <<jobs, waited, timers, range, chartLoads, listLoads, panelVars>>
    BY DEF ReadSummary
  <1>5. OpsTypeOK'
    BY <1>3, <1>4 DEF OpsInv, OpsTypeOK, panelVars, Dashboards
  <1>6. QED
    BY <1>4, <1>5 DEF OpsInv, OneTimer, ChartsAskRange, ChartFollowsRange, panelVars

\* The summary is there or failed: the charts and the lists are asked for.
LEMMA OpsLoadsRest ==
    ASSUME OpsInv, NEW i \in DOMAIN dashboards, dashboards' = Taken(dashboards, i), LoadRest,
           UNCHANGED <<jobs, waited, timers, range, chart, chartLast, list>>,
           summary' \in {Nothing} \cup [pipeline : JobCounts, queue : QueueStates],
           opsStatus' \in {"none", "error"}
    PROVE  OpsInv'
  <1>1. dashboards' \in Requests({Nothing}, Dashboards)
    <2>1. dashboards \in Requests({Nothing}, Dashboards)
      BY DEF OpsInv, OpsTypeOK, Dashboards
    <2>2. Taken(dashboards, i) \in Requests({Nothing}, Dashboards)
      BY <2>1, TakenRequests
    <2>3. QED
      BY <2>2
  <1>2. /\ chartLoads' = [c \in Charts |-> Sent(chartLoads[c], range[c])]
        /\ listLoads' = [l \in Lists |-> Sent(listLoads[l], Nothing)]
    BY DEF LoadRest
  <1>3. ASSUME NEW c \in Charts
        PROVE  LET t == chartLoads'[c] IN
               t \in Requests(Ranges, {}) /\ t # <<>> /\ t[Len(t)].ask = range[c]
    <2>1. chartLoads[c] \in Requests(Ranges, {}) /\ range[c] \in Ranges
      BY DEF OpsInv, OpsTypeOK
    <2>2. chartLoads'[c] = Sent(chartLoads[c], range[c])
      BY <1>2
    <2>3. QED
      BY <2>1, <2>2, ChartAsked
  <1>4. ASSUME NEW l \in Lists
        PROVE  listLoads'[l] \in Requests({Nothing}, JobLists)
    <2>1. listLoads[l] \in Requests({Nothing}, JobLists)
      BY DEF OpsInv, OpsTypeOK
    <2>2. listLoads'[l] = Sent(listLoads[l], Nothing)
      BY <1>2
    <2>3. Sent(listLoads[l], Nothing) \in Requests({Nothing}, JobLists)
      BY <2>1, SentRequests
    <2>4. QED
      BY <2>2, <2>3
  <1>5. /\ chartLoads' \in [Charts -> Requests(Ranges, {})]
        /\ listLoads' \in [Lists -> Requests({Nothing}, JobLists)]
    BY <1>2, <1>3, <1>4
  <1>6. OpsTypeOK'
    BY <1>1, <1>5 DEF OpsInv, OpsTypeOK, Dashboards
  <1>7. QED
    BY <1>3, <1>6 DEF OpsInv, OneTimer, ChartsAskRange, ChartFollowsRange

LEMMA OpsPickRange ==
    ASSUME OpsInv, NEW c \in Charts, NEW r \in Ranges, PickRange(c, r)
    PROVE  OpsInv'
  <1>1. /\ range' = [range EXCEPT ![c] = r]
        /\ chartLoads' = [chartLoads EXCEPT ![c] = Sent(@, r)]
        /\ UNCHANGED <<jobs, waited, timers, dashboards, listLoads, panelVars>>
    BY DEF PickRange
  <1>2. chartLoads \in [Charts -> Requests(Ranges, {})] /\ range \in [Charts -> Ranges]
    BY DEF OpsInv, OpsTypeOK
  <1> DEFINE t == Sent(chartLoads[c], r)
  <1>3. t \in Requests(Ranges, {}) /\ t # <<>> /\ t[Len(t)].ask = r
    BY <1>2, ChartAsked
  <1>4. chartLoads' = [chartLoads EXCEPT ![c] = t]
    BY <1>1
  <1> HIDE DEF t
  <1>5. /\ chartLoads' \in [Charts -> Requests(Ranges, {})] /\ range' \in [Charts -> Ranges]
        /\ chartLoads'[c] = t /\ range'[c] = r
        /\ \A d \in Charts : d # c => chartLoads'[d] = chartLoads[d] /\ range'[d] = range[d]
    BY <1>1, <1>2, <1>3, <1>4
  <1>6. OpsTypeOK'
    BY <1>1, <1>5 DEF OpsInv, OpsTypeOK, panelVars
  <1>7. ChartsAskRange'
    BY <1>3, <1>5 DEF OpsInv, ChartsAskRange
  <1>8. ChartFollowsRange'
    <2> SUFFICES ASSUME NEW d \in Charts, chartLoads'[d] = <<>>, chartLast[d],
                        chart[d] \notin {Nothing, Failed}
                 PROVE  chart[d] = range'[d]
      BY <1>1 DEF ChartFollowsRange, panelVars
    <2>1. d # c
      BY <1>3, <1>5
    <2>2. QED
      BY <1>5, <2>1 DEF OpsInv, ChartFollowsRange
  <1>9. QED
    BY <1>1, <1>6, <1>7, <1>8 DEF OpsInv, OneTimer

\* A chart is drawn for the window asked for, or shows that it failed.
LEMMA OpsDrawChart ==
    ASSUME OpsInv, NEW c \in Charts, NEW i \in DOMAIN chartLoads[c],
           NEW what, what \in {chartLoads[c][i].ask, Failed}, DrawChart(c, i, what)
    PROVE  OpsInv'
  <1> DEFINE q == chartLoads[c]
             t == Taken(q, i)
  <1>1. /\ chartLoads' = [chartLoads EXCEPT ![c] = t]
        /\ chart' = [chart EXCEPT ![c] = what]
        /\ chartLast' = [chartLast EXCEPT ![c] = IsLast(q, i)]
        /\ UNCHANGED <<jobs, waited, timers, dashboards, range, listLoads, summary,
                       opsStatus, list>>
    BY DEF DrawChart
  <1>2. /\ q \in Requests(Ranges, {}) /\ chartLoads \in [Charts -> Requests(Ranges, {})]
        /\ chart \in [Charts -> Ranges \cup {Nothing, Failed}]
        /\ chartLast \in [Charts -> BOOLEAN]
    BY DEF OpsInv, OpsTypeOK
  <1>3. /\ t \in Requests(Ranges, {}) /\ Len(t) = Len(q) - 1
        /\ Len(q) # 1 /\ ~t[Len(q) - 1].late =>
                ~q[Len(q)].late /\ t[Len(q) - 1].ask = q[Len(q)].ask
    BY <1>2, TakenRequests
  <1>4. /\ Len(q) \in Nat /\ i \in 1..Len(q) /\ q # <<>> /\ q[i].ask \in Ranges
        /\ t = <<>> <=> Len(t) = 0
    <2>1. q[i] \in [ask : Ranges, answer : {} \cup {NoAnswer}, late : BOOLEAN]
      BY <1>2, RequestsAre
    <2>2. q[i].ask \in Ranges
      BY <2>1
    <2>3. /\ Len(q) \in Nat /\ i \in 1..Len(q)
          /\ q = <<>> <=> Len(q) = 0
      BY <1>2, RequestsAre
    <2>4. t = <<>> <=> Len(t) = 0
      BY <1>3, RequestsAre
    <2>5. QED
      BY <2>2, <2>3, <2>4
  <1>5. ~q[Len(q)].late => q[Len(q)].ask = range[c]
    BY <1>4 DEF OpsInv, ChartsAskRange
  <1>6. t # <<>> /\ ~t[Len(t)].late => t[Len(t)].ask = range[c]
    BY <1>3, <1>4, <1>5
  <1>7. t = <<>> /\ IsLast(q, i) => q[i].ask = range[c]
    BY <1>4, <1>5 DEF IsLast
  <1>8. IsLast(q, i) \in BOOLEAN
    BY DEF IsLast
  <1> HIDE DEF t
  <1>9. /\ chartLoads' \in [Charts -> Requests(Ranges, {})]
        /\ chart' \in [Charts -> Ranges \cup {Nothing, Failed}]
        /\ chartLast' \in [Charts -> BOOLEAN]
        /\ chartLoads'[c] = t /\ chart'[c] = what /\ chartLast'[c] = IsLast(q, i)
        /\ \A d \in Charts : d # c =>
                /\ chartLoads'[d] = chartLoads[d] /\ chart'[d] = chart[d]
                /\ chartLast'[d] = chartLast[d]
    <2>1. what \in Ranges \cup {Nothing, Failed}
      BY <1>4
    <2> HIDE DEF q
    <2>2. QED
      BY <1>1, <1>2, <1>3, <1>8, <2>1
  <1>10. OpsTypeOK'
    BY <1>1, <1>9 DEF OpsInv, OpsTypeOK
  <1>11. ChartsAskRange'
    BY <1>1, <1>6, <1>9 DEF OpsInv, ChartsAskRange
  <1>12. ChartFollowsRange'
    <2> SUFFICES ASSUME NEW d \in Charts, chartLoads'[d] = <<>>, chartLast'[d],
                        chart'[d] \notin {Nothing, Failed}
                 PROVE  chart'[d] = range[d]
      BY <1>1 DEF ChartFollowsRange
    <2>1. CASE d = c
      BY <1>7, <1>9, <2>1
    <2>2. CASE d # c
      BY <1>9, <2>2 DEF OpsInv, ChartFollowsRange
    <2>3. QED
      BY <2>1, <2>2
  <1>13. QED
    BY <1>1, <1>10, <1>11, <1>12 DEF OpsInv, OneTimer

LEMMA OpsReadList ==
    ASSUME OpsInv, NEW l \in Lists, NEW i \in DOMAIN listLoads[l], ReadList(l, i)
    PROVE  OpsInv'
  <1> DEFINE t == Answered(listLoads[l], i, JobList(l))
  <1>1. /\ listLoads' = [listLoads EXCEPT ![l] = t]
        /\ UNCHANGED <<jobs, waited, timers, dashboards, range, chartLoads, panelVars>>
    BY DEF ReadList
  <1>2. t \in Requests({Nothing}, JobLists)
    <2>1. listLoads[l] \in Requests({Nothing}, JobLists) /\ JobList(l) \in JobLists
      BY JobsRead DEF OpsInv, OpsTypeOK
    <2>2. QED
      BY <2>1, AnsweredRequests
  <1> HIDE DEF t
  <1>3. listLoads' \in [Lists -> Requests({Nothing}, JobLists)]
    BY <1>1, <1>2 DEF OpsInv, OpsTypeOK
  <1>4. OpsTypeOK'
    BY <1>1, <1>3 DEF OpsInv, OpsTypeOK, panelVars
  <1>5. QED
    BY <1>1, <1>4 DEF OpsInv, OneTimer, ChartsAskRange, ChartFollowsRange, panelVars

LEMMA OpsDrawList ==
    ASSUME OpsInv, NEW l \in Lists, NEW i \in DOMAIN listLoads[l],
           NEW what \in JobLists \cup {Failed}, DrawList(l, i, what)
    PROVE  OpsInv'
  <1> DEFINE t == Taken(listLoads[l], i)
  <1>1. /\ listLoads' = [listLoads EXCEPT ![l] = t]
        /\ list' = [list EXCEPT ![l] = what]
        /\ UNCHANGED <<jobs, waited, timers, dashboards, range, chartLoads,
                       summary, opsStatus, chart, chartLast>>
    BY DEF DrawList
  <1>2. t \in Requests({Nothing}, JobLists)
    <2>1. listLoads[l] \in Requests({Nothing}, JobLists)
      BY DEF OpsInv, OpsTypeOK
    <2>2. QED
      BY <2>1, TakenRequests
  <1> HIDE DEF t
  <1>3. /\ listLoads' \in [Lists -> Requests({Nothing}, JobLists)]
        /\ list' \in [Lists -> JobLists \cup {Nothing, Failed}]
    BY <1>1, <1>2 DEF OpsInv, OpsTypeOK
  <1>4. OpsTypeOK'
    BY <1>1, <1>3 DEF OpsInv, OpsTypeOK
  <1>5. QED
    BY <1>1, <1>4 DEF OpsInv, OneTimer, ChartsAskRange, ChartFollowsRange

LEMMA OpsJobsMove == ASSUME OpsInv, JobsMove  PROVE OpsInv'
  <1>1. /\ jobs' \in [Jobs -> JobStates] /\ waited' \in [Jobs -> Nat]
        /\ UNCHANGED <<timers, dashboards, range, chartLoads, listLoads, panelVars>>
    <2>1. jobs \in [Jobs -> JobStates] /\ waited \in [Jobs -> Nat]
      BY DEF OpsInv, OpsTypeOK
    <2>2. \A was \in JobStates : JobMoves(was) \subseteq JobStates
      BY DEF JobMoves, JobStates, Statuses
    <2>3. QED
      BY <2>1, <2>2 DEF JobsMove
  <1>2. OpsTypeOK'
    BY <1>1 DEF OpsInv, OpsTypeOK, panelVars
  <1>3. QED
    BY <1>1, <1>2 DEF OpsInv, OneTimer, ChartsAskRange, ChartFollowsRange, panelVars

LEMMA OpsStepInv == ASSUME OpsInv, OpsStep  PROVE OpsInv'
  <1>1. ASSUME NEW i \in DOMAIN dashboards,
               DeliverSummaryPanels(i) \/ LoseSummaryPanels(i)
        PROVE  OpsInv'
    <2>1. /\ dashboards' = Taken(dashboards, i) /\ LoadRest
          /\ UNCHANGED <<jobs, waited, timers, range, chart, chartLast, list>>
          /\ summary' \in {Nothing} \cup [pipeline : JobCounts, queue : QueueStates]
          /\ opsStatus' \in {"none", "error"}
      BY <1>1 DEF DeliverSummaryPanels, LoseSummaryPanels, OpsInv, OpsTypeOK
    <2>2. QED
      BY <2>1, OpsLoadsRest
  <1>2. ASSUME NEW c \in Charts, NEW i \in DOMAIN chartLoads[c],
               DeliverChart(c, i) \/ LoseChart(c, i)
        PROVE  OpsInv'
    BY <1>2, OpsDrawChart DEF DeliverChart, LoseChart
  <1>3. ASSUME NEW l \in Lists, NEW i \in DOMAIN listLoads[l],
               DeliverList(l, i) \/ LoseList(l, i)
        PROVE  OpsInv'
    <2>1. CASE LoseList(l, i)
      BY <2>1, OpsDrawList DEF LoseList
    <2>2. CASE DeliverList(l, i)
      <3>1. listLoads[l][i] \in [ask : {Nothing}, answer : JobLists \cup {NoAnswer},
                                 late : BOOLEAN]
        BY RequestsAre DEF OpsInv, OpsTypeOK
      <3>2. listLoads[l][i].answer \in JobLists
        BY <2>2, <3>1 DEF DeliverList
      <3>3. QED
        BY <2>2, <3>2, OpsDrawList DEF DeliverList
    <2>3. QED
      BY <1>3, <2>1, <2>2
  <1>4. QED
    BY <1>1, <1>2, <1>3, OpsRefreshes, OpsPickRange, OpsReadSummary, OpsReadList, OpsJobsMove
       DEF OpsStep, SummaryAnswers, ChartAnswers, ListAnswers

-----------------------------------------------------------------------------
(* The call-log tab: what becomes of the calls typed.                      *)

Import == [ask : SUBSET Readable, left : SUBSET Readable, heard : BOOLEAN]

ImportsTyped ==
    /\ rows \in [Lines -> Nat] /\ text \subseteq typed
    /\ imports \in Seq(Import)
    /\ importStatus \in {"hidden", "loading", "saved", "error"}
    /\ typed \subseteq Lines /\ hasty \subseteq typed /\ confirmed \subseteq typed
    /\ sends \in [Lines -> Nat]

\* An import has stored the entries it has no longer to do, and one that may
\* still clear the text has, or has stored, all the text is not to lose.
EntriesKept ==
    \A i \in DOMAIN imports :
        /\ imports[i].left \subseteq imports[i].ask /\ imports[i].ask \subseteq typed
        /\ \A l \in imports[i].ask \ imports[i].left : rows[l] > 0
        /\ imports[i].heard => \A l \in (typed \cap Readable) \ hasty :
                l \in imports[i].ask \/ rows[l] > 0

\* What the page said was saved is saved, and no longer in the text.
ConfirmedStored == confirmed \cap text = {} /\ \A l \in confirmed : rows[l] > 0

\* The imports that have still to insert a line.
Owing(l) == {i \in DOMAIN imports : l \in imports[i].left}

RowsOwed == \A l \in Lines : rows[l] + Cardinality(Owing(l)) <= sends[l]

ImportsInv == ImportsTyped /\ EntriesKept /\ ConfirmedStored /\ TypedCallsKept /\ RowsOwed

LEMMA ImportsAre ==
    ASSUME ImportsTyped
    PROVE  /\ Len(imports) \in Nat /\ DOMAIN imports = 1..Len(imports)
           /\ \A i \in DOMAIN imports : imports[i] \in Import
           /\ \A l : IsFiniteSet(Owing(l)) /\ Cardinality(Owing(l)) \in Nat
  <1>1. /\ Len(imports) \in Nat /\ DOMAIN imports = 1..Len(imports)
        /\ \A i \in DOMAIN imports : imports[i] \in Import
    BY LenProperties, ElementOfSeq DEF ImportsTyped
  <1>2. IsFiniteSet(DOMAIN imports)
    BY <1>1, FS_Interval
  <1>3. ASSUME NEW l  PROVE IsFiniteSet(Owing(l)) /\ Cardinality(Owing(l)) \in Nat
    <2>1. Owing(l) \in SUBSET DOMAIN imports
      BY DEF Owing
    <2>2. QED
      BY <1>2, <2>1, FS_Subset, FS_CardinalityType
  <1>4. QED
    BY <1>1, <1>3

LEMMA ImportsInit == CallLogInit => ImportsInv
  <1> SUFFICES ASSUME CallLogInit  PROVE ImportsInv
    OBVIOUS
  <1>1. ImportsTyped
    BY EmptySeq DEF CallLogInit, ImportsTyped
  <1>2. \A l : Owing(l) = {}
    BY DEF CallLogInit, Owing
  <1>3. RowsOwed
    BY <1>2, FS_EmptySet DEF CallLogInit, RowsOwed
  <1>4. QED
    BY <1>1, <1>3 DEF CallLogInit, ImportsInv, EntriesKept, ConfirmedStored, TypedCallsKept

LEMMA ImportsKept == ASSUME ImportsInv, UNCHANGED importVars  PROVE ImportsInv'
  BY DEF importVars, ImportsInv, ImportsTyped, EntriesKept, ConfirmedStored,
         TypedCallsKept, RowsOwed, Owing

LEMMA ImportsTypeLine == ASSUME ImportsInv, TypeLine  PROVE ImportsInv'
  <1>1. PICK l \in Lines \ typed :
            /\ text' = text \cup {l} /\ typed' = typed \cup {l}
            /\ hasty' = IF \E i \in DOMAIN imports : imports[i].heard
                        THEN hasty \cup {l} ELSE hasty
    BY DEF TypeLine
  <1>2. UNCHANGED <<rows, imports, importStatus, sends, confirmed>>
    BY DEF TypeLine
  <1>3. ImportsTyped'
    BY <1>1, <1>2 DEF ImportsInv, ImportsTyped
  <1>4. /\ hasty \subseteq hasty' /\ (l \in hasty' \/ \A i \in DOMAIN imports : ~imports[i].heard)
    BY <1>1
  <1>5. EntriesKept'
    BY <1>1, <1>2, <1>4 DEF ImportsInv, EntriesKept
  <1>6. ConfirmedStored'
    BY <1>1, <1>2 DEF ImportsInv, ImportsTyped, ConfirmedStored
  <1>7. TypedCallsKept'
    BY <1>1, <1>2, <1>4 DEF ImportsInv, TypedCallsKept
  <1>8. RowsOwed'
    BY <1>2 DEF ImportsInv, RowsOwed, Owing
  <1>9. QED
    BY <1>3, <1>5, <1>6, <1>7, <1>8 DEF ImportsInv

LEMMA ImportsSubmit == ASSUME ImportsInv, SubmitImport  PROVE ImportsInv'
  <1> DEFINE entries == text \cap Readable
             new == [ask |-> entries, left |-> entries, heard |-> TRUE]
  <1>1. UNCHANGED <<rows, text, typed, hasty, confirmed>>
    BY DEF SubmitImport
  <1>2. CASE importStatus' = "error" /\ UNCHANGED <<imports, sends>>
    BY <1>1, <1>2 DEF ImportsInv, ImportsTyped, EntriesKept, ConfirmedStored,
                      TypedCallsKept, RowsOwed, Owing
  <1>3. CASE /\ importStatus' = "loading" /\ imports' = Append(imports, new)
             /\ sends' = [l \in Lines |-> IF l \in entries \ confirmed
                                          THEN sends[l] + 1 ELSE sends[l]]
    <2>1. new \in Import /\ entries \subseteq text /\ entries \subseteq Readable
      BY DEF Import
    <2>2. new.ask = entries /\ new.left = entries /\ new.heard
      OBVIOUS
    <2> HIDE DEF new
    <2>3. /\ imports' \in Seq(Import) /\ Len(imports') = Len(imports) + 1
          /\ \A i \in 1..Len(imports) : imports'[i] = imports[i]
          /\ imports'[Len(imports) + 1] = new
      BY <1>3, <2>1, AppendProperties DEF ImportsInv, ImportsTyped
    <2>4. /\ Len(imports) \in Nat /\ DOMAIN imports = 1..Len(imports)
          /\ DOMAIN imports' = 1..(Len(imports) + 1)
      BY <2>3, ImportsAre, LenProperties DEF ImportsInv
    <2>5. sends' \in [Lines -> Nat]
      BY <1>3 DEF ImportsInv, ImportsTyped
    <2>6. ImportsTyped'
      BY <1>1, <1>3, <2>3, <2>5 DEF ImportsInv, ImportsTyped
    <2>7. EntriesKept'
      <3> SUFFICES ASSUME NEW i \in DOMAIN imports'
                   PROVE  /\ imports'[i].left \subseteq imports'[i].ask
                          /\ imports'[i].ask \subseteq typed
                          /\ \A l \in imports'[i].ask \ imports'[i].left : rows[l] > 0
                          /\ imports'[i].heard => \A l \in (typed \cap Readable) \ hasty :
                                l \in imports'[i].ask \/ rows[l] > 0
        BY <1>1 DEF EntriesKept
      <3>1. CASE i \in DOMAIN imports
        <4>1. imports'[i] = imports[i]
          BY <2>3, <2>4, <3>1
        <4>2. QED
          BY <3>1, <4>1 DEF ImportsInv, EntriesKept
      <3>2. CASE i = Len(imports) + 1
        <4>1. imports'[i].ask = entries /\ imports'[i].left = entries
          BY <2>2, <2>3, <3>2
        <4>2. QED
          BY <2>1, <4>1 DEF ImportsInv, ImportsTyped, TypedCallsKept
      <3>3. QED
        BY <2>4, <3>1, <3>2
    <2>8. RowsOwed'
      <3> SUFFICES ASSUME NEW l \in Lines
                   PROVE  rows[l] + Cardinality(Owing(l)') <= sends'[l]
        BY <1>1 DEF RowsOwed
      <3>1. /\ IsFiniteSet(Owing(l)) /\ Cardinality(Owing(l)) \in Nat
            /\ rows[l] \in Nat /\ sends[l] \in Nat
            /\ rows[l] + Cardinality(Owing(l)) <= sends[l]
        BY ImportsAre DEF ImportsInv, ImportsTyped, RowsOwed
      <3>2. \A i \in DOMAIN imports : imports'[i].left = imports[i].left
        BY <2>3, <2>4
      <3>3. CASE l \in entries
        <4>1. Owing(l)' = Owing(l) \cup {Len(imports) + 1}
          BY <2>2, <2>3, <2>4, <3>2, <3>3 DEF Owing
        <4>2. \/ Cardinality(Owing(l)') = Cardinality(Owing(l))
              \/ Cardinality(Owing(l)') = Cardinality(Owing(l)) + 1
          BY <3>1, <4>1, FS_AddElement, Zenon
        <4>3. sends'[l] = sends[l] + 1
          BY <1>3, <3>3, <2>1 DEF ImportsInv, ConfirmedStored
        <4>4. QED
          BY <3>1, <4>2, <4>3
      <3>4. CASE l \notin entries
        <4>1. Owing(l)' = Owing(l)
          BY <2>2, <2>3, <2>4, <3>2, <3>4 DEF Owing
        <4>2. sends'[l] = sends[l]
          BY <1>3, <3>4
        <4>3. QED
          BY <3>1, <4>1, <4>2
      <3>5. QED
        BY <3>3, <3>4
    <2>9. QED
      BY <1>1, <2>6, <2>7, <2>8 DEF ImportsInv, ConfirmedStored, TypedCallsKept
  <1>4. QED
    BY <1>2, <1>3 DEF SubmitImport

LEMMA ImportsInsertEntry ==
    ASSUME ImportsInv, NEW i \in DOMAIN imports, InsertEntry(i)
    PROVE  ImportsInv'
  <1>1. PICK l \in imports[i].left :
            /\ rows' = [rows EXCEPT ![l] = @ + 1]
            /\ imports' = [imports EXCEPT ![i].left = @ \ {l}]
    BY DEF InsertEntry
  <1>2. UNCHANGED <<text, importStatus, typed, hasty, sends, confirmed>>
    BY DEF InsertEntry
  <1> DEFINE new == [imports[i] EXCEPT !.left = @ \ {l}]
  <1>3. imports[i] \in Import /\ imports[i].left \subseteq Lines /\ l \in Lines
    <2>1. imports[i] \in Import
      BY ImportsAre DEF ImportsInv
    <2>2. QED
      BY <2>1, CallLogConstantsOK DEF Import
  <1>4. /\ new = [ask |-> imports[i].ask, left |-> imports[i].left \ {l},
                  heard |-> imports[i].heard]
        /\ new \in Import
    BY <1>3 DEF Import
  <1>5. new.ask = imports[i].ask /\ new.left = imports[i].left \ {l}
            /\ new.heard = imports[i].heard
    BY <1>4
  <1>6. imports' = [imports EXCEPT ![i] = new]
    BY <1>1
  <1> HIDE DEF new
  <1>7. /\ imports' \in Seq(Import) /\ DOMAIN imports' = DOMAIN imports
        /\ imports'[i] = new
        /\ \A k \in DOMAIN imports : k # i => imports'[k] = imports[k]
    <2>1. imports \in Seq(Import)
      BY DEF ImportsInv, ImportsTyped
    <2>2. imports' \in Seq(Import)
      BY <1>4, <1>6, <2>1, ExceptSeq
    <2>3. QED
      BY <1>6, <2>2
  <1>8. /\ rows' \in [Lines -> Nat] /\ rows'[l] = rows[l] + 1 /\ rows'[l] > 0
        /\ \A m \in Lines : m # l => rows'[m] = rows[m]
        /\ \A m \in Lines : rows[m] \in Nat
    BY <1>1, <1>3 DEF ImportsInv, ImportsTyped
  <1>9. \A m \in Lines : rows[m] > 0 => rows'[m] > 0
    BY <1>8
  <1>10. ImportsTyped'
    BY <1>2, <1>7, <1>8 DEF ImportsInv, ImportsTyped
  <1>11. EntriesKept'
    <2> SUFFICES ASSUME NEW k \in DOMAIN imports
                 PROVE  /\ imports'[k].left \subseteq imports'[k].ask
                        /\ imports'[k].ask \subseteq typed
                        /\ \A m \in imports'[k].ask \ imports'[k].left : rows'[m] > 0
                        /\ imports'[k].heard => \A m \in (typed \cap Readable) \ hasty :
                                m \in imports'[k].ask \/ rows'[m] > 0
      BY <1>2, <1>7 DEF EntriesKept
    <2>1. /\ imports'[k].ask = imports[k].ask /\ imports'[k].heard = imports[k].heard
          /\ imports'[k].left = IF k = i THEN imports[k].left \ {l} ELSE imports[k].left
      BY <1>5, <1>7
    <2>2. /\ imports[k].left \subseteq imports[k].ask /\ imports[k].ask \subseteq typed
          /\ \A m \in imports[k].ask \ imports[k].left : rows[m] > 0
          /\ imports[k].heard => \A m \in (typed \cap Readable) \ hasty :
                m \in imports[k].ask \/ rows[m] > 0
      BY DEF ImportsInv, EntriesKept
    <2>3. typed \subseteq Lines
      BY DEF ImportsInv, ImportsTyped
    <2>4. \A m \in imports'[k].ask \ imports'[k].left : rows'[m] > 0
      BY <1>8, <1>9, <2>1, <2>2, <2>3
    <2>5. QED
      BY <1>9, <2>1, <2>2, <2>3, <2>4
  <1>12. ConfirmedStored' /\ TypedCallsKept'
    BY <1>2, <1>9 DEF ImportsInv, ImportsTyped, ConfirmedStored, TypedCallsKept
  <1>13. RowsOwed'
    <2> SUFFICES ASSUME NEW m \in Lines
                 PROVE  rows'[m] + Cardinality(Owing(m)') <= sends[m]
      BY <1>2 DEF RowsOwed
    <2>1. /\ IsFiniteSet(Owing(m)) /\ Cardinality(Owing(m)) \in Nat
          /\ rows[m] \in Nat /\ sends[m] \in Nat
          /\ rows[m] + Cardinality(Owing(m)) <= sends[m]
      BY ImportsAre DEF ImportsInv, ImportsTyped, RowsOwed
    <2>2. CASE m = l
      <3>1. Owing(m)' = Owing(m) \ {i} /\ i \in Owing(m)
        BY <1>5, <1>7, <2>2 DEF Owing
      <3>2. Cardinality(Owing(m)') = Cardinality(Owing(m)) - 1
        BY <2>1, <3>1, FS_RemoveElement
      <3>3. QED
        BY <1>8, <2>1, <2>2, <3>2
    <2>3. CASE m # l
      <3>1. Owing(m)' = Owing(m)
        BY <1>5, <1>7, <2>3 DEF Owing
      <3>2. QED
        BY <1>8, <2>1, <2>3, <3>1
    <2>4. QED
      BY <2>2, <2>3
  <1>14. QED
    BY <1>10, <1>11, <1>12, <1>13 DEF ImportsInv

\* An import ends: no line is owed more than before.
LEMMA ImportEnds ==
    ASSUME ImportsTyped, NEW i \in DOMAIN imports, imports' = RemoveAt(imports, i)
    PROVE  /\ imports' \in Seq(Import)
           /\ \A k \in DOMAIN imports' : \E m \in DOMAIN imports : imports'[k] = imports[m]
           /\ \A l : Cardinality(Owing(l)') <= Cardinality(Owing(l)) /\ Cardinality(Owing(l)') \in Nat
  <1> DEFINE was(k) == IF k < i THEN k ELSE k + 1
  <1>1. /\ Len(imports) \in Nat /\ DOMAIN imports = 1..Len(imports) /\ i \in 1..Len(imports)
        /\ imports \in Seq(Import)
    BY ImportsAre DEF ImportsTyped
  <1>2. /\ imports' \in Seq(Import) /\ Len(imports') = Len(imports) - 1
        /\ \A k \in 1..(Len(imports) - 1) : imports'[k] = imports[was(k)]
    BY <1>1, RemovedAt
  <1>3. DOMAIN imports' = 1..(Len(imports) - 1)
    BY <1>2, LenProperties
  <1>4. \A k \in DOMAIN imports' : was(k) \in DOMAIN imports /\ imports'[k] = imports[was(k)]
    BY <1>1, <1>2, <1>3
  <1>5. \A k, m \in DOMAIN imports' : was(k) = was(m) => k = m
    BY <1>1, <1>3
  <1> HIDE DEF was
  <1>6. ASSUME NEW l
        PROVE  Cardinality(Owing(l)') <= Cardinality(Owing(l)) /\ Cardinality(Owing(l)') \in Nat
    <2> DEFINE f == [k \in Owing(l)' |-> was(k)]
    <2>1. f \in Injection(Owing(l)', Owing(l))
      BY <1>4, <1>5 DEF Owing, Injection, IsInjective
    <2>2. IsFiniteSet(Owing(l))
      BY ImportsAre
    <2> HIDE DEF f
    <2>3. QED
      BY <2>1, <2>2, FS_Injection, FS_CardinalityType
  <1>7. QED
    BY <1>2, <1>4, <1>6

\* The reply clears the text: what it does not hold by now was typed hastily.
LEMMA ImportsDeliver ==
    ASSUME ImportsInv, NEW i \in DOMAIN imports, DeliverImport(i)
    PROVE  ImportsInv'
  <1>1. /\ imports[i].heard /\ imports[i].left = {}
        /\ imports' = RemoveAt(imports, i)
        /\ importStatus' = "saved" /\ text' = {}
        /\ confirmed' = confirmed \cup imports[i].ask
        /\ UNCHANGED <<rows, typed, hasty, sends>>
    BY DEF DeliverImport
  <1>2. ImportsTyped
    BY DEF ImportsInv
  <1>3. /\ imports[i].ask \subseteq typed /\ \A l \in imports[i].ask : rows[l] > 0
        /\ \A l \in (typed \cap Readable) \ hasty : rows[l] > 0
    BY <1>1 DEF ImportsInv, EntriesKept
  <1>4. /\ imports' \in Seq(Import)
        /\ \A k \in DOMAIN imports' : \E m \in DOMAIN imports : imports'[k] = imports[m]
        /\ \A l : Cardinality(Owing(l)') <= Cardinality(Owing(l)) /\ Cardinality(Owing(l)') \in Nat
    BY <1>1, <1>2, ImportEnds
  <1>5. ImportsTyped'
    BY <1>1, <1>2, <1>3, <1>4 DEF ImportsTyped
  <1>6. EntriesKept'
    BY <1>1, <1>4 DEF ImportsInv, EntriesKept
  <1>7. ConfirmedStored' /\ TypedCallsKept'
    BY <1>1, <1>3 DEF ImportsInv, ConfirmedStored, TypedCallsKept
  <1>8. RowsOwed'
    BY <1>1, <1>2, <1>4, ImportsAre DEF ImportsInv, ImportsTyped, RowsOwed
  <1>9. QED
    BY <1>5, <1>6, <1>7, <1>8 DEF ImportsInv

\* An import that ends otherwise leaves the text.
LEMMA ImportsEnd ==
    ASSUME ImportsInv, NEW i \in DOMAIN imports, imports' = RemoveAt(imports, i),
           importStatus' \in {importStatus, "error"},
           UNCHANGED <<rows, text, typed, hasty, sends, confirmed>>
    PROVE  ImportsInv'
  <1>1. ImportsTyped
    BY DEF ImportsInv
  <1>2. /\ imports' \in Seq(Import)
        /\ \A k \in DOMAIN imports' : \E m \in DOMAIN imports : imports'[k] = imports[m]
        /\ \A l : Cardinality(Owing(l)') <= Cardinality(Owing(l)) /\ Cardinality(Owing(l)') \in Nat
    BY <1>1, ImportEnds
  <1>3. ImportsTyped'
    BY <1>1, <1>2 DEF ImportsTyped
  <1>4. EntriesKept'
    BY <1>2 DEF ImportsInv, EntriesKept
  <1>5. RowsOwed'
    BY <1>1, <1>2, ImportsAre DEF ImportsInv, ImportsTyped, RowsOwed
  <1>6. QED
    BY <1>3, <1>4, <1>5 DEF ImportsInv, ConfirmedStored, TypedCallsKept

\* The connection is lost and the handler goes on: nobody will clear the text.
LEMMA ImportsUnheard ==
    ASSUME ImportsInv, NEW i \in DOMAIN imports,
           imports' = [imports EXCEPT ![i].heard = FALSE],
           importStatus' = "error",
           UNCHANGED <<rows, text, typed, hasty, sends, confirmed>>
    PROVE  ImportsInv'
  <1> DEFINE new == [imports[i] EXCEPT !.heard = FALSE]
  <1>1. imports[i] \in Import /\ imports \in Seq(Import)
    BY ImportsAre DEF ImportsInv, ImportsTyped
  <1>2. new \in Import
    BY <1>1 DEF Import
  <1>3. new.ask = imports[i].ask /\ new.left = imports[i].left /\ ~new.heard
    BY <1>1 DEF Import
  <1>4. imports' = [imports EXCEPT ![i] = new]
    OBVIOUS
  <1> HIDE DEF new
  <1>5. imports' \in Seq(Import)
    <2>1. imports \in Seq(Import) /\ new \in Import
      BY <1>1, <1>2
    <2>2. [imports EXCEPT ![i] = new] \in Seq(Import)
      BY <2>1, ExceptSeq
    <2>3. QED
      BY <1>4, <2>2
  <1>6. /\ DOMAIN imports' = DOMAIN imports
        /\ \A k \in DOMAIN imports :
            /\ imports'[k].ask = imports[k].ask /\ imports'[k].left = imports[k].left
            /\ imports'[k].heard => imports[k].heard
    BY <1>3, <1>4
  <1>7. ImportsTyped'
    BY <1>5 DEF ImportsInv, ImportsTyped
  <1>8. EntriesKept'
    BY <1>6 DEF ImportsInv, EntriesKept
  <1>9. \A l : Owing(l)' = Owing(l)
    BY <1>6 DEF Owing
  <1>10. RowsOwed'
    BY <1>9 DEF ImportsInv, RowsOwed
  <1>11. QED
    BY <1>7, <1>8, <1>10 DEF ImportsInv, ConfirmedStored, TypedCallsKept

LEMMA ImportsStep == ASSUME ImportsInv, CallLogStep  PROVE ImportsInv'
  <1>1. CASE AnswerTables \/ ReceiveTables \/ LoseTable \/ SubmitSummary
    <2>1. UNCHANGED importVars
      BY <1>1 DEF AnswerTables, ReceiveTables, LoseTable, SubmitSummary, DeliverSummary,
                  DeliverUnknown
    <2>2. QED
      BY <2>1, ImportsKept
  <1>2. ASSUME NEW i \in DOMAIN imports, LoseImport(i)  PROVE ImportsInv'
    <2>1. /\ importStatus' = "error"
          /\ UNCHANGED <<rows, text, typed, hasty, sends, confirmed>>
          /\ \/ imports' = RemoveAt(imports, i)
             \/ imports' = [imports EXCEPT ![i].heard = FALSE]
      BY <1>2 DEF LoseImport
    <2>2. QED
      BY <2>1, ImportsEnd, ImportsUnheard
  <1>3. ASSUME NEW i \in DOMAIN imports, EndUnheard(i)  PROVE ImportsInv'
    <2>1. /\ imports' = RemoveAt(imports, i)
          /\ UNCHANGED <<rows, text, importStatus, typed, hasty, sends, confirmed>>
      BY <1>3 DEF EndUnheard
    <2>2. QED
      BY <2>1, ImportsEnd
  <1>4. QED
    BY <1>1, <1>2, <1>3, ImportsTypeLine, ImportsSubmit, ImportsInsertEntry, ImportsDeliver
       DEF CallLogStep, CallLogAnswers

-----------------------------------------------------------------------------
(* The call-log tab: what the tables list.                                 *)

TablesTyped ==
    /\ summaries \in Requests({None}, Summaries)
    /\ unknowns \in Requests({None}, Unknowns)
    /\ summaryTable \in {None, NoAnswer, Refused} \cup Summaries
    /\ unknownTable \in {None, NoAnswer, Refused} \cup Unknowns
    /\ {summaryLast, unknownLast} \subseteq BOOLEAN

\* The answers that have every call the page said was saved, or, in the table
\* of unknown callers, the calls of those that have no identity by now.
FullSummaries ==
    {t \in Summaries : \A l \in confirmed : \E row \in t.entries : row.number = Caller[l]}

FullUnknowns ==
    {t \in Unknowns : \A l \in confirmed :
        Known(Caller[l]) \/ \E row \in t.entries : row.number = Caller[l]}

\* The answer to the last request, unless it was overtaken, is a full one, and
\* what it left on the page is.
LastIsFull(q, last, table, tables, full) ==
    /\ q # <<>> /\ ~q[Len(q)].late /\ q[Len(q)].answer # NoAnswer =>
            q[Len(q)].answer \in full
    /\ q = <<>> /\ last /\ table \in tables => table \in full

TablesFull ==
    /\ LastIsFull(summaries, summaryLast, summaryTable, Summaries, FullSummaries)
    /\ LastIsFull(unknowns, unknownLast, unknownTable, Unknowns, FullUnknowns)

TablesInv == TablesTyped /\ TablesFull

LEMMA TablesInit == CallLogInit => TablesInv
  <1> SUFFICES ASSUME CallLogInit  PROVE TablesInv
    OBVIOUS
  <1>1. \A A, B : <<>> \in Requests(A, B)
    BY EmptySeq DEF Requests
  <1>2. TablesTyped
    BY <1>1 DEF CallLogInit, TablesTyped
  <1>3. TablesFull
    BY DEF CallLogInit, TablesFull, LastIsFull, FullSummaries, FullUnknowns
  <1>4. QED
    BY <1>2, <1>3 DEF TablesInv

\* The tables are left alone, and numbers only gain identities.
LEMMA TablesKept ==
    ASSUME TablesInv, UNCHANGED <<tableVars, confirmed>>,
           \A n : Known(n) => Known(n)'
    PROVE  TablesInv'
  <1>1. FullSummaries' = FullSummaries /\ FullUnknowns \subseteq FullUnknowns'
    BY DEF FullSummaries, FullUnknowns
  <1>2. QED
    BY <1>1 DEF tableVars, TablesInv, TablesTyped, TablesFull, LastIsFull

\* What the API answers now lists every call that was confirmed.
LEMMA TablesRead ==
    ASSUME ImportsInv
    PROVE  CallLogSummary \in FullSummaries /\ UnknownNumbers \in FullUnknowns
  <1>1. /\ rows \in [Lines -> Nat] /\ confirmed \subseteq Lines
        /\ \A l \in confirmed : rows[l] > 0
    BY DEF ImportsInv, ImportsTyped, ConfirmedStored
  <1>2. Callers \subseteq Phones \cup Scrawls /\ \A l \in confirmed : Caller[l] \in Callers
    <2>1. \A l \in Lines : Caller[l] \in Phones \cup Scrawls
      BY CallLogConstantsOK, ElementOfSeq, LenProperties DEF Lines
    <2>2. QED
      BY <1>1, <2>1 DEF Callers
  <1>3. ASSUME NEW n  PROVE CallsOf(n) \in Nat
    <2> DEFINE of == {m \in Lines : Caller[m] = n}
               f == [l \in of |-> {l} \X (1..rows[l])]
               each == {{l} \X (1..rows[l]) : l \in of}
    <2>1. IsFiniteSet(of)
      <3>1. Lines = 1..Len(Caller) /\ Len(Caller) \in Nat
        BY CallLogConstantsOK, LenProperties DEF Lines
      <3>2. IsFiniteSet(Lines) /\ of \in SUBSET Lines
        BY <3>1, FS_Interval
      <3>3. QED
        BY <3>2, FS_Subset
    <2>2. IsFiniteSet(each)
      <3>1. f \in Surjection(of, each)
        BY DEF Surjection
      <3> HIDE DEF f, of, each
      <3>2. QED
        BY <2>1, <3>1, FS_Surjection
    <2>3. \A T \in each : IsFiniteSet(T)
      <3>1. ASSUME NEW l \in Lines  PROVE IsFiniteSet({l} \X (1..rows[l]))
        <4>1. rows[l] \in Int /\ 1 \in Int
          BY <1>1
        <4>2. IsFiniteSet({l}) /\ IsFiniteSet(1..rows[l])
          BY <4>1, FS_Singleton, FS_Interval
        <4>3. QED
          BY <4>2, FS_Product
      <3>2. QED
        BY <3>1
    <2> HIDE DEF each
    <2>4. Cardinality(UNION each) \in Nat
      BY <2>2, <2>3, FS_UNION, FS_CardinalityType
    <2>5. QED
      BY <2>4 DEF CallsOf, each
  <1>4. CallLogSummary \in FullSummaries
    <2> DEFINE e == {[number |-> n, calls |-> CallsOf(n), known |-> Known(n)] : n \in Callers}
    <2>1. CallLogSummary = [entries |-> e]
      BY DEF CallLogSummary
    <2>2. e \subseteq [number : Phones \cup Scrawls, calls : Nat, known : BOOLEAN]
      <3> SUFFICES ASSUME NEW n \in Callers
                   PROVE  [number |-> n, calls |-> CallsOf(n), known |-> Known(n)]
                            \in [number : Phones \cup Scrawls, calls : Nat, known : BOOLEAN]
        OBVIOUS
      <3>1. Known(n) \in BOOLEAN
        BY DEF Known
      <3>2. n \in Phones \cup Scrawls /\ CallsOf(n) \in Nat
        BY <1>2, <1>3
      <3>3. QED
        BY <3>1, <3>2
    <2>3. ASSUME NEW l \in confirmed  PROVE \E row \in e : row.number = Caller[l]
      <3> DEFINE row == [number |-> Caller[l], calls |-> CallsOf(Caller[l]),
                         known |-> Known(Caller[l])]
      <3>1. row \in e /\ row.number = Caller[l]
        BY <1>2
      <3>2. QED
        BY <3>1
    <2> HIDE DEF e
    <2>4. CallLogSummary \in Summaries /\ CallLogSummary.entries = e
      BY <2>1, <2>2 DEF Summaries
    <2>5. QED
      BY <2>3, <2>4 DEF FullSummaries
  <1>5. UnknownNumbers \in FullUnknowns
    <2> DEFINE u == {m \in Callers : ~Known(m)}
               e == {[number |-> n, calls |-> CallsOf(n)] : n \in u}
    <2>1. UnknownNumbers = [entries |-> e]
      BY DEF UnknownNumbers
    <2>2. e \subseteq [number : Phones \cup Scrawls, calls : Nat]
      BY <1>2, <1>3
    <2>3. ASSUME NEW l \in confirmed, ~Known(Caller[l])
          PROVE  \E row \in e : row.number = Caller[l]
      <3> DEFINE row == [number |-> Caller[l], calls |-> CallsOf(Caller[l])]
      <3>1. row \in e /\ row.number = Caller[l]
        BY <1>2, <2>3
      <3>2. QED
        BY <3>1
    <2> HIDE DEF e
    <2>4. UnknownNumbers \in Unknowns /\ UnknownNumbers.entries = e
      BY <2>1, <2>2 DEF Unknowns
    <2>5. QED
      BY <2>3, <2>4 DEF FullUnknowns
  <1>6. QED
    BY <1>4, <1>5

\* A request is sent, whatever the page shows and whatever is to be listed.
LEMMA FetchSent ==
    ASSUME NEW tables, NEW q \in Requests({None}, tables)
    PROVE  /\ Sent(q, None) \in Requests({None}, tables)
           /\ \A last, table, full : LastIsFull(Sent(q, None), last, table, tables, full)
  <1> DEFINE t == Sent(q, None)
  <1>1. /\ t \in Requests({None}, tables) /\ Len(t) = Len(q) + 1
        /\ t[Len(q) + 1] = [ask |-> None, answer |-> NoAnswer, late |-> FALSE]
    BY SentRequests
  <1>2. t[Len(q) + 1].answer = NoAnswer
    BY <1>1
  <1>3. t # <<>>
    BY <1>1, RequestsAre
  <1> HIDE DEF t
  <1>4. QED
    BY <1>1, <1>2, <1>3 DEF LastIsFull, t

LEMMA FetchAnswered ==
    ASSUME NEW tables, NEW q \in Requests({None}, tables), NEW i \in DOMAIN q,
           NEW full \in SUBSET tables, NEW a \in full,
           NEW last, NEW table, LastIsFull(q, last, table, tables, full)
    PROVE  /\ Answered(q, i, a) \in Requests({None}, tables)
           /\ LastIsFull(Answered(q, i, a), last, table, tables, full)
  <1> DEFINE t == Answered(q, i, a)
  <1>1. /\ t \in Requests({None}, tables) /\ Len(t) = Len(q)
        /\ \A k \in DOMAIN q : k # i => t[k] = q[k]
        /\ t[i].late = q[i].late /\ t[i].answer = a
    BY AnsweredRequests
  <1>2. Len(q) \in Nat /\ DOMAIN q = 1..Len(q) /\ q # <<>>
    BY RequestsAre
  <1>3. t # <<>>
    BY <1>1, <1>2, RequestsAre
  <1> HIDE DEF t
  <1>4. LastIsFull(t, last, table, tables, full)
    <2>1. CASE i = Len(q)
      BY <1>1, <1>3, <2>1 DEF LastIsFull
    <2>2. CASE i # Len(q)
      <3>1. Len(q) \in DOMAIN q
        BY <1>2, RequestsAre
      <3>2. t[Len(q)] = q[Len(q)]
        BY <1>1, <2>2, <3>1
      <3>3. QED
        BY <1>1, <1>2, <1>3, <3>2 DEF LastIsFull
    <2>3. QED
      BY <2>1, <2>2
  <1>5. QED
    BY <1>1, <1>4 DEF t

LEMMA FetchTaken ==
    ASSUME NEW tables, NEW q \in Requests({None}, tables), NEW i \in DOMAIN q,
           NEW full, NEW last, NEW table, LastIsFull(q, last, table, tables, full),
           NEW new, new \notin tables \/ (new = q[i].answer /\ new # NoAnswer)
    PROVE  /\ Taken(q, i) \in Requests({None}, tables) /\ IsLast(q, i) \in BOOLEAN
           /\ LastIsFull(Taken(q, i), IsLast(q, i), new, tables, full)
  <1> DEFINE t == Taken(q, i)
  <1>1. /\ t \in Requests({None}, tables) /\ Len(t) = Len(q) - 1
        /\ Len(q) # 1 /\ ~t[Len(q) - 1].late =>
                /\ ~q[Len(q)].late /\ t[Len(q) - 1].answer = q[Len(q)].answer
    BY TakenRequests
  <1>2. Len(q) \in Nat /\ i \in 1..Len(q) /\ q # <<>>
    BY RequestsAre
  <1>3. t = <<>> <=> Len(t) = 0
    BY <1>1, RequestsAre
  <1> HIDE DEF t
  <1>4. ASSUME t # <<>>, ~t[Len(t)].late, t[Len(t)].answer # NoAnswer
        PROVE  t[Len(t)].answer \in full
    <2>1. Len(q) # 1
      BY <1>1, <1>2, <1>3, <1>4
    <2>2. QED
      BY <1>1, <1>2, <1>4, <2>1 DEF LastIsFull
  <1>5. ASSUME t = <<>>, IsLast(q, i), new \in tables  PROVE new \in full
    BY <1>2, <1>5 DEF IsLast, LastIsFull
  <1>6. QED
    BY <1>1, <1>4, <1>5 DEF LastIsFull, IsLast, t

\* Both tables are asked for, by opening the tab or after an import: the answers
\* are still to come.
LEMMA TablesLoaded == ASSUME TablesInv, LoadTables  PROVE TablesInv'
  <1>1. /\ summaries' = Sent(summaries, None) /\ summaryTable' = NoAnswer
        /\ unknowns' = Sent(unknowns, None) /\ unknownTable' = NoAnswer
        /\ UNCHANGED <<summaryLast, unknownLast>>
    BY DEF LoadTables
  <1>2. /\ Sent(summaries, None) \in Requests({None}, Summaries)
        /\ \A last, table, full : LastIsFull(Sent(summaries, None), last, table, Summaries, full)
    BY FetchSent DEF TablesInv, TablesTyped
  <1>3. /\ Sent(unknowns, None) \in Requests({None}, Unknowns)
        /\ \A last, table, full : LastIsFull(Sent(unknowns, None), last, table, Unknowns, full)
    BY FetchSent DEF TablesInv, TablesTyped
  <1>4. TablesTyped'
    BY <1>1, <1>2, <1>3 DEF TablesInv, TablesTyped
  <1>5. TablesFull'
    BY <1>1, <1>2, <1>3 DEF TablesFull
  <1>6. QED
    BY <1>4, <1>5 DEF TablesInv

LEMMA TablesSubmit == ASSUME TablesInv, SubmitSummary  PROVE TablesInv'
  <1>1. /\ summaries' = Sent(summaries, None) /\ summaryTable' = NoAnswer
        /\ UNCHANGED <<directory, importVars, summaryLast, unknowns, unknownTable, unknownLast>>
    BY DEF SubmitSummary, lookupVars
  <1>2. /\ Sent(summaries, None) \in Requests({None}, Summaries)
        /\ \A last, table, full : LastIsFull(Sent(summaries, None), last, table, Summaries, full)
    BY FetchSent DEF TablesInv, TablesTyped
  <1>3. UNCHANGED FullUnknowns
    BY <1>1 DEF FullUnknowns, Known, importVars
  <1>4. TablesTyped'
    BY <1>1, <1>2 DEF TablesInv, TablesTyped
  <1>5. TablesFull'
    BY <1>1, <1>2, <1>3 DEF TablesInv, TablesFull
  <1>6. QED
    BY <1>4, <1>5 DEF TablesInv

\* What changes neither the calls nor the directory changes not what is full.
LEMMA FullStays ==
    ASSUME UNCHANGED <<directory, confirmed>>
    PROVE  UNCHANGED <<FullSummaries, FullUnknowns>>
  BY DEF FullSummaries, FullUnknowns, Known

LEMMA TablesAnswer == ASSUME ImportsInv, TablesInv, AnswerTables  PROVE TablesInv'
  <1>1. UNCHANGED <<FullSummaries, FullUnknowns>>
    <2>1. UNCHANGED <<directory, confirmed>>
      BY DEF AnswerTables, lookupVars, importVars
    <2>2. QED
      BY <2>1, FullStays
  <1>2. FullSummaries \in SUBSET Summaries /\ FullUnknowns \in SUBSET Unknowns
    BY DEF FullSummaries, FullUnknowns
  <1>3. UNCHANGED <<summaryTable, summaryLast, unknownTable, unknownLast>>
    BY DEF AnswerTables
  <1>4. ASSUME NEW i \in DOMAIN summaries,
               summaries' = Answered(summaries, i, CallLogSummary), UNCHANGED unknowns
        PROVE  TablesInv'
    <2>1. /\ Answered(summaries, i, CallLogSummary) \in Requests({None}, Summaries)
          /\ LastIsFull(Answered(summaries, i, CallLogSummary), summaryLast, summaryTable,
                        Summaries, FullSummaries)
      BY <1>2, TablesRead, FetchAnswered DEF TablesInv, TablesTyped, TablesFull
    <2>2. TablesTyped'
      BY <1>3, <1>4, <2>1 DEF TablesInv, TablesTyped
    <2>3. TablesFull'
      BY <1>1, <1>3, <1>4, <2>1 DEF TablesInv, TablesFull
    <2>4. QED
      BY <2>2, <2>3 DEF TablesInv
  <1>5. ASSUME NEW i \in DOMAIN unknowns,
               unknowns' = Answered(unknowns, i, UnknownNumbers), UNCHANGED summaries
        PROVE  TablesInv'
    <2>1. /\ Answered(unknowns, i, UnknownNumbers) \in Requests({None}, Unknowns)
          /\ LastIsFull(Answered(unknowns, i, UnknownNumbers), unknownLast, unknownTable,
                        Unknowns, FullUnknowns)
      BY <1>2, TablesRead, FetchAnswered DEF TablesInv, TablesTyped, TablesFull
    <2>2. TablesTyped'
      BY <1>3, <1>5, <2>1 DEF TablesInv, TablesTyped
    <2>3. TablesFull'
      BY <1>1, <1>3, <1>5, <2>1 DEF TablesInv, TablesFull
    <2>4. QED
      BY <2>2, <2>3 DEF TablesInv
  <1>6. QED
    BY <1>4, <1>5 DEF AnswerTables

\* A table arrives, or the text of an error.
LEMMA TablesReturn ==
    ASSUME TablesInv, ReceiveTables \/ LoseTable  PROVE TablesInv'
  <1>1. UNCHANGED <<FullSummaries, FullUnknowns>>
    <2>1. UNCHANGED <<directory, confirmed>>
      BY DEF ReceiveTables, LoseTable, DeliverSummary, DeliverUnknown, lookupVars, importVars
    <2>2. QED
      BY <2>1, FullStays
  <1>2. ASSUME NEW i \in DOMAIN summaries, NEW table, DeliverSummary(i, table),
               table = Refused \/ (table = summaries[i].answer /\ table # NoAnswer)
        PROVE  TablesInv'
    <2>1. /\ summaries' = Taken(summaries, i)
          /\ summaryTable' = table /\ summaryLast' = IsLast(summaries, i)
          /\ UNCHANGED <<unknowns, unknownTable, unknownLast>>
      BY <1>2 DEF DeliverSummary
    <2>2. summaries[i] \in [ask : {None}, answer : Summaries \cup {NoAnswer}, late : BOOLEAN]
      BY RequestsAre DEF TablesInv, TablesTyped
    <2>3. /\ table \in {Refused} \cup Summaries
          /\ table \notin Summaries \/ (table = summaries[i].answer /\ table # NoAnswer)
      BY <1>2, <2>2, RefusedIsNoTable
    <2>4. /\ Taken(summaries, i) \in Requests({None}, Summaries)
          /\ IsLast(summaries, i) \in BOOLEAN
          /\ LastIsFull(Taken(summaries, i), IsLast(summaries, i), table,
                        Summaries, FullSummaries)
      BY <2>3, FetchTaken DEF TablesInv, TablesTyped, TablesFull
    <2>5. TablesTyped'
      BY <2>1, <2>3, <2>4 DEF TablesInv, TablesTyped
    <2>6. TablesFull'
      BY <1>1, <2>1, <2>4 DEF TablesInv, TablesFull
    <2>7. QED
      BY <2>5, <2>6 DEF TablesInv
  <1>3. ASSUME NEW i \in DOMAIN unknowns, NEW table, DeliverUnknown(i, table),
               table = Refused \/ (table = unknowns[i].answer /\ table # NoAnswer)
        PROVE  TablesInv'
    <2>1. /\ unknowns' = Taken(unknowns, i)
          /\ unknownTable' = table /\ unknownLast' = IsLast(unknowns, i)
          /\ UNCHANGED <<summaries, summaryTable, summaryLast>>
      BY <1>3 DEF DeliverUnknown
    <2>2. unknowns[i] \in [ask : {None}, answer : Unknowns \cup {NoAnswer}, late : BOOLEAN]
      BY RequestsAre DEF TablesInv, TablesTyped
    <2>3. /\ table \in {Refused} \cup Unknowns
          /\ table \notin Unknowns \/ (table = unknowns[i].answer /\ table # NoAnswer)
      BY <1>3, <2>2, RefusedIsNoTable
    <2>4. /\ Taken(unknowns, i) \in Requests({None}, Unknowns)
          /\ IsLast(unknowns, i) \in BOOLEAN
          /\ LastIsFull(Taken(unknowns, i), IsLast(unknowns, i), table,
                        Unknowns, FullUnknowns)
      BY <2>3, FetchTaken DEF TablesInv, TablesTyped, TablesFull
    <2>5. TablesTyped'
      BY <2>1, <2>3, <2>4 DEF TablesInv, TablesTyped
    <2>6. TablesFull'
      BY <1>1, <2>1, <2>4 DEF TablesInv, TablesFull
    <2>7. QED
      BY <2>5, <2>6 DEF TablesInv
  <1>4. QED
    BY <1>2, <1>3 DEF ReceiveTables, LoseTable

LEMMA TablesStep == ASSUME ImportsInv, TablesInv, CallLogStep  PROVE TablesInv'
  <1>1. CASE \/ TypeLine \/ SubmitImport
             \/ \E i \in DOMAIN imports : InsertEntry(i) \/ EndUnheard(i) \/ LoseImport(i)
    <2>1. UNCHANGED <<tableVars, confirmed, directory>>
      BY <1>1 DEF TypeLine, SubmitImport, InsertEntry, EndUnheard, LoseImport, lookupVars
    <2>2. \A n : Known(n) => Known(n)'
      BY <2>1 DEF Known
    <2>3. QED
      BY <2>1, <2>2, TablesKept
  <1>2. ASSUME NEW i \in DOMAIN imports, DeliverImport(i)  PROVE TablesInv'
    BY <1>2, TablesLoaded DEF DeliverImport
  <1>3. QED
    BY <1>1, <1>2, TablesSubmit, TablesAnswer, TablesReturn DEF CallLogStep, CallLogAnswers

LEMMA CallsAreKept == ASSUME ImportsInv, TablesInv  PROVE CallsKept
  <1>1. RowsOwedToSends
    <2> SUFFICES ASSUME NEW l \in Lines  PROVE rows[l] <= sends[l]
      BY DEF RowsOwedToSends
    <2>1. /\ rows[l] \in Nat /\ sends[l] \in Nat /\ Cardinality(Owing(l)) \in Nat
          /\ rows[l] + Cardinality(Owing(l)) <= sends[l]
      BY ImportsAre DEF ImportsInv, ImportsTyped, RowsOwed
    <2>2. QED
      BY <2>1
  <1>2. ConfirmedCallsListed
    BY DEF TablesInv, TablesFull, LastIsFull, FullSummaries, FullUnknowns, ConfirmedCallsListed
  <1>3. QED
    BY <1>1, <1>2 DEF ImportsInv, CallsKept

-----------------------------------------------------------------------------
(* The page as a whole.                                                    *)

WebInv == BrowserTypeOK /\ HonestInv /\ ScreenInv /\ ImportsInv /\ TablesInv /\ OpsInv

LEMMA WebInit == Init => WebInv
  BY HonestInit, ScreenInit, ImportsInit, TablesInit, OpsInitInv, BrowserConstantsOK
     DEF Init, WebInv, BrowserInit, BrowserTypeOK, Pages

\* A step leaves the tab, or opens one; it is a gesture, a mishap or neither.
LEMMA BrowserStep == ASSUME BrowserTypeOK, Next  PROVE BrowserTypeOK'
  <1>1. ASSUME UNCHANGED browserVars \/ Mishap \/ \E page \in Pages : Gesture(page)
        PROVE  BrowserTypeOK'
    BY <1>1, BrowserConstantsOK DEF BrowserTypeOK, browserVars, Mishap, Gesture
  <1>2. ASSUME NEW page \in Pages, OpenTab(page)  PROVE BrowserTypeOK'
    BY <1>2 DEF OpenTab, BrowserTypeOK
  <1>3. "lookup" \in Pages /\ "calllog" \in Pages /\ "ops" \in Pages
    BY DEF Pages
  <1>4. CASE LookupStep
    BY <1>1, <1>3, <1>4
       DEF LookupStep, LookupAnswers, SubmitLookup, ToggleForm, SubmitReport, ReadSpam,
           ReadNumber, ReadIdentities, Reads, DeliverLookup, InsertReport, SummariseReport,
           DeliverReport, LoseLookup, LoseReport, OtherReports, Aggregate, Event, Loss
  <1>5. CASE CallLogStep
    BY <1>1, <1>3, <1>5
       DEF CallLogStep, CallLogAnswers, TypeLine, SubmitImport, SubmitSummary, InsertEntry,
           DeliverImport, EndUnheard, AnswerTables, ReceiveTables, LoseTable, LoseImport, Loss
  <1>6. CASE OpsStep
    BY <1>1, <1>3, <1>6
       DEF OpsStep, PressRefresh, Tick, PickRange, SummaryAnswers, ReadSummary,
           DeliverSummaryPanels, ChartAnswers, DeliverChart, ListAnswers, ReadList,
           DeliverList, LoseSummaryPanels, LoseChart, LoseList, JobsMove, Event, Loss
  <1>7. QED
    BY <1>2, <1>4, <1>5, <1>6 DEF Next

\* Aggregation names numbers, and never takes a name back.
LEMMA NamesStay ==
    ASSUME HonestInv, LookupStep  PROVE \A n : Known(n) => Known(n)'
  <1>1. CASE Aggregate
    <2>1. directory \in [Phones -> Progress]
      BY DEF HonestInv, LookupTyped, LookupTypeOK
    <2>2. PICK p \in Phones :
            /\ directory[p] # "named"
            /\ directory' = [directory EXCEPT ![p] = IF @ = "absent" THEN "counted" ELSE "named"]
      BY <1>1 DEF Aggregate
    <2>3. \A n \in Phones : directory[n] = "named" => directory'[n] = "named"
      BY <2>1, <2>2
    <2>4. QED
      BY <2>3 DEF Known
  <1>2. CASE UNCHANGED directory
    BY <1>2 DEF Known
  <1>3. QED
    BY <1>1, <1>2
       DEF LookupStep, LookupAnswers, SubmitLookup, ToggleForm, SubmitReport, ReadSpam,
           ReadNumber, ReadIdentities, Reads, DeliverLookup, LookupReturns, InsertReport,
           SummariseReport, DeliverReport, ReportReturns, LoseLookup, LoseReport, OtherReports

LEMMA WebStep == WebInv /\ [Next]_vars => WebInv'
  <1> SUFFICES ASSUME WebInv, [Next]_vars  PROVE WebInv'
    OBVIOUS
  <1> USE DEF WebInv
  <1>1. ASSUME UNCHANGED <<lookupVars, callLogVars>>
        PROVE  HonestInv' /\ ScreenInv' /\ ImportsInv' /\ TablesInv'
    <2>1. HonestInv' /\ ScreenInv'
      BY <1>1, HonestKept, ScreenKept DEF lookupVars
    <2>2. ImportsInv'
      BY <1>1, ImportsKept DEF callLogVars
    <2>3. TablesInv'
      <3>1. UNCHANGED <<tableVars, confirmed, directory>>
        BY <1>1 DEF callLogVars, importVars, lookupVars
      <3>2. \A n : Known(n) => Known(n)'
        BY <3>1 DEF Known
      <3>3. QED
        BY <3>1, <3>2, TablesKept
    <2>4. QED
      BY <2>1, <2>2, <2>3
  <1>2. ASSUME NEW page \in Pages, OpenTab(page)
        PROVE  HonestInv' /\ ScreenInv' /\ ImportsInv' /\ TablesInv' /\ OpsInv'
    <2>1. UNCHANGED lookupVars
      BY <1>2 DEF OpenTab
    <2>2. CASE UNCHANGED callLogVars
      BY <1>1, <1>2, <2>1, <2>2, OpsKept, OpsRefreshes DEF OpenTab
    <2>3. CASE LoadTables /\ UNCHANGED <<importVars, opsVars>>
      BY <2>1, <2>3, HonestKept, ScreenKept, ImportsKept, TablesLoaded, OpsKept DEF lookupVars
    <2>4. QED
      BY <1>2, <2>2, <2>3 DEF OpenTab
  <1>3. ASSUME LookupStep, UNCHANGED <<callLogVars, opsVars>>
        PROVE  HonestInv' /\ ScreenInv' /\ ImportsInv' /\ TablesInv' /\ OpsInv'
    <2>1. HonestInv' /\ ScreenInv' /\ OpsInv'
      BY <1>3, HonestStep, ScreenStep, OpsKept
    <2>2. ImportsInv'
      BY <1>3, ImportsKept DEF callLogVars
    <2>3. TablesInv'
      BY <1>3, NamesStay, TablesKept DEF callLogVars, importVars
    <2>4. QED
      BY <2>1, <2>2, <2>3
  <1>4. ASSUME CallLogStep, UNCHANGED opsVars
        PROVE  HonestInv' /\ ScreenInv' /\ ImportsInv' /\ TablesInv' /\ OpsInv'
    <2>1. UNCHANGED lookupVars
      BY <1>4 DEF CallLogStep, CallLogAnswers, TypeLine, SubmitImport, SubmitSummary,
                  InsertEntry, DeliverImport, EndUnheard, AnswerTables, ReceiveTables,
                  LoseTable, LoseImport, DeliverSummary, DeliverUnknown
    <2>2. QED
      BY <1>4, <2>1, HonestKept, ScreenKept, ImportsStep, TablesStep, OpsKept DEF lookupVars
  <1>5. CASE Next
    <2>1. BrowserTypeOK'
      BY <1>5, BrowserStep
    <2>2. CASE OpsStep /\ UNCHANGED <<lookupVars, callLogVars>>
      BY <1>1, <2>1, <2>2, OpsStepInv
    <2>3. QED
      BY <1>2, <1>3, <1>4, <1>5, <2>1, <2>2 DEF Next
  <1>6. CASE UNCHANGED vars
    <2>1. UNCHANGED <<browserVars, lookupVars, callLogVars, opsVars>>
      BY <1>6 DEF vars
    <2>2. BrowserTypeOK'
      BY <2>1 DEF browserVars, BrowserTypeOK
    <2>3. QED
      BY <1>1, <2>1, <2>2, OpsKept
  <1>7. QED
    BY <1>5, <1>6

LEMMA WebInvariant == Spec => []WebInv
  BY WebInit, WebStep, PTL DEF Spec

-----------------------------------------------------------------------------
(* Theorems.                                                               *)

\* What is on the screen belongs together, whatever order requests are answered
\* in: types of all state, the number a report is about, whose warning is shown,
\* the range a chart is drawn for, and the one timer.
THEOREM PagesAlwaysCoherent == Spec => []PagesCoherent
  <1>1. WebInv => PagesCoherent
    <2> SUFFICES ASSUME WebInv  PROVE PagesCoherent
      OBVIOUS
    <2>1. CallLogTypeOK
      BY DEF WebInv, ImportsInv, ImportsTyped, TablesInv, TablesTyped, Import, CallLogTypeOK
    <2>2. TypeOK
      BY <2>1 DEF WebInv, HonestInv, LookupTyped, OpsInv, TypeOK
    <2>3. QED
      BY <2>2 DEF WebInv, ScreenInv, OpsInv, PagesCoherent
  <1>2. QED
    BY <1>1, WebInvariant, PTL

\* A number looked up after the page acknowledged a report of it is shown with a
\* warning, and a warning counts this browser once, however often it reported.
THEOREM WarningsAlwaysHonest == Spec => []WarningsHonest
  <1>1. WebInv => WarningsHonest
    BY HonestWarns DEF WebInv
  <1>2. QED
    BY <1>1, WebInvariant, PTL

\* Once no look-up is under way and none was overtaken, what is shown answers the
\* last query; an error stands alone if no two look-ups overlapped.
THEOREM SettledLookupsAnswer == Spec => []SettledLookupAnswers
  <1>1. WebInv => SettledLookupAnswers
    BY DEF WebInv, ScreenInv
  <1>2. QED
    BY <1>1, WebInvariant, PTL

\* No readable call is lost unless it was typed while an import was under way,
\* none is stored more often than it was sent unconfirmed, and none that the page
\* said was saved falls between the two tables.
THEOREM CallsAlwaysKept == Spec => []CallsKept
  <1>1. WebInv => CallsKept
    BY CallsAreKept DEF WebInv
  <1>2. QED
    BY <1>1, WebInvariant, PTL
=============================================================================

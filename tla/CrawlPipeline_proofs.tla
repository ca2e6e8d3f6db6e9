------------------------ MODULE CrawlPipeline_proofs ------------------------
(***************************************************************************)
(* TLAPS proofs about the crawling of one URL, for every set of crawlers,  *)
(* normalizers and pages.                                                  *)
(***************************************************************************)
EXTENDS CrawlPipeline, Integers, FiniteSetTheorems, SequenceTheorems,
        WellFoundedInduction, TLAPS

\* A job's transaction is open from its first statement, crawl_source's from
\* its comparison; both until the crawl is over.
Holds(c) ==
    \/ pc[c] \in {"unchanged", "insert", "result", "check", "extract"}
    \/ c \in JobCrawlers /\ pc[c] \in {"fetch", "notModified", "compare"}

Committed(c) == pc[c] \in {"result", "check", "extract"}

\* The crawler at work on a row: nobody else owns a second one, and the row
\* holds the fetched page as soon as, and no sooner than, it is committed.
Transactions ==
    /\ \A c \in Crawlers : Holds(c) <=> \E i \in DOMAIN rows : rows[i].owner = c
    /\ \A i \in DOMAIN rows : rows[i].owner # None =>
        rows[i].page = IF Committed(rows[i].owner) THEN body[rows[i].owner] ELSE None

\* Of TypeOK, what is said of the rows beyond their type.
OneOwner ==
    /\ \A i \in DOMAIN rows : rows[i].page = None => rows[i].owner # None
    /\ \A i, j \in DOMAIN rows :
        i # j /\ rows[i].owner = rows[j].owner => rows[i].owner = None

Fetched ==
    \A c \in Crawlers :
        /\ pc[c] \notin {"idle", "fetch"} => body[c] \in Pages
        /\ c \in SourceCrawlers => sent[c] = None

Stored(p) == \E i \in Documents : rows[i].page = p

\* A crawler about to save validators has the page they describe stored.
AboutToVouch ==
    \A c \in Crawlers :
        pc[c] \in {"notModified", "unchanged", "result"} => Stored(body[c])

RowsInv == TypeOK /\ rows \in Seq(Row) /\ Transactions /\ Fetched

VouchInv == RowsInv /\ AboutToVouch /\ ValidatorsVouch

\* Of crawls that never overlapped: one is under way at most, its transaction
\* is the newest, no two neighbouring rows hold the same page, and what is
\* about to be inserted differs from the last document.
Alone ==
    /\ \A c, d \in Crawlers : pc[c] # "idle" /\ pc[d] # "idle" => c = d
    /\ \A i \in DOMAIN rows : rows[i].page = None => i = Len(rows)
    /\ \A i \in DOMAIN rows : i + 1 \in DOMAIN rows => rows[i].page # rows[i + 1].page
    /\ \A c \in Crawlers : pc[c] = "insert" =>
        \A i \in DOMAIN rows : i + 1 = Len(rows) => rows[i].page # body[c]

AloneInv == overlapped \/ Alone

\* Once a document is extracted nobody new takes it up: whoever has checked
\* it already and the crawler that stored it may each extract it once more.
Pending(r) == Cardinality(r.checked) + IF r.owner = None THEN 0 ELSE 1

RowBounded(r) == r.runs = 0 \/ r.runs + Pending(r) <= 1 + Cardinality(Normalizers)

RowsBounded == \A i \in DOMAIN rows : RowBounded(rows[i])

-----------------------------------------------------------------------------
(* What the operations do to the rows.                                     *)

LEMMA RowsAre ==
    ASSUME rows \in Seq(Row)
    PROVE  /\ Len(rows) \in Nat /\ DOMAIN rows = 1..Len(rows)
           /\ \A i \in DOMAIN rows : rows[i] \in Row
  BY LenProperties, ElementOfSeq

LEMMA RewrittenRows ==
    ASSUME rows \in Seq(Row), NEW f, f \in [DOMAIN rows -> Row]
    PROVE  f \in Seq(Row) /\ Len(f) = Len(rows) /\ DOMAIN f = DOMAIN rows
  <1>1. f \in [1..Len(rows) -> Row] /\ Len(rows) \in Nat
    BY RowsAre
  <1>2. f \in Seq(Row)
    BY <1>1, SeqDef
  <1>3. QED
    BY <1>1, <1>2, LenProperties

\* A transaction that begins is the newest.
LEMMA OpenedRows ==
    ASSUME rows \in Seq(Row), NEW c \in Crawlers
    PROVE  /\ OpensTransaction(c) \in Seq(Row)
           /\ Len(OpensTransaction(c)) = Len(rows) + 1
           /\ DOMAIN OpensTransaction(c) = 1..(Len(rows) + 1)
           /\ \A i \in DOMAIN rows : OpensTransaction(c)[i] = rows[i]
           /\ OpensTransaction(c)[Len(rows) + 1] =
                [page |-> None, owner |-> c, runs |-> 0, listed |-> {}, checked |-> {}]
  <1> DEFINE new == [page |-> None, owner |-> c, runs |-> 0, listed |-> {}, checked |-> {}]
  <1>1. new \in Row
    BY DEF Row
  <1> HIDE DEF new
  <1>2. /\ Append(rows, new) \in Seq(Row)
        /\ Len(Append(rows, new)) = Len(rows) + 1
        /\ \A i \in 1..Len(rows) : Append(rows, new)[i] = rows[i]
        /\ Append(rows, new)[Len(rows) + 1] = new
    BY <1>1, AppendProperties
  <1>3. DOMAIN Append(rows, new) = 1..(Len(rows) + 1)
    BY <1>2, LenProperties
  <1>4. OpensTransaction(c) = Append(rows, new)
    BY DEF OpensTransaction, new
  <1>5. QED
    BY <1>2, <1>3, <1>4, RowsAre DEF new

Without(k) == [j \in 1..(Len(rows) - 1) |-> rows[IF j < k THEN j ELSE j + 1]]

Disowned(c) ==
    [i \in DOMAIN rows |->
        IF rows[i].owner = c THEN [rows[i] EXCEPT !.owner = None] ELSE rows[i]]

LEMMA RemovedRow ==
    ASSUME rows \in Seq(Row), NEW k \in DOMAIN rows
    PROVE  RemoveAt(rows, k) = Without(k) /\ Without(k) \in Seq(Row)
  <1> DEFINE l == SubSeq(rows, 1, k - 1)
             r == SubSeq(rows, k + 1, Len(rows))
  <1>1. Len(rows) \in Nat /\ k \in 1..Len(rows)
    BY RowsAre
  <1>2. /\ l \in Seq(Row) /\ Len(l) = k - 1
        /\ \A i \in 1..(k - 1) : l[i] = rows[i]
    <2>1. \A i \in 1..(k - 1) : rows[i] \in Row
      BY <1>1, RowsAre
    <2>2. /\ l \in Seq(Row) /\ Len(l) = IF 1 <= k - 1 THEN k - 1 - 1 + 1 ELSE 0
          /\ \A i \in 1..(k - 1 - 1 + 1) : l[i] = rows[1 + i - 1]
      BY <1>1, <2>1, SubSeqProperties
    <2>3. QED
      BY <1>1, <2>2
  <1>3. /\ r \in Seq(Row) /\ Len(r) = Len(rows) - k
        /\ \A i \in 1..(Len(rows) - k) : r[i] = rows[k + i]
    <2>1. \A i \in (k + 1)..Len(rows) : rows[i] \in Row
      BY <1>1, RowsAre
    <2>2. /\ r \in Seq(Row)
          /\ Len(r) = IF k + 1 <= Len(rows) THEN Len(rows) - (k + 1) + 1 ELSE 0
          /\ \A i \in 1..(Len(rows) - (k + 1) + 1) : r[i] = rows[k + 1 + i - 1]
      BY <1>1, <2>1, SubSeqProperties
    <2>3. QED
      BY <1>1, <2>2
  <1> HIDE DEF l, r
  <1>4. /\ l \o r \in Seq(Row) /\ Len(l \o r) = Len(rows) - 1
        /\ \A i \in 1..(Len(rows) - 1) :
            (l \o r)[i] = IF i <= k - 1 THEN l[i] ELSE r[i - (k - 1)]
    <2>1. /\ l \o r \in Seq(Row) /\ Len(l \o r) = Len(l) + Len(r)
          /\ \A i \in 1..(Len(l) + Len(r)) :
              (l \o r)[i] = IF i <= Len(l) THEN l[i] ELSE r[i - Len(l)]
      BY <1>2, <1>3, ConcatProperties
    <2>2. Len(l) + Len(r) = Len(rows) - 1
      BY <1>1, <1>2, <1>3
    <2>3. QED
      BY <1>2, <2>1, <2>2
  <1>5. \A i \in 1..(Len(rows) - 1) : (l \o r)[i] = Without(k)[i]
    <2> SUFFICES ASSUME NEW i \in 1..(Len(rows) - 1)
                 PROVE  (l \o r)[i] = Without(k)[i]
      OBVIOUS
    <2>1. Without(k)[i] = rows[IF i < k THEN i ELSE i + 1]
      BY DEF Without
    <2>2. CASE i <= k - 1
      BY <1>1, <1>2, <1>4, <2>1, <2>2
    <2>3. CASE ~(i <= k - 1)
      <3>1. i - (k - 1) \in 1..(Len(rows) - k) /\ k + (i - (k - 1)) = i + 1
        BY <1>1, <2>3
      <3>2. r[i - (k - 1)] = rows[i + 1]
        BY <1>3, <3>1
      <3>3. QED
        BY <1>1, <1>4, <2>1, <2>3, <3>2
    <2>4. QED
      BY <2>2, <2>3
  <1>6. Without(k) \in Seq(Row) /\ Len(Without(k)) = Len(rows) - 1
    <2>1. Without(k) \in [1..(Len(rows) - 1) -> Row] /\ Len(rows) - 1 \in Nat
      BY <1>1, RowsAre DEF Without
    <2>2. QED
      BY <2>1, SeqDef, LenProperties
  <1>7. l \o r = Without(k)
    BY <1>4, <1>5, <1>6, SeqEqual
  <1>8. QED
    BY <1>6, <1>7 DEF RemoveAt, l, r

\* The end of a crawl removes its open transaction, or gives its document up.
LEMMA ClosedRows ==
    ASSUME rows \in Seq(Row), NEW c \in Crawlers
    PROVE  \/ \E k \in Uncommitted(c) : Closed(c) = Without(k) /\ Without(k) \in Seq(Row)
           \/ Uncommitted(c) = {} /\ Closed(c) = Disowned(c)
  <1>1. CASE Uncommitted(c) # {}
    <2>1. PICK k \in Uncommitted(c) : Closed(c) = RemoveAt(rows, k)
      BY <1>1 DEF Closed
    <2>2. QED
      BY <2>1, RemovedRow DEF Uncommitted
  <1>2. CASE Uncommitted(c) = {}
    BY <1>2 DEF Closed, Disowned
  <1>3. QED
    BY <1>1, <1>2

\* The newest document, if there is any, is the last stored.
LEMMA LastStoredIsNewest ==
    ASSUME rows \in Seq(Row), Documents # {}
    PROVE  \E i \in Documents :
               LastStored = rows[i].page /\ \A j \in Documents : i >= j
  <1> DEFINE After(i) == {j \in Documents : j > i}
             Afters == {After(i) : i \in Documents}
  <1>1. Documents \subseteq Nat /\ IsFiniteSet(Documents)
    <2>1. Documents \subseteq 1..Len(rows) /\ Len(rows) \in Int
      BY RowsAre DEF Documents
    <2>2. IsFiniteSet(1..Len(rows))
      BY <2>1, FS_Interval
    <2>3. QED
      <3>1. Documents \subseteq Nat
        BY <2>1
      <3>2. IsFiniteSet(Documents)
        BY <2>1, <2>2, FS_Subset
      <3>3. QED
        BY <3>1, <3>2
  <1>2. Afters \subseteq FiniteSubsetsOf(Documents) /\ Afters # {}
    <2>1. \A i \in Documents : After(i) \in SUBSET Documents
      OBVIOUS
    <2>2. \A i \in Documents : IsFiniteSet(After(i))
      BY <1>1, <2>1, FS_Subset
    <2>3. QED
      BY <2>1, <2>2 DEF FiniteSubsetsOf
  <1>3. PICK B \in Afters : \A A \in Afters : ~(<<A, B>> \in StrictSubsetOrdering(Documents))
    <2> HIDE DEF Afters
    <2>1. QED
      BY <1>2, WFMin, FS_StrictSubsetOrderingWellFounded
  <1>4. PICK i \in Documents : B = After(i)
    BY <1>3
  <1>5. \A j \in Documents : i >= j
    <2> SUFFICES ASSUME NEW j \in Documents, j > i PROVE FALSE
      BY <1>1
    <2>1. After(j) \subseteq After(i) /\ j \in After(i) /\ j \notin After(j)
      <3>1. i \in Nat /\ j \in Nat /\ \A k \in Documents : k \in Nat
        BY <1>1
      <3>2. /\ \A k \in Documents : k > j => k > i
            /\ j > i /\ ~(j > j)
        BY <3>1
      <3>3. After(j) \subseteq After(i)
        BY <3>2
      <3>4. j \in After(i) /\ j \notin After(j)
        BY <3>2
      <3>5. QED
        BY <3>3, <3>4
    <2>2. <<After(j), B>> \in StrictSubsetOrdering(Documents)
      <3>1. After(j) \in SUBSET Documents /\ After(i) \in SUBSET Documents
        OBVIOUS
      <3>2. After(j) # After(i)
        BY <2>1
      <3> HIDE DEF After
      <3>3. QED
        BY <1>4, <2>1, <3>1, <3>2 DEF StrictSubsetOrdering
    <2>3. QED
      BY <1>3, <2>2
  <1>6. QED
    BY <1>5 DEF LastStored

\* Whichever of the two the end of c's crawl does, every row that remains was
\* there, in the same order, and only c's ownership and its row without a
\* document are gone.
Survives(c, f) ==
    /\ \A j \in DOMAIN Closed(c) : f[j] \in DOMAIN rows
    /\ \A i, j \in DOMAIN Closed(c) : i < j => f[i] < f[j]
    /\ \A j \in DOMAIN Closed(c) :
        /\ Closed(c)[j] = IF rows[f[j]].owner = c
                          THEN [rows[f[j]] EXCEPT !.owner = None] ELSE rows[f[j]]
        /\ rows[f[j]].owner = c => rows[f[j]].page # None
    /\ \A i \in DOMAIN rows : rows[i].owner # c \/ rows[i].page # None =>
        \E j \in DOMAIN Closed(c) : f[j] = i

LEMMA Survivors ==
    ASSUME RowsInv, NEW c \in Crawlers
    PROVE  Closed(c) \in Seq(Row) /\ \E f : Survives(c, f)
  <1>1. Len(rows) \in Nat /\ DOMAIN rows = 1..Len(rows)
    BY RowsAre DEF RowsInv
  <1>2. CASE \E k \in Uncommitted(c) : Closed(c) = Without(k) /\ Without(k) \in Seq(Row)
    <2>1. PICK k \in Uncommitted(c) : Closed(c) = Without(k) /\ Without(k) \in Seq(Row)
      BY <1>2
    <2> DEFINE f == [j \in 1..(Len(rows) - 1) |-> IF j < k THEN j ELSE j + 1]
    <2>2. k \in 1..Len(rows) /\ rows[k].owner = c /\ rows[k].page = None
      BY <1>1, <2>1 DEF Uncommitted
    <2>3. DOMAIN Closed(c) = 1..(Len(rows) - 1)
      BY <2>1 DEF Without
    <2>4. \A j \in 1..(Len(rows) - 1) :
            /\ f[j] \in 1..Len(rows) /\ f[j] # k
            /\ Closed(c)[j] = rows[f[j]]
      BY <1>1, <2>1, <2>2 DEF Without
    <2>5. \A i \in 1..Len(rows) : i # k => rows[i].owner # c
      BY <1>1, <2>2, PipelineConstantsOK DEF RowsInv, TypeOK, PipelineConstantsOK, Procs
    <2>6. \A i \in 1..Len(rows) : i # k => \E j \in 1..(Len(rows) - 1) : f[j] = i
      <3> SUFFICES ASSUME NEW i \in 1..Len(rows), i # k
                   PROVE  \E j \in 1..(Len(rows) - 1) : f[j] = i
        OBVIOUS
      <3>1. CASE i < k
        BY <1>1, <2>2, <3>1
      <3>2. CASE i > k
        <4>1. i - 1 \in 1..(Len(rows) - 1) /\ ~(i - 1 < k) /\ (i - 1) + 1 = i
          BY <1>1, <2>2, <3>2
        <4>2. f[i - 1] = i
          BY <4>1
        <4>3. QED
          BY <4>1, <4>2
      <3>3. QED
        BY <1>1, <2>2, <3>1, <3>2
    <2>7. \A i, j \in 1..(Len(rows) - 1) : i < j => f[i] < f[j]
      BY <1>1, <2>2
    <2> HIDE DEF f
    <2>8. Survives(c, f)
      BY <1>1, <2>2, <2>3, <2>4, <2>5, <2>6, <2>7 DEF Survives
    <2>9. QED
      BY <2>1, <2>8
  <1>3. CASE Uncommitted(c) = {} /\ Closed(c) = Disowned(c)
    <2> DEFINE f == [j \in DOMAIN rows |-> j]
    <2>1. DOMAIN Closed(c) = DOMAIN rows /\ \A j \in DOMAIN rows : f[j] = j
      BY <1>3 DEF Disowned
    <2>2. Closed(c) \in Seq(Row)
      <3>1. \A i \in DOMAIN rows : [rows[i] EXCEPT !.owner = None] \in Row
        BY RowsAre DEF RowsInv, Row
      <3>2. Disowned(c) \in [DOMAIN rows -> Row]
        BY <3>1, RowsAre DEF RowsInv, Disowned
      <3>3. QED
        BY <1>3, <3>2, RewrittenRows DEF RowsInv
    <2> HIDE DEF f
    <2>3. Survives(c, f)
      BY <1>1, <1>3, <2>1 DEF Survives, Disowned, Uncommitted
    <2>4. QED
      BY <2>2, <2>3
  <1>4. QED
    BY <1>2, <1>3, ClosedRows DEF RowsInv

-----------------------------------------------------------------------------
(* Types, and who is at work on which row.                                 *)

\* The part of the invariant a step that ends a crawl can disturb.
LEMMA EndsKeepsRows ==
    ASSUME RowsInv, NEW c \in Crawlers, Ends(c),
           page' \in Pages, etag' \in Pages \cup {None},
           changes' \in 0..MaxChanges, disruptions' \in 0..MaxDisruptions,
           overlapped' \in BOOLEAN
    PROVE  RowsInv'
  <1>1. rows' \in Seq(Row) /\ rows' = Closed(c)
    BY Survivors DEF Ends
  <1>2. PICK f : Survives(c, f)
    BY Survivors
  <1>3. /\ pc' \in [Procs -> {"idle", "fetch", "notModified", "compare", "unchanged",
                              "insert", "result", "check", "extract"}]
        /\ sent' \in [Crawlers -> Pages \cup {None}]
        /\ body' \in [Crawlers -> Pages \cup {None}]
        /\ pc' = [pc EXCEPT ![c] = "idle"]
        /\ sent' = [sent EXCEPT ![c] = None] /\ body' = [body EXCEPT ![c] = None]
    BY DEF RowsInv, TypeOK, Ends, Goto
  <1>4. /\ Len(rows) \in Nat /\ DOMAIN rows = 1..Len(rows)
        /\ Len(rows') \in Nat /\ DOMAIN rows' = 1..Len(rows')
        /\ \A i \in DOMAIN rows : rows[i] \in Row
        /\ \A i \in DOMAIN rows' : rows'[i] \in Row
    BY <1>1, RowsAre, LenProperties, ElementOfSeq DEF RowsInv
  <1>5. \A j \in DOMAIN rows' :
            /\ f[j] \in DOMAIN rows
            /\ rows'[j].page = rows[f[j]].page
            /\ rows'[j].owner = IF rows[f[j]].owner = c THEN None ELSE rows[f[j]].owner
            /\ rows[f[j]].owner = c => rows[f[j]].page # None
    BY <1>1, <1>2, <1>4 DEF Survives, Row
  <1>6. c # None /\ c \in Procs
    BY PipelineConstantsOK DEF PipelineConstantsOK, Procs
  <1>7. TypeOK'
    <2>1. \A i \in DOMAIN rows' : rows'[i].page = None => rows'[i].owner # None
      BY <1>5, <1>6 DEF RowsInv, TypeOK
    <2>2. \A i, j \in DOMAIN rows' :
            i # j /\ rows'[i].owner = rows'[j].owner => rows'[i].owner = None
      <3> SUFFICES ASSUME NEW i \in DOMAIN rows', NEW j \in DOMAIN rows',
                          i # j, rows'[i].owner = rows'[j].owner, rows'[i].owner # None
                   PROVE  FALSE
        OBVIOUS
      <3>1. f[i] # f[j]
        BY <1>1, <1>2, <1>4 DEF Survives
      <3>2. rows[f[i]].owner = rows[f[j]].owner /\ rows[f[i]].owner # None
        BY <1>5
      <3>3. QED
        BY <1>5, <3>1, <3>2 DEF RowsInv, TypeOK
    <2>3. QED
      BY <1>3, <1>4, <2>1, <2>2 DEF TypeOK
  <1>8. Transactions'
    <2>1. \A i \in DOMAIN rows' : rows'[i].owner # None =>
            rows'[i].page = IF Committed(rows[i].owner)'
                            THEN body'[rows'[i].owner] ELSE None
      <3> SUFFICES ASSUME NEW i \in DOMAIN rows', rows'[i].owner # None
                   PROVE  rows'[i].page =
                            IF Committed(rows[i].owner)'
                            THEN body'[rows'[i].owner] ELSE None
        OBVIOUS
      <3>1. rows'[i].owner = rows[f[i]].owner /\ rows'[i].owner # c /\ rows'[i].owner \in Crawlers
        BY <1>4, <1>5, <1>6 DEF Row
      <3>2. /\ pc'[rows'[i].owner] = pc[rows'[i].owner]
            /\ body'[rows'[i].owner] = body[rows'[i].owner]
        BY <1>3, <3>1 DEF RowsInv, TypeOK, Procs
      <3>3. QED
        BY <1>5, <3>1, <3>2 DEF RowsInv, Transactions, Committed
    <2>2. ASSUME NEW d \in Crawlers
          PROVE  Holds(d)' <=> \E i \in DOMAIN rows' : rows'[i].owner = d
      <3>1. CASE d = c
        <4>1. ~Holds(d)'
          BY <1>3, <1>6, <3>1 DEF Holds, RowsInv, TypeOK
        <4>2. QED
          BY <1>5, <1>6, <3>1, <4>1
      <3>2. CASE d # c
        <4>1. Holds(d)' <=> Holds(d)
          BY <1>3, <3>2 DEF Holds, RowsInv, TypeOK, Procs
        <4>2. ASSUME NEW i \in DOMAIN rows', rows'[i].owner = d
              PROVE  \E j \in DOMAIN rows : rows[j].owner = d
          BY <1>5, <3>2, <4>2, PipelineConstantsOK DEF PipelineConstantsOK, Procs
        <4>3. ASSUME NEW i \in DOMAIN rows, rows[i].owner = d
              PROVE  \E j \in DOMAIN rows' : rows'[j].owner = d
          <5>1. PICK j \in DOMAIN rows' : f[j] = i
            BY <1>1, <1>2, <3>2, <4>3 DEF Survives
          <5>2. rows'[j].owner = d
            BY <1>5, <3>2, <4>3, <5>1
          <5>3. QED
            BY <5>2
        <4>4. QED
          BY <4>1, <4>2, <4>3 DEF RowsInv, Transactions
      <3>3. QED
        BY <3>1, <3>2
    <2>3. QED
      BY <2>1, <2>2 DEF Transactions
  <1>9. Fetched'
    BY <1>3, <1>6 DEF RowsInv, TypeOK, Fetched, Procs
  <1>10. QED
    BY <1>1, <1>7, <1>8, <1>9 DEF RowsInv

\* ... one that begins a transaction,
LEMMA OpensKeepsRows ==
    ASSUME RowsInv, NEW c \in Crawlers, ~Holds(c), rows' = OpensTransaction(c),
           \A d \in Crawlers \ {c} : pc'[d] = pc[d] /\ body'[d] = body[d],
           Holds(c)', ~Committed(c)'
    PROVE  rows' \in Seq(Row) /\ OneOwner' /\ Transactions'
  <1>1. /\ Len(rows) \in Nat /\ DOMAIN rows = 1..Len(rows)
        /\ \A i \in DOMAIN rows : rows[i] \in Row
    BY RowsAre DEF RowsInv
  <1>2. /\ rows' \in Seq(Row) /\ Len(rows') = Len(rows) + 1
        /\ DOMAIN rows' = 1..(Len(rows) + 1)
        /\ \A i \in DOMAIN rows : rows'[i] = rows[i]
        /\ rows'[Len(rows) + 1].owner = c /\ rows'[Len(rows) + 1].page = None
    <2>1. /\ OpensTransaction(c) \in Seq(Row)
          /\ Len(OpensTransaction(c)) = Len(rows) + 1
          /\ DOMAIN OpensTransaction(c) = 1..(Len(rows) + 1)
          /\ \A i \in DOMAIN rows : OpensTransaction(c)[i] = rows[i]
      BY OpenedRows DEF RowsInv
    <2>2. /\ OpensTransaction(c)[Len(rows) + 1].owner = c
          /\ OpensTransaction(c)[Len(rows) + 1].page = None
      <3>1. OpensTransaction(c)[Len(rows) + 1] =
                [page |-> None, owner |-> c, runs |-> 0, listed |-> {}, checked |-> {}]
        BY OpenedRows DEF RowsInv
      <3>2. QED
        BY <3>1
    <2>3. QED
      BY <2>1, <2>2
  <1>3. \A i \in DOMAIN rows : rows[i].owner # c
    BY DEF RowsInv, Transactions
  <1>4. c # None
    BY PipelineConstantsOK DEF PipelineConstantsOK, Procs
  <1>5. \A i \in DOMAIN rows' : i \in DOMAIN rows \/ i = Len(rows) + 1
    BY <1>1, <1>2
  <1>6. OneOwner'
    BY <1>2, <1>3, <1>4, <1>5 DEF RowsInv, TypeOK, OneOwner
  <1>7. \A i \in DOMAIN rows' : rows'[i].owner # None =>
            rows'[i].page = IF Committed(rows[i].owner)' THEN body'[rows'[i].owner] ELSE None
    <2> SUFFICES ASSUME NEW i \in DOMAIN rows', rows'[i].owner # None
                 PROVE  rows'[i].page =
                    IF Committed(rows[i].owner)' THEN body'[rows'[i].owner] ELSE None
      OBVIOUS
    <2>1. CASE i \in DOMAIN rows
      <3>1. /\ rows'[i] = rows[i] /\ rows[i].owner \in Crawlers \ {c}
            /\ pc'[rows[i].owner] = pc[rows[i].owner]
            /\ body'[rows[i].owner] = body[rows[i].owner]
        BY <1>1, <1>2, <1>3, <2>1 DEF Row
      <3>2. QED
        BY <2>1, <3>1 DEF RowsInv, Transactions, Committed
    <2>2. CASE i = Len(rows) + 1
      BY <1>2, <2>2
    <2>3. QED
      BY <1>5, <2>1, <2>2
  <1>8. ASSUME NEW d \in Crawlers
        PROVE  Holds(d)' <=> \E i \in DOMAIN rows' : rows'[i].owner = d
    <2>1. CASE d = c
      BY <1>1, <1>2, <2>1
    <2>2. CASE d # c
      <3>1. Holds(d)' <=> Holds(d)
        BY <2>2 DEF Holds
      <3>2. (\E i \in DOMAIN rows' : rows'[i].owner = d)
                <=> \E i \in DOMAIN rows : rows[i].owner = d
        BY <1>1, <1>2, <1>5, <2>2
      <3>3. QED
        BY <3>1, <3>2 DEF RowsInv, Transactions
    <2>3. QED
      BY <2>1, <2>2
  <1>9. QED
    BY <1>2, <1>6, <1>7, <1>8 DEF Transactions

\* ... and one that changes neither pages nor owners.
LEMMA SameOwnersKeepRows ==
    ASSUME RowsInv, rows' \in [DOMAIN rows -> Row],
           \A i \in DOMAIN rows : /\ rows'[i].owner = rows[i].owner
                                  /\ rows'[i].page = rows[i].page,
           \A c \in Crawlers : /\ Holds(c)' <=> Holds(c)
                               /\ Committed(c)' <=> Committed(c)
                               /\ Committed(c) => body'[c] = body[c]
    PROVE  rows' \in Seq(Row) /\ OneOwner' /\ Transactions'
  <1>1. rows' \in Seq(Row) /\ DOMAIN rows' = DOMAIN rows
    BY RewrittenRows DEF RowsInv
  <1>2. OneOwner'
    BY <1>1 DEF RowsInv, TypeOK, OneOwner
  <1>3. \A i \in DOMAIN rows : rows[i].owner # None => rows[i].owner \in Crawlers
    BY RowsAre DEF RowsInv, Row
  <1>4. Transactions'
    BY <1>1, <1>3 DEF RowsInv, Transactions
  <1>5. QED
    BY <1>1, <1>2, <1>4

\* What normalizers change of a row: who has listed and checked it, and the
\* committed extractions.
Touched(r, s) ==
    /\ s.owner = r.owner /\ s.page = r.page
    /\ \/ s.runs = r.runs /\ s.checked \subseteq r.checked
       \/ s.runs = r.runs /\ r.runs = 0
       \/ \E n \in r.checked : s.checked = r.checked \ {n} /\ s.runs = r.runs + 1

LEMMA NormalizersRewrite ==
    ASSUME rows \in Seq(Row), NEW n \in Normalizers, NormalizerStep(n) \/ CrashNormalizer(n)
    PROVE  /\ rows' \in [DOMAIN rows -> Row]
           /\ \A i \in DOMAIN rows : Touched(rows[i], rows'[i])
  <1>1. rows \in [DOMAIN rows -> Row] /\ \A i \in DOMAIN rows : rows[i] \in Row
    BY RowsAre, LenProperties
  <1>2. CASE ListUnprocessed(n)
    <2>1. \A i \in DOMAIN rows : [rows[i] EXCEPT !.listed = @ \cup {n}] \in Row
      BY <1>1 DEF Row
    <2>2. QED
      BY <1>1, <1>2, <2>1 DEF ListUnprocessed, Touched, Row
  <1>3. ASSUME NEW i \in DOMAIN rows, CheckListed(n, i)
        PROVE  /\ rows' \in [DOMAIN rows -> Row]
               /\ \A j \in DOMAIN rows : Touched(rows[j], rows'[j])
    <2> DEFINE r == [rows[i] EXCEPT !.listed = @ \ {n},
                        !.checked = IF Unprocessed(rows[i]) THEN @ \cup {n} ELSE @]
    <2>1. r \in Row /\ Touched(rows[i], r)
      BY <1>1 DEF Row, Touched, Unprocessed
    <2>2. rows' = [rows EXCEPT ![i] = r]
      BY <1>3 DEF CheckListed
    <2>3. \A j \in DOMAIN rows : Touched(rows[j], rows[j])
      BY DEF Touched
    <2> HIDE DEF r
    <2>4. QED
      BY <1>1, <2>1, <2>2, <2>3
  <1>4. ASSUME NEW i \in DOMAIN rows, ExtractListed(n, i)
        PROVE  /\ rows' \in [DOMAIN rows -> Row]
               /\ \A j \in DOMAIN rows : Touched(rows[j], rows'[j])
    <2> DEFINE r == [rows[i] EXCEPT !.checked = @ \ {n}, !.runs = @ + 1]
    <2>1. r \in Row /\ Touched(rows[i], r)
      <3>1. rows[i] \in Row /\ n \in rows[i].checked
        BY <1>1, <1>4 DEF ExtractListed
      <3>2. rows[i].runs + 1 \in Nat /\ rows[i].checked \ {n} \in SUBSET Normalizers
        BY <3>1 DEF Row
      <3>3. /\ r \in Row /\ r.owner = rows[i].owner /\ r.page = rows[i].page
            /\ r.checked = rows[i].checked \ {n} /\ r.runs = rows[i].runs + 1
        BY <3>1, <3>2 DEF Row
      <3> HIDE DEF r
      <3>4. QED
        BY <3>1, <3>3 DEF Touched
    <2>2. rows' = [rows EXCEPT ![i] = r]
      BY <1>4 DEF ExtractListed
    <2>3. \A j \in DOMAIN rows : Touched(rows[j], rows[j])
      BY DEF Touched
    <2> HIDE DEF r
    <2>4. QED
      BY <1>1, <2>1, <2>2, <2>3
  <1>5. CASE CrashNormalizer(n)
    <2>1. \A i \in DOMAIN rows :
            [rows[i] EXCEPT !.listed = @ \ {n}, !.checked = @ \ {n}] \in Row
      BY <1>1 DEF Row
    <2>2. QED
      BY <1>1, <1>5, <2>1 DEF CrashNormalizer, Touched, Row
  <1>6. QED
    BY <1>2, <1>3, <1>4, <1>5 DEF NormalizerStep

LEMMA RowsInitially == ASSUME Init PROVE RowsInv
  <1>1. rows \in Seq(Row) /\ DOMAIN rows = {}
    BY EmptySeq DEF Init
  <1>2. TypeOK
    <2>1. 0 \in 0..MaxChanges /\ 0 \in 0..MaxDisruptions
      BY PipelineConstantsOK DEF PipelineConstantsOK
    <2>2. QED
      BY <1>1, <2>1 DEF Init, TypeOK
  <1>3. Transactions
    BY <1>1 DEF Init, Transactions, Holds, Procs
  <1>4. Fetched
    BY DEF Init, Fetched, Procs
  <1>5. QED
    BY <1>1, <1>2, <1>3, <1>4 DEF RowsInv

LEMMA RowsKept == ASSUME RowsInv, [Next]_vars PROVE RowsInv'
  <1> USE DEF RowsInv
  <1> USE PipelineConstantsOK DEF PipelineConstantsOK
  <1>0. /\ Len(rows) \in Nat /\ DOMAIN rows = 1..Len(rows)
        /\ rows \in [DOMAIN rows -> Row] /\ OneOwner
    BY RowsAre, LenProperties DEF TypeOK, OneOwner
  <1>1. ASSUME NEW c \in Crawlers, BeginCrawl(c) PROVE RowsInv'
    <2>1. rows' \in Seq(Row) /\ OneOwner' /\ Transactions'
      <3>1. CASE c \in JobCrawlers
        <4>1. ~Holds(c) /\ Holds(c)' /\ ~Committed(c)'
          BY <1>1, <3>1 DEF BeginCrawl, Goto, Holds, Committed, TypeOK, Procs
        <4>2. \A d \in Crawlers \ {c} : pc'[d] = pc[d] /\ body'[d] = body[d]
          BY <1>1 DEF BeginCrawl, Goto, TypeOK, Procs
        <4>3. QED
          BY <1>1, <3>1, <4>1, <4>2, OpensKeepsRows DEF BeginCrawl
      <3>2. CASE c \notin JobCrawlers
        <4>1. \A d \in Crawlers : /\ Holds(d)' <=> Holds(d)
                                  /\ Committed(d)' <=> Committed(d)
                                  /\ body'[d] = body[d]
          BY <1>1, <3>2 DEF BeginCrawl, Goto, Holds, Committed, TypeOK, Procs
        <4>2. rows' = rows
          BY <1>1, <3>2 DEF BeginCrawl
        <4>3. QED
          BY <1>0, <4>1, <4>2, SameOwnersKeepRows
      <3>3. QED
        BY <3>1, <3>2
    <2>2. /\ pc' \in [Procs -> {"idle", "fetch", "notModified", "compare", "unchanged",
                                "insert", "result", "check", "extract"}]
          /\ sent' \in [Crawlers -> Pages \cup {None}] /\ overlapped' \in BOOLEAN
      BY <1>1 DEF BeginCrawl, Goto, TypeOK
    <2>3. TypeOK'
      BY <1>1, <2>1, <2>2, LenProperties, ElementOfSeq DEF BeginCrawl, TypeOK, OneOwner
    <2>4. Fetched'
      BY <1>1 DEF BeginCrawl, Goto, TypeOK, Fetched, Crawlers, Procs
    <2>5. QED
      BY <2>1, <2>3, <2>4
  <1>2. ASSUME NEW c \in Crawlers, Fetch(c) PROVE RowsInv'
    <2>1. pc[c] = "fetch" /\ pc'[c] \in {"notModified", "compare"} /\ body'[c] = page
          /\ \A d \in Crawlers \ {c} : pc'[d] = pc[d] /\ body'[d] = body[d]
      BY <1>2 DEF Fetch, Goto, TypeOK, Procs
    <2>2. \A d \in Crawlers : /\ Holds(d)' <=> Holds(d)
                              /\ Committed(d)' <=> Committed(d)
                              /\ Committed(d) => body'[d] = body[d]
      BY <2>1 DEF Holds, Committed
    <2>3. rows' = rows
      BY <1>2 DEF Fetch
    <2>4. rows' \in Seq(Row) /\ OneOwner' /\ Transactions'
      BY <1>0, <2>2, <2>3, SameOwnersKeepRows
    <2>5. TypeOK'
      BY <1>2 DEF Fetch, Goto, TypeOK
    <2>6. Fetched'
      BY <1>2, <2>1 DEF Fetch, TypeOK, Fetched
    <2>7. QED
      BY <2>4, <2>5, <2>6
  <1>3. ASSUME NEW c \in Crawlers, FetchFails(c) PROVE RowsInv'
    <2>1. disruptions' \in 0..MaxDisruptions
      BY <1>3 DEF FetchFails, TypeOK
    <2>2. QED
      BY <1>3, <2>1, EndsKeepsRows DEF FetchFails, TypeOK
  <1>4. ASSUME NEW c \in Crawlers, RecordsNoChange(c) PROVE RowsInv'
    <2>1. etag' \in Pages \cup {None}
      BY <1>4 DEF RecordsNoChange, SavesValidators, TypeOK
    <2>2. QED
      BY <1>4, <2>1, EndsKeepsRows DEF RecordsNoChange, TypeOK
  <1>5. ASSUME NEW c \in Crawlers, Compare(c) PROVE RowsInv'
    <2>1. pc[c] = "compare" /\ pc'[c] \in {"unchanged", "insert"} /\ body' = body
          /\ \A d \in Crawlers \ {c} : pc'[d] = pc[d]
      BY <1>5 DEF Compare, Goto, TypeOK, Procs
    <2>2. rows' \in Seq(Row) /\ OneOwner' /\ Transactions'
      <3>1. CASE c \in SourceCrawlers
        <4>1. ~Holds(c) /\ Holds(c)' /\ ~Committed(c)'
          BY <2>1, <3>1 DEF Holds, Committed
        <4>2. QED
          BY <1>5, <2>1, <3>1, <4>1, OpensKeepsRows DEF Compare
      <3>2. CASE c \notin SourceCrawlers
        <4>1. \A d \in Crawlers : /\ Holds(d)' <=> Holds(d)
                                  /\ Committed(d)' <=> Committed(d)
                                  /\ body'[d] = body[d]
          BY <2>1, <3>2 DEF Holds, Committed, Crawlers
        <4>2. rows' = rows
          BY <1>5, <3>2 DEF Compare
        <4>3. QED
          BY <1>0, <4>1, <4>2, SameOwnersKeepRows
      <3>3. QED
        BY <3>1, <3>2
    <2>3. pc' \in [Procs -> {"idle", "fetch", "notModified", "compare", "unchanged",
                             "insert", "result", "check", "extract"}]
      BY <1>5 DEF Compare, Goto, TypeOK
    <2>4. TypeOK'
      BY <1>5, <2>2, <2>3, LenProperties, ElementOfSeq DEF Compare, TypeOK, OneOwner
    <2>5. Fetched'
      BY <1>5, <2>1 DEF Compare, Fetched
    <2>6. QED
      BY <2>2, <2>4, <2>5
  <1>6. ASSUME NEW c \in Crawlers, InsertDocument(c) PROVE RowsInv'
    <2>1. pc[c] = "insert" /\ pc'[c] = "result" /\ body' = body /\ body[c] \in Pages
          /\ \A d \in Crawlers \ {c} : pc'[d] = pc[d]
      BY <1>6 DEF InsertDocument, Goto, TypeOK, Fetched, Procs
    <2>2. \A i \in DOMAIN rows : [rows[i] EXCEPT !.page = body[c]] \in Row
      BY <1>0, <2>1 DEF Row
    <2>3. rows' \in [DOMAIN rows -> Row]
      BY <1>0, <1>6, <2>2 DEF InsertDocument
    <2>4. rows' \in Seq(Row) /\ DOMAIN rows' = DOMAIN rows
      BY <2>3, RewrittenRows
    <2>5. \A i \in DOMAIN rows :
            /\ rows'[i].owner = rows[i].owner
            /\ rows'[i].page = IF rows[i].owner = c THEN body[c] ELSE rows[i].page
            /\ rows[i].owner \in Crawlers \cup {None}
      BY <1>0, <1>6, <2>4 DEF InsertDocument, Row
    <2>6. OneOwner'
      BY <1>0, <2>1, <2>4, <2>5 DEF OneOwner
    <2>7. \A d \in Crawlers : /\ Holds(d)' <=> Holds(d)
                              /\ Committed(d)' <=> (d = c \/ Committed(d))
      BY <2>1 DEF Holds, Committed
    <2>8. Transactions'
      BY <2>1, <2>4, <2>5, <2>7 DEF Transactions
    <2>9. TypeOK'
      <3>1. pc' \in [Procs -> {"idle", "fetch", "notModified", "compare", "unchanged",
                               "insert", "result", "check", "extract"}]
        BY <1>6 DEF InsertDocument, Goto, TypeOK
      <3>2. QED
        BY <1>6, <2>3, <2>4, <2>6, <3>1 DEF InsertDocument, TypeOK, OneOwner
    <2>10. Fetched'
      BY <1>6, <2>1 DEF InsertDocument, Fetched
    <2>11. QED
      BY <2>4, <2>8, <2>9, <2>10
  <1>7. ASSUME NEW c \in Crawlers, RecordsChange(c) PROVE RowsInv'
    <2>1. pc[c] = "result" /\ pc'[c] = "check" /\ body' = body
          /\ \A d \in Crawlers \ {c} : pc'[d] = pc[d]
      BY <1>7 DEF RecordsChange, Goto, TypeOK, Procs
    <2>2. \A d \in Crawlers : (Holds(d)' <=> Holds(d)) /\ (Committed(d)' <=> Committed(d))
      BY <2>1 DEF Holds, Committed
    <2>3. Transactions'
      BY <1>0, <1>7, <2>1, <2>2, SameOwnersKeepRows DEF RecordsChange
    <2>4. TypeOK'
      BY <1>7 DEF RecordsChange, SavesValidators, Goto, TypeOK
    <2>5. Fetched'
      BY <1>7, <2>1 DEF RecordsChange, Fetched
    <2>6. QED
      BY <1>7, <2>3, <2>4, <2>5 DEF RecordsChange
  <1>8. ASSUME NEW c \in Crawlers, CheckOwn(c) PROVE RowsInv'
    <2>1. CASE Goto(c, "extract") /\ UNCHANGED <<rows, sent, body>>
      <3>1. pc[c] = "check" /\ pc'[c] = "extract" /\ body' = body
            /\ \A d \in Crawlers \ {c} : pc'[d] = pc[d]
        BY <1>8, <2>1 DEF CheckOwn, Goto, TypeOK, Procs
      <3>2. \A d \in Crawlers : (Holds(d)' <=> Holds(d)) /\ (Committed(d)' <=> Committed(d))
        BY <3>1 DEF Holds, Committed
      <3>3. Transactions'
        BY <1>0, <2>1, <3>1, <3>2, SameOwnersKeepRows
      <3>4. TypeOK'
        BY <1>8, <2>1 DEF CheckOwn, Goto, TypeOK
      <3>5. Fetched'
        BY <2>1, <3>1 DEF Fetched
      <3>6. QED
        BY <2>1, <3>3, <3>4, <3>5
    <2>2. CASE Ends(c)
      BY <1>8, <2>2, EndsKeepsRows DEF CheckOwn, TypeOK
    <2>3. QED
      BY <1>8, <2>1, <2>2 DEF CheckOwn
  <1>9. ASSUME NEW c \in Crawlers, ExtractOwn(c) PROVE RowsInv'
    <2>1. pc[c] = "extract" /\ pc'[c] = "idle"
          /\ \A d \in Crawlers \ {c} : pc'[d] = pc[d] /\ body'[d] = body[d]
      BY <1>9 DEF ExtractOwn, Goto, TypeOK, Procs
    <2>2. \A i \in DOMAIN rows :
            [rows[i] EXCEPT !.owner = None, !.runs = @ + 1] \in Row
      <3>1. \A r \in Row : [r EXCEPT !.owner = None, !.runs = @ + 1] \in Row
        <4> TAKE r \in Row
        <4>1. r.runs + 1 \in Nat
          BY DEF Row
        <4>2. QED
          BY <4>1 DEF Row
      <3>2. QED
        BY <1>0, <3>1
    <2>3. rows' \in [DOMAIN rows -> Row]
      BY <1>0, <1>9, <2>2 DEF ExtractOwn
    <2>4. rows' \in Seq(Row) /\ DOMAIN rows' = DOMAIN rows
      BY <2>3, RewrittenRows
    <2>5. \A i \in DOMAIN rows :
            /\ rows'[i].owner = IF rows[i].owner = c THEN None ELSE rows[i].owner
            /\ rows'[i].page = rows[i].page
            /\ rows[i].owner \in Crawlers \cup {None}
            /\ rows[i].owner = c => rows[i].page # None
      <3>1. \A i \in DOMAIN rows : rows[i].owner = c => rows[i].page = body[c]
        BY <2>1 DEF Transactions, Committed, Procs
      <3>2. body[c] \in Pages
        BY <2>1 DEF Fetched
      <3>3. \A i \in DOMAIN rows :
                rows'[i] = IF rows[i].owner = c
                           THEN [rows[i] EXCEPT !.owner = None, !.runs = @ + 1] ELSE rows[i]
        BY <1>9 DEF ExtractOwn
      <3>4. \A r \in Row :
                /\ [r EXCEPT !.owner = None, !.runs = @ + 1].owner = None
                /\ [r EXCEPT !.owner = None, !.runs = @ + 1].page = r.page
                /\ r.owner \in Crawlers \cup {None}
        BY DEF Row
      <3>5. body[c] # None
        BY <3>2, PipelineConstantsOK DEF PipelineConstantsOK
      <3>6. ASSUME NEW i \in DOMAIN rows
            PROVE  /\ rows'[i].owner = IF rows[i].owner = c THEN None ELSE rows[i].owner
                   /\ rows'[i].page = rows[i].page
                   /\ rows[i].owner \in Crawlers \cup {None}
        <4>1. rows[i] \in Row
          BY <1>0
        <4>2. CASE rows[i].owner = c
          BY <3>3, <3>4, <4>1, <4>2
        <4>3. CASE rows[i].owner # c
          BY <3>3, <3>4, <4>1, <4>3
        <4>4. QED
          BY <4>2, <4>3
      <3>7. QED
        BY <3>1, <3>5, <3>6
    <2>6. OneOwner'
      BY <1>0, <2>4, <2>5 DEF OneOwner
    <2>7. /\ ~Holds(c)'
          /\ \A d \in Crawlers \ {c} : /\ Holds(d)' <=> Holds(d)
                                       /\ Committed(d)' <=> Committed(d)
      BY <2>1 DEF Holds, Committed
    <2>8. c # None
      BY DEF Procs
    <2>9. Transactions'
      <3>1. ASSUME NEW d \in Crawlers
            PROVE  Holds(d)' <=> \E i \in DOMAIN rows' : rows'[i].owner = d
        BY <2>4, <2>5, <2>7, <2>8 DEF Transactions, Procs
      <3>2. \A i \in DOMAIN rows' : rows'[i].owner # None =>
                /\ rows'[i].owner = rows[i].owner /\ rows[i].owner \in Crawlers \ {c}
                /\ rows'[i].page = rows[i].page
        BY <2>4, <2>5
      <3>3. QED
        BY <2>1, <2>4, <2>7, <3>1, <3>2 DEF Transactions
    <2>10. TypeOK'
      <3>1. pc' \in [Procs -> {"idle", "fetch", "notModified", "compare", "unchanged",
                               "insert", "result", "check", "extract"}]
        BY <1>9 DEF ExtractOwn, Goto, TypeOK
      <3>2. sent' \in [Crawlers -> Pages \cup {None}] /\ body' \in [Crawlers -> Pages \cup {None}]
        BY <1>9 DEF ExtractOwn, TypeOK
      <3>3. QED
        BY <1>9, <2>3, <2>4, <2>6, <3>1, <3>2 DEF ExtractOwn, TypeOK, OneOwner
    <2>11. Fetched'
      BY <1>9, <2>1 DEF ExtractOwn, TypeOK, Fetched
    <2>12. QED
      BY <2>4, <2>9, <2>10, <2>11
  <1>10. ASSUME NEW c \in Crawlers, CrashCrawler(c) PROVE RowsInv'
    <2>1. disruptions' \in 0..MaxDisruptions
      BY <1>10 DEF CrashCrawler, TypeOK
    <2>2. QED
      BY <1>10, <2>1, EndsKeepsRows DEF CrashCrawler, TypeOK
  <1>11. ASSUME NEW n \in Normalizers, NormalizerStep(n) \/ CrashNormalizer(n),
                rows' \in [DOMAIN rows -> Row],
                \A i \in DOMAIN rows : /\ rows'[i].owner = rows[i].owner
                                       /\ rows'[i].page = rows[i].page
         PROVE  RowsInv'
    <2>1. /\ UNCHANGED <<page, changes, etag, sent, body, overlapped>>
          /\ disruptions' \in 0..MaxDisruptions
          /\ \E l \in {"idle", "check", "extract"} : pc' = [pc EXCEPT ![n] = l]
      <3>1. CASE ListUnprocessed(n)
        BY <3>1 DEF ListUnprocessed, Goto, TypeOK
      <3>2. ASSUME NEW i \in DOMAIN rows, CheckListed(n, i) PROVE <2>1!:
        BY <3>2 DEF CheckListed, Goto, TypeOK
      <3>3. ASSUME NEW i \in DOMAIN rows, ExtractListed(n, i) PROVE <2>1!:
        BY <3>3 DEF ExtractListed, Goto, TypeOK
      <3>4. CASE CrashNormalizer(n)
        <4>1. disruptions' \in 0..MaxDisruptions
          <5>1. disruptions < MaxDisruptions /\ disruptions' = disruptions + 1
            BY <3>4 DEF CrashNormalizer
          <5>2. disruptions \in 0..MaxDisruptions
            BY DEF TypeOK
          <5>3. QED
            BY <5>1, <5>2
        <4>2. QED
          BY <3>4, <4>1 DEF CrashNormalizer, Goto
      <3>5. QED
        BY <1>11, <3>1, <3>2, <3>3, <3>4 DEF NormalizerStep
    <2>2. \A d \in Crawlers : pc'[d] = pc[d]
      BY <2>1 DEF TypeOK
    <2>3. \A d \in Crawlers : (Holds(d)' <=> Holds(d)) /\ (Committed(d)' <=> Committed(d))
      BY <2>2 DEF Holds, Committed
    <2>4. rows' \in Seq(Row) /\ OneOwner' /\ Transactions'
      BY <1>11, <2>1, <2>3, SameOwnersKeepRows
    <2>5. pc' \in [Procs -> {"idle", "fetch", "notModified", "compare", "unchanged",
                             "insert", "result", "check", "extract"}]
      BY <2>1 DEF TypeOK
    <2>6. TypeOK'
      BY <2>1, <2>4, <2>5, LenProperties, ElementOfSeq DEF TypeOK, OneOwner
    <2>7. Fetched'
      BY <2>1, <2>2 DEF Fetched
    <2>8. QED
      BY <2>4, <2>6, <2>7
  <1>12. ASSUME NEW n \in Normalizers, NormalizerStep(n) \/ CrashNormalizer(n)
         PROVE  RowsInv'
    <2>1. rows' \in [DOMAIN rows -> Row] /\ \A i \in DOMAIN rows :
              rows'[i].owner = rows[i].owner /\ rows'[i].page = rows[i].page
      BY <1>12, NormalizersRewrite DEF Touched
    <2>2. QED
      BY <1>11, <1>12, <2>1
  <1>13. ASSUME NEW p \in Pages, PageChanges(p) PROVE RowsInv'
    BY <1>13 DEF PageChanges, TypeOK, Transactions, Holds, Committed, Fetched
  <1>14. CASE UNCHANGED vars
    BY <1>14 DEF vars, TypeOK, Transactions, Holds, Committed, Fetched
  <1>15. QED
    BY <1>1, <1>2, <1>3, <1>4, <1>5, <1>6, <1>7, <1>8, <1>9, <1>10, <1>12, <1>13, <1>14
       DEF Next, CrawlStep

-----------------------------------------------------------------------------
(* What a crawler vouches for is stored.                                   *)

\* A stored page stays stored, whichever way the rows move.
LEMMA StoredStays ==
    ASSUME RowsInv, [Next]_vars, NEW p \in Pages, Stored(p)
    PROVE  Stored(p)'
  <1> USE DEF RowsInv
  <1>0. PICK i \in DOMAIN rows : rows[i].page = p
    BY DEF Stored, Documents
  <1>1. p # None /\ rows \in [DOMAIN rows -> Row] /\ DOMAIN rows = 1..Len(rows)
    BY RowsAre, LenProperties, PipelineConstantsOK DEF PipelineConstantsOK
  <1>2. ASSUME NEW j \in DOMAIN rows', rows'[j].page = p PROVE Stored(p)'
    BY <1>1, <1>2 DEF Stored, Documents
  <1>3. CASE rows' = rows
    BY <1>0, <1>2, <1>3
  <1>4. ASSUME NEW c \in Crawlers, Ends(c) PROVE Stored(p)'
    <2>1. PICK f : Survives(c, f)
      BY Survivors
    <2>2. PICK j \in DOMAIN Closed(c) : f[j] = i
      BY <1>0, <1>1, <2>1 DEF Survives
    <2>3. Closed(c)[j].page = p
      <3>1. Closed(c)[j] = IF rows[i].owner = c
                           THEN [rows[i] EXCEPT !.owner = None] ELSE rows[i]
        BY <2>1, <2>2 DEF Survives
      <3>2. rows[i] \in Row
        BY <1>0, <1>1
      <3>3. QED
        BY <1>0, <3>1, <3>2 DEF Row
    <2>4. QED
      BY <1>2, <1>4, <2>2, <2>3 DEF Ends
  <1>5. ASSUME NEW c \in Crawlers, rows' = OpensTransaction(c) PROVE Stored(p)'
    <2>1. OpensTransaction(c)[i] = rows[i] /\ i \in DOMAIN OpensTransaction(c)
      <3>1. i \in 1..(Len(rows) + 1)
        BY <1>0, <1>1, RowsAre
      <3>2. QED
        BY <1>1, <3>1, OpenedRows
    <2>2. QED
      BY <1>0, <1>2, <1>5, <2>1
  <1>6. ASSUME NEW c \in Crawlers, InsertDocument(c) PROVE Stored(p)'
    <2>1. rows[i].owner # c
      <3>1. pc[c] = "insert" /\ c # None
        BY <1>6, PipelineConstantsOK DEF InsertDocument, PipelineConstantsOK, Procs
      <3>2. rows[i].owner # None => (rows[i].page # None => Committed(rows[i].owner))
        BY DEF Transactions
      <3>3. QED
        BY <1>0, <1>1, <3>1, <3>2 DEF Committed
    <2>2. i \in DOMAIN rows' /\ rows'[i] = rows[i]
      BY <1>6, <2>1 DEF InsertDocument
    <2>3. QED
      BY <1>0, <1>2, <2>2
  <1>7. ASSUME NEW c \in Crawlers, ExtractOwn(c) PROVE Stored(p)'
    <2>1. i \in DOMAIN rows' /\ rows'[i].page = rows[i].page
      BY <1>1, <1>7 DEF ExtractOwn, Row
    <2>2. QED
      BY <1>0, <1>2, <2>1
  <1>8. ASSUME NEW n \in Normalizers, NormalizerStep(n) \/ CrashNormalizer(n)
        PROVE  Stored(p)'
    <2>1. i \in DOMAIN rows' /\ rows'[i].page = rows[i].page
      BY <1>1, <1>8, NormalizersRewrite DEF Touched
    <2>2. QED
      BY <1>0, <1>2, <2>1
  <1>9. QED
    <2>1. ASSUME NEW c \in Crawlers, CrawlStep(c) \/ FetchFails(c) \/ CrashCrawler(c)
          PROVE  Stored(p)'
      <3>1. \/ rows' = rows \/ rows' = OpensTransaction(c) \/ Ends(c)
            \/ InsertDocument(c) \/ ExtractOwn(c)
        BY <2>1 DEF CrawlStep, BeginCrawl, Fetch, FetchFails, RecordsNoChange, Compare,
                    RecordsChange, CheckOwn, CrashCrawler
      <3>2. QED
        BY <1>3, <1>4, <1>5, <1>6, <1>7, <3>1
    <2>2. ASSUME NEW q \in Pages, PageChanges(q) PROVE rows' = rows
      BY <2>2 DEF PageChanges
    <2>3. CASE UNCHANGED vars
      BY <1>3, <2>3 DEF vars
    <2>4. QED
      BY <1>3, <1>8, <2>1, <2>2, <2>3 DEF Next

LEMMA VouchKept == ASSUME VouchInv, RowsInv', [Next]_vars PROVE VouchInv'
  <1> USE DEF VouchInv
  <1>0. /\ \A p \in Pages : Stored(p) => Stored(p)'
        /\ etag # None => etag \in Pages /\ Stored(etag)
        /\ \A c \in Crawlers : sent[c] # None => sent[c] \in Pages /\ Stored(sent[c])
        /\ \A c \in Crawlers : pc[c] \in {"notModified", "unchanged", "result"} =>
                body[c] \in Pages /\ Stored(body[c])
    <2>1. \A p \in Pages : Stored(p) => Stored(p)'
      BY StoredStays
    <2>2. QED
      BY <2>1 DEF RowsInv, TypeOK, Fetched, AboutToVouch, ValidatorsVouch, Stored
  <1>1. ASSUME \A c \in Crawlers : sent'[c] = None \/ sent'[c] = sent[c] \/ sent'[c] = etag,
               etag' = etag \/ (etag' \in Pages /\ Stored(etag')),
               \A c \in Crawlers : pc'[c] \in {"notModified", "unchanged", "result"} =>
                    \/ body'[c] \in Pages /\ Stored(body'[c])
                    \/ body'[c] \in Pages /\ Stored(body[c])'
        PROVE  VouchInv'
    <2>1. ValidatorsVouch'
      BY <1>0, <1>1 DEF ValidatorsVouch, Stored
    <2>2. AboutToVouch'
      BY <1>0, <1>1 DEF AboutToVouch, Stored
    <2>3. QED
      BY <2>1, <2>2
  <1>2. ASSUME NEW c \in Crawlers, CrawlStep(c) \/ FetchFails(c) \/ CrashCrawler(c)
        PROVE  VouchInv'
    <2> USE PipelineConstantsOK DEF RowsInv, TypeOK, PipelineConstantsOK
    <2>0. c \in Procs /\ pc \in [Procs -> {"idle", "fetch", "notModified", "compare",
                "unchanged", "insert", "result", "check", "extract"}]
      BY DEF Procs
    <2>1. ASSUME NEW l, Goto(c, l), etag' = etag \/ (etag' \in Pages /\ Stored(etag')),
                 \A d \in Crawlers :
                    sent'[d] = None \/ sent'[d] = sent[d] \/ sent'[d] = etag,
                 \A d \in Crawlers \ {c} : body'[d] = body[d],
                 l \in {"notModified", "unchanged", "result"} =>
                    \/ body'[c] \in Pages /\ Stored(body'[c])
                    \/ body'[c] \in Pages /\ Stored(body[c])'
          PROVE  VouchInv'
      <3>1. pc'[c] = l /\ \A d \in Crawlers \ {c} : pc'[d] = pc[d]
        BY <2>0, <2>1 DEF Goto, Procs
      <3>2. ASSUME NEW d \in Crawlers, pc'[d] \in {"notModified", "unchanged", "result"}
            PROVE  \/ body'[d] \in Pages /\ Stored(body'[d])
                   \/ body'[d] \in Pages /\ Stored(body[d])'
        <4>1. CASE d = c
          BY <2>1, <3>1, <3>2, <4>1
        <4>2. CASE d # c
          <5>1. body'[d] = body[d] /\ pc'[d] = pc[d]
            BY <2>1, <3>1, <4>2
          <5>2. QED
            BY <1>0, <3>2, <5>1
        <4>3. QED
          BY <4>1, <4>2
      <3>3. QED
        BY <1>1, <2>1, <3>2
    <2>2. ASSUME Ends(c), etag' = etag \/ (etag' \in Pages /\ Stored(etag'))
          PROVE  VouchInv'
      <3>1. /\ Goto(c, "idle")
            /\ \A d \in Crawlers : sent'[d] = None \/ sent'[d] = sent[d]
            /\ \A d \in Crawlers \ {c} : body'[d] = body[d]
        BY <2>2 DEF Ends
      <3>2. QED
        BY <2>1, <2>2, <3>1
    <2>3. ASSUME SavesValidators(c), pc[c] \in {"notModified", "unchanged", "result"}
          PROVE  etag' = etag \/ (etag' \in Pages /\ Stored(etag'))
      BY <1>0, <2>3 DEF SavesValidators
    <2>4. CASE BeginCrawl(c)
      BY <2>1, <2>4 DEF BeginCrawl
    <2>5. CASE Fetch(c)
      <3>1. CASE sent[c] = page
        <4>1. Goto(c, "notModified") /\ body'[c] \in Pages /\ Stored(body'[c])
          BY <1>0, <2>5, <3>1 DEF Fetch
        <4>2. QED
          BY <2>1, <2>5, <4>1 DEF Fetch
      <3>2. CASE sent[c] # page
        <4>1. Goto(c, "compare")
          BY <2>5, <3>2 DEF Fetch
        <4>2. QED
          BY <2>1, <2>5, <4>1 DEF Fetch
      <3>3. QED
        BY <3>1, <3>2
    <2>6. CASE FetchFails(c)
      BY <2>2, <2>6 DEF FetchFails
    <2>7. CASE RecordsNoChange(c)
      BY <2>2, <2>3, <2>7 DEF RecordsNoChange
    <2>8. CASE Compare(c)
      <3>1. body' = body /\ sent' = sent /\ etag' = etag /\ body[c] \in Pages
        BY <2>8 DEF Compare, Fetched
      <3>2. CASE body[c] = LastStored
        <4>1. Documents # {}
          BY <3>1, <3>2 DEF LastStored
        <4>2. Stored(body[c])
          BY <3>2, <4>1, LastStoredIsNewest DEF Stored
        <4>3. Goto(c, "unchanged")
          BY <2>8, <3>2 DEF Compare
        <4>4. QED
          BY <2>1, <3>1, <4>2, <4>3
      <3>3. CASE body[c] # LastStored
        <4>1. Goto(c, "insert")
          BY <2>8, <3>3 DEF Compare
        <4>2. QED
          BY <2>1, <3>1, <4>1
      <3>4. QED
        BY <3>2, <3>3
    <2>9. CASE InsertDocument(c)
      <3>1. body' = body /\ sent' = sent /\ etag' = etag /\ Goto(c, "result")
            /\ body[c] \in Pages /\ pc[c] = "insert"
        BY <2>9 DEF InsertDocument, Fetched
      <3>2. PICK i \in DOMAIN rows : rows[i].owner = c
        BY <3>1 DEF Transactions, Holds
      <3>3. i \in DOMAIN rows' /\ rows'[i].page = body[c]
        <4>1. rows[i] \in Row
          BY <3>2
        <4>2. QED
          BY <2>9, <3>2, <4>1 DEF InsertDocument, Row
      <3>4. Stored(body[c])'
        BY <3>1, <3>3 DEF Stored, Documents
      <3>5. QED
        BY <2>1, <3>1, <3>4
    <2>10. CASE RecordsChange(c)
      <3>1. etag' = etag \/ (etag' \in Pages /\ Stored(etag'))
        BY <2>3, <2>10 DEF RecordsChange
      <3>2. QED
        BY <2>1, <2>10, <3>1 DEF RecordsChange
    <2>11. CASE CheckOwn(c)
      <3>1. CASE Ends(c)
        BY <2>2, <2>11, <3>1 DEF CheckOwn
      <3>2. CASE Goto(c, "extract") /\ UNCHANGED <<rows, sent, body>>
        BY <2>1, <2>11, <3>2 DEF CheckOwn
      <3>3. QED
        BY <2>11, <3>1, <3>2 DEF CheckOwn
    <2>12. CASE ExtractOwn(c)
      BY <2>1, <2>12 DEF ExtractOwn
    <2>13. CASE CrashCrawler(c)
      BY <2>2, <2>13 DEF CrashCrawler
    <2>14. QED
      BY <1>2, <2>4, <2>5, <2>6, <2>7, <2>8, <2>9, <2>10, <2>11, <2>12, <2>13 DEF CrawlStep
  <1>3. ASSUME sent' = sent, etag' = etag, body' = body,
               \A c \in Crawlers : pc'[c] = pc[c]
        PROVE  VouchInv'
    BY <1>0, <1>1, <1>3
  <1>4. ASSUME NEW n \in Normalizers, NormalizerStep(n) \/ CrashNormalizer(n)
        PROVE  VouchInv'
    <2>1. sent' = sent /\ etag' = etag /\ body' = body /\ \E l : Goto(n, l)
      BY <1>4 DEF NormalizerStep, ListUnprocessed, CheckListed, ExtractListed, CrashNormalizer
    <2>2. \A c \in Crawlers : pc'[c] = pc[c]
      BY <2>1, PipelineConstantsOK DEF PipelineConstantsOK, Goto, RowsInv, TypeOK, Procs
    <2>3. QED
      BY <1>3, <2>1, <2>2
  <1>5. ASSUME NEW p \in Pages, PageChanges(p) PROVE VouchInv'
    BY <1>3, <1>5 DEF PageChanges
  <1>6. CASE UNCHANGED vars
    BY <1>3, <1>6 DEF vars
  <1>7. QED
    BY <1>2, <1>4, <1>5, <1>6 DEF Next

\* The conditional GET never hides content: for any crawlers, normalizers and
\* pages, whatever crashes and overlaps, the page that the validators of
\* crawl_targets, or those of a request under way, vouch for is stored.
THEOREM ValidatorsAlwaysVouch == Spec => []ValidatorsVouch
  <1>1. Init => VouchInv
    <2> SUFFICES ASSUME Init PROVE VouchInv
      OBVIOUS
    <2>1. AboutToVouch /\ ValidatorsVouch
      BY DEF Init, AboutToVouch, ValidatorsVouch, Procs
    <2>2. QED
      BY <2>1, RowsInitially DEF VouchInv
  <1>2. VouchInv /\ [Next]_vars => VouchInv'
    <2>1. VouchInv => RowsInv
      BY DEF VouchInv
    <2>2. QED
      BY <2>1, RowsKept, VouchKept
  <1>3. VouchInv => ValidatorsVouch
    BY DEF VouchInv
  <1>4. QED
    BY <1>1, <1>2, <1>3, PTL DEF Spec

-----------------------------------------------------------------------------
(* Each process extracts a document once at most.                          *)

LEMMA TouchedBounded ==
    ASSUME IsFiniteSet(Normalizers), NEW r \in Row, NEW s \in Row,
           RowBounded(r), Touched(r, s)
    PROVE  RowBounded(s)
  <1>1. /\ IsFiniteSet(r.checked) /\ IsFiniteSet(s.checked) /\ r.runs \in Nat /\ s.runs \in Nat
        /\ Cardinality(r.checked) \in Nat /\ Cardinality(s.checked) \in Nat
        /\ Cardinality(Normalizers) \in Nat
        /\ Cardinality(r.checked) <= Cardinality(Normalizers)
    BY FS_Subset, FS_CardinalityType DEF Row
  <1>2. CASE s.runs = r.runs /\ s.checked \subseteq r.checked
    <2>1. Cardinality(s.checked) <= Cardinality(r.checked)
      BY <1>1, <1>2, FS_Subset
    <2>2. s.owner = r.owner
      BY DEF Touched
    <2>3. QED
      BY <1>1, <1>2, <2>1, <2>2 DEF RowBounded, Pending
  <1>3. CASE s.runs = r.runs /\ r.runs = 0
    BY <1>3 DEF RowBounded
  <1>4. ASSUME NEW n \in r.checked, s.checked = r.checked \ {n}, s.runs = r.runs + 1
        PROVE  RowBounded(s)
    <2>1. Cardinality(s.checked) = Cardinality(r.checked) - 1
      BY <1>1, <1>4, FS_RemoveElement
    <2>2. s.owner = r.owner
      BY DEF Touched
    <2>3. QED
      BY <1>1, <1>4, <2>1, <2>2 DEF RowBounded, Pending
  <1>5. QED
    BY <1>2, <1>3, <1>4 DEF Touched

\* The crawler that stored a document leaves it, having extracted it or not.
LEMMA LeftBounded ==
    ASSUME IsFiniteSet(Normalizers), NEW r \in Row, NEW s \in Row, RowBounded(r),
           s.checked = r.checked, s.owner = None,
           s.runs = r.runs \/ (r.owner # None /\ s.runs = r.runs + 1)
    PROVE  RowBounded(s)
  <1>1. /\ r.runs \in Nat /\ Cardinality(r.checked) \in Nat /\ Cardinality(Normalizers) \in Nat
        /\ Cardinality(r.checked) <= Cardinality(Normalizers)
    BY FS_Subset, FS_CardinalityType DEF Row
  <1>2. QED
    BY <1>1 DEF RowBounded, Pending

LEMMA BoundedKept ==
    ASSUME RowsInv, RowsInv', RowsBounded, IsFiniteSet(Normalizers), [Next]_vars
    PROVE  RowsBounded'
  <1> USE DEF RowsInv
  <1>0. /\ \A i \in DOMAIN rows : rows[i] \in Row
        /\ \A i \in DOMAIN rows' : rows'[i] \in Row
        /\ DOMAIN rows = 1..Len(rows) /\ Len(rows) \in Nat
    BY LenProperties, ElementOfSeq
  <1>1. CASE rows' = rows
    BY <1>1 DEF RowsBounded
  <1>2. ASSUME NEW c \in Crawlers, Ends(c) PROVE RowsBounded'
    <2>1. PICK f : Survives(c, f)
      BY Survivors
    <2>2. ASSUME NEW j \in DOMAIN rows' PROVE RowBounded(rows'[j])
      <3>1. PICK i \in DOMAIN rows :
                rows'[j] = IF rows[i].owner = c
                           THEN [rows[i] EXCEPT !.owner = None] ELSE rows[i]
        BY <1>2, <2>1 DEF Ends, Survives
      <3>2. CASE rows[i].owner = c
        <4>1. rows[i] \in Row /\ RowBounded(rows[i]) /\ rows'[j] \in Row
          BY <1>0 DEF RowsBounded
        <4>2. /\ rows'[j].checked = rows[i].checked /\ rows'[j].owner = None
              /\ rows'[j].runs = rows[i].runs
          BY <3>1, <3>2, <4>1 DEF Row
        <4>3. QED
          BY <4>1, <4>2, LeftBounded
      <3>3. CASE rows[i].owner # c
        BY <3>1, <3>3 DEF RowsBounded
      <3>4. QED
        BY <3>2, <3>3
    <2>3. QED
      BY <2>2 DEF RowsBounded
  <1>3. ASSUME NEW c \in Crawlers, rows' = OpensTransaction(c) PROVE RowsBounded'
    <2>1. DOMAIN rows' = 1..(Len(rows) + 1) /\ \A i \in DOMAIN rows : rows'[i] = rows[i]
      BY <1>3, OpenedRows
    <2>2. rows'[Len(rows) + 1].runs = 0
      <3>1. OpensTransaction(c)[Len(rows) + 1] =
                [page |-> None, owner |-> c, runs |-> 0, listed |-> {}, checked |-> {}]
        BY OpenedRows
      <3>2. QED
        BY <1>3, <3>1
    <2>3. ASSUME NEW j \in DOMAIN rows' PROVE RowBounded(rows'[j])
      <3>1. j \in DOMAIN rows \/ j = Len(rows) + 1
        BY <1>0, <2>1
      <3>2. QED
        BY <2>1, <2>2, <3>1 DEF RowsBounded, RowBounded
    <2>4. QED
      BY <2>3 DEF RowsBounded
  <1>4. ASSUME NEW c \in Crawlers, InsertDocument(c) PROVE RowsBounded'
    <2>1. \A i \in DOMAIN rows : /\ rows'[i].runs = rows[i].runs
                                 /\ rows'[i].checked = rows[i].checked
                                 /\ rows'[i].owner = rows[i].owner
      BY <1>0, <1>4 DEF InsertDocument, Row
    <2>2. DOMAIN rows' = DOMAIN rows
      BY <1>4 DEF InsertDocument
    <2>3. QED
      BY <2>1, <2>2 DEF RowsBounded, RowBounded, Pending
  <1>5. ASSUME NEW c \in Crawlers, ExtractOwn(c) PROVE RowsBounded'
    <2>1. DOMAIN rows' = DOMAIN rows
      BY <1>5 DEF ExtractOwn
    <2>2. ASSUME NEW i \in DOMAIN rows PROVE RowBounded(rows'[i])
      <3>1. CASE rows[i].owner = c
        <4>1. /\ rows[i] \in Row /\ rows'[i] \in Row /\ RowBounded(rows[i])
              /\ rows[i].owner # None
          BY <1>0, <2>1, <3>1, PipelineConstantsOK DEF RowsBounded, PipelineConstantsOK, Procs
        <4>2. rows'[i] = [rows[i] EXCEPT !.owner = None, !.runs = @ + 1]
          BY <1>5, <3>1 DEF ExtractOwn
        <4>3. /\ rows'[i].checked = rows[i].checked /\ rows'[i].owner = None
              /\ rows'[i].runs = rows[i].runs + 1
          BY <4>1, <4>2 DEF Row
        <4>4. QED
          BY <4>1, <4>3, LeftBounded
      <3>2. CASE rows[i].owner # c
        BY <1>5, <3>2 DEF ExtractOwn, RowsBounded
      <3>3. QED
        BY <3>1, <3>2
    <2>3. QED
      BY <2>1, <2>2 DEF RowsBounded
  <1>6. ASSUME NEW n \in Normalizers, NormalizerStep(n) \/ CrashNormalizer(n)
        PROVE  RowsBounded'
    <2>1. rows' \in [DOMAIN rows -> Row] /\ \A i \in DOMAIN rows : Touched(rows[i], rows'[i])
      BY <1>6, NormalizersRewrite
    <2>2. QED
      BY <1>0, <2>1, TouchedBounded DEF RowsBounded
  <1>7. QED
    <2>1. ASSUME NEW c \in Crawlers, CrawlStep(c) \/ FetchFails(c) \/ CrashCrawler(c)
          PROVE  RowsBounded'
      <3>1. \/ rows' = rows \/ rows' = OpensTransaction(c) \/ Ends(c)
            \/ InsertDocument(c) \/ ExtractOwn(c)
        BY <2>1 DEF CrawlStep, BeginCrawl, Fetch, FetchFails, RecordsNoChange, Compare,
                    RecordsChange, CheckOwn, CrashCrawler
      <3>2. QED
        BY <1>1, <1>2, <1>3, <1>4, <1>5, <3>1
    <2>2. ASSUME NEW p \in Pages, PageChanges(p) PROVE rows' = rows
      BY <2>2 DEF PageChanges
    <2>3. CASE UNCHANGED vars
      BY <1>1, <2>3 DEF vars
    <2>4. QED
      BY <1>1, <1>6, <2>1, <2>2, <2>3 DEF Next

-----------------------------------------------------------------------------
(* A page is stored twice in a row only by overlapping crawls.             *)

LEMMA SamePagesKeepAlone ==
    ASSUME Alone, DOMAIN rows' = DOMAIN rows, Len(rows') = Len(rows),
           \A i \in DOMAIN rows : rows'[i].page = rows[i].page,
           \A c \in Crawlers : /\ pc'[c] # "idle" => pc[c] # "idle"
                               /\ pc'[c] = "insert" => pc[c] = "insert" /\ body'[c] = body[c]
    PROVE  Alone'
  BY DEF Alone

LEMMA EndsKeepsAlone ==
    ASSUME RowsInv, RowsInv', Alone, NEW c \in Crawlers, pc[c] # "idle", Ends(c)
    PROVE  Alone'
  <1> USE DEF RowsInv
  <1>0. /\ Len(rows) \in Nat /\ DOMAIN rows = 1..Len(rows)
        /\ Len(rows') \in Nat /\ DOMAIN rows' = 1..Len(rows')
    BY LenProperties
  <1>1. /\ pc'[c] = "idle" /\ \A d \in Crawlers \ {c} : pc'[d] = pc[d]
        /\ \A d \in Crawlers : pc'[d] # "insert"
    <2>1. pc'[c] = "idle" /\ \A d \in Crawlers \ {c} : pc'[d] = pc[d]
      BY DEF Ends, Goto, TypeOK, Procs
    <2>2. QED
      BY <2>1 DEF Alone
  <1>2. CASE \E k \in Uncommitted(c) : rows' = Without(k)
    <2>1. PICK k \in Uncommitted(c) : rows' = Without(k)
      BY <1>2
    <2>2. k = Len(rows)
      BY <2>1 DEF Alone, Uncommitted
    <2>3. DOMAIN rows' = 1..(Len(rows) - 1) /\ \A i \in DOMAIN rows' : rows'[i] = rows[i]
      <3>1. DOMAIN rows' = 1..(Len(rows) - 1)
        BY <2>1 DEF Without
      <3>2. ASSUME NEW i \in 1..(Len(rows) - 1) PROVE rows'[i] = rows[i]
        <4>1. i < Len(rows)
          BY <1>0
        <4>2. QED
          BY <2>1, <2>2, <4>1 DEF Without
      <3>3. QED
        BY <3>1, <3>2
    <2>4. \A i \in DOMAIN rows' : i \in DOMAIN rows /\ i # Len(rows)
      BY <1>0, <2>3
    <2>5. QED
      BY <1>1, <2>3, <2>4 DEF Alone
  <1>3. CASE rows' = Disowned(c)
    <2>1. DOMAIN rows' = DOMAIN rows /\ \A i \in DOMAIN rows : rows'[i].page = rows[i].page
      BY <1>3, RowsAre DEF Disowned, Row
    <2>2. rows' \in [DOMAIN rows -> Row]
      BY <1>0, <2>1, LenProperties
    <2>3. Len(rows') = Len(rows)
      BY <2>2, RewrittenRows
    <2>4. QED
      BY <1>1, <2>1, <2>3, SamePagesKeepAlone
  <1>4. QED
    BY <1>2, <1>3, ClosedRows DEF Ends

\* The newest row is a transaction that stores nothing the row before it has.
LEMMA OpensKeepsAlone ==
    ASSUME RowsInv, Alone, NEW c \in Crawlers, ~Holds(c), rows' = OpensTransaction(c),
           \A d \in Crawlers \ {c} : pc[d] = "idle" /\ pc'[d] = "idle",
           pc'[c] = "insert" => \A i \in DOMAIN rows : i = Len(rows) => rows[i].page # body'[c]
    PROVE  Alone'
  <1> USE DEF RowsInv
  <1>0. Len(rows) \in Nat /\ DOMAIN rows = 1..Len(rows)
        /\ \A i \in DOMAIN rows : rows[i] \in Row
    BY RowsAre
  <1>1. \A i \in DOMAIN rows : rows[i].page # None
    <2>1. \A d \in Crawlers : ~Holds(d)
      BY DEF Holds
    <2>2. \A i \in DOMAIN rows : rows[i].owner = None
      BY <1>0, <2>1 DEF Transactions, Row
    <2>3. QED
      BY <2>2 DEF TypeOK
  <1>2. /\ Len(rows') = Len(rows) + 1 /\ DOMAIN rows' = 1..(Len(rows) + 1)
        /\ \A i \in DOMAIN rows : rows'[i] = rows[i]
    BY OpenedRows
  <1>3. rows'[Len(rows) + 1].page = None
    <2>1. OpensTransaction(c)[Len(rows) + 1] =
            [page |-> None, owner |-> c, runs |-> 0, listed |-> {}, checked |-> {}]
      BY OpenedRows
    <2>2. QED
      BY <2>1
  <1>4. \A i \in DOMAIN rows' : i \in DOMAIN rows \/ i = Len(rows) + 1
    BY <1>0, <1>2
  <1>5. \A i \in DOMAIN rows' : rows'[i].page = None => i = Len(rows')
    BY <1>1, <1>2, <1>4
  <1>6. ASSUME NEW i \in DOMAIN rows', i + 1 \in DOMAIN rows'
        PROVE  rows'[i].page # rows'[i + 1].page
    <2>1. i \in DOMAIN rows
      BY <1>0, <1>2, <1>6
    <2>2. CASE i + 1 \in DOMAIN rows
      BY <1>2, <2>1, <2>2 DEF Alone
    <2>3. CASE i + 1 = Len(rows) + 1
      BY <1>1, <1>2, <1>3, <2>1, <2>3
    <2>4. QED
      BY <1>4, <1>6, <2>2, <2>3
  <1>7. ASSUME NEW d \in Crawlers, pc'[d] = "insert", NEW i \in DOMAIN rows',
               i + 1 = Len(rows')
        PROVE  rows'[i].page # body'[d]
    <2>1. d = c
      BY <1>7
    <2>2. i = Len(rows) /\ i \in DOMAIN rows
      BY <1>0, <1>2, <1>7
    <2>3. QED
      BY <1>2, <1>7, <2>1, <2>2
  <1>8. QED
    BY <1>5, <1>6, <1>7 DEF Alone

\* What a lone crawl compares its page with is the document before its own row.
LEMMA ComparedWithLast ==
    ASSUME RowsInv, Alone, NEW c \in Crawlers, pc[c] = "compare",
           NEW i \in DOMAIN rows,
           IF c \in JobCrawlers THEN i + 1 = Len(rows) ELSE i = Len(rows)
    PROVE  rows[i].page = LastStored
  <1> USE DEF RowsInv
  <1>0. Len(rows) \in Nat /\ DOMAIN rows = 1..Len(rows)
        /\ \A j \in DOMAIN rows : rows[j] \in Row
    BY RowsAre
  <1>1. \A d \in Crawlers : Holds(d) => d = c
    BY DEF Alone, Holds
  <1>2. \A j \in DOMAIN rows : rows[j].page = None => rows[j].owner = c
    BY <1>0, <1>1 DEF TypeOK, Transactions, Row
  <1>3. i \in Documents /\ \A j \in Documents : j <= i
    <2>1. CASE c \in JobCrawlers
      <3>1. PICK k \in DOMAIN rows : rows[k].owner = c
        BY <2>1 DEF Transactions, Holds
      <3>2. rows[k].page = None
        BY <3>1, PipelineConstantsOK
           DEF Transactions, Committed, PipelineConstantsOK, Procs
      <3>3. k = Len(rows)
        BY <3>1, <3>2 DEF Alone
      <3>4. i # k /\ rows[i].page # None
        BY <1>0, <2>1, <3>3 DEF Alone
      <3>5. QED
        BY <1>0, <2>1, <3>2, <3>3, <3>4 DEF Documents
    <2>2. CASE c \notin JobCrawlers
      <3>1. ~Holds(c)
        BY <2>2 DEF Holds
      <3>2. rows[i].page # None
        BY <1>2, <3>1 DEF Transactions
      <3>3. QED
        BY <1>0, <2>2, <3>2 DEF Documents
    <2>3. QED
      BY <2>1, <2>2
  <1>4. PICK k \in Documents : LastStored = rows[k].page /\ \A j \in Documents : k >= j
    BY <1>3, LastStoredIsNewest
  <1>5. k = i
    BY <1>0, <1>3, <1>4 DEF Documents
  <1>6. QED
    BY <1>4, <1>5

LEMMA AloneKept == ASSUME RowsInv, RowsInv', AloneInv, [Next]_vars PROVE AloneInv'
  <1> USE PipelineConstantsOK DEF RowsInv, TypeOK, PipelineConstantsOK
  <1>0. /\ Len(rows) \in Nat /\ DOMAIN rows = 1..Len(rows)
        /\ \A i \in DOMAIN rows : rows[i] \in Row
    BY RowsAre
  <1> SUFFICES ASSUME ~overlapped' PROVE Alone'
    BY DEF AloneInv
  <1>1. Alone
    BY DEF AloneInv, Next, CrawlStep, BeginCrawl, Fetch, FetchFails, RecordsNoChange,
           Compare, InsertDocument, RecordsChange, CheckOwn, ExtractOwn, CrashCrawler,
           NormalizerStep, ListUnprocessed, CheckListed, ExtractListed,
           CrashNormalizer, PageChanges, vars
  <1>2. ASSUME NEW c \in Crawlers, NEW l, Goto(c, l), l # "insert", pc[c] # "idle" \/ l = "idle",
               DOMAIN rows' = DOMAIN rows, \A i \in DOMAIN rows : rows'[i].page = rows[i].page,
               \A d \in Crawlers \ {c} : body'[d] = body[d]
        PROVE  Alone'
    <2>1. pc'[c] = l /\ \A d \in Crawlers \ {c} : pc'[d] = pc[d]
      BY <1>2 DEF Goto, Procs
    <2>2. Len(rows') = Len(rows)
      <3>1. rows' \in [DOMAIN rows -> Row]
        BY <1>2, LenProperties
      <3>2. QED
        BY <3>1, RewrittenRows
    <2>3. QED
      BY <1>1, <1>2, <2>1, <2>2, SamePagesKeepAlone
  <1>3. ASSUME NEW c \in Crawlers, BeginCrawl(c) PROVE Alone'
    <2>1. /\ pc[c] = "idle" /\ pc'[c] = "fetch"
          /\ \A d \in Crawlers \ {c} : pc'[d] = pc[d]
          /\ \A d \in Crawlers : pc[d] = "idle"
      BY <1>3 DEF BeginCrawl, Goto, Procs
    <2>2. CASE c \in JobCrawlers
      BY <1>1, <1>3, <2>1, <2>2, OpensKeepsAlone DEF BeginCrawl, Holds
    <2>3. CASE c \notin JobCrawlers
      BY <1>1, <1>3, <2>1, <2>3 DEF BeginCrawl, Alone
    <2>4. QED
      BY <2>2, <2>3
  <1>4. ASSUME NEW c \in Crawlers, Compare(c) PROVE Alone'
    <2>1. /\ pc[c] = "compare" /\ pc'[c] \in {"unchanged", "insert"} /\ body' = body
          /\ \A d \in Crawlers \ {c} : pc[d] = "idle" /\ pc'[d] = "idle"
          /\ pc'[c] = "insert" => body[c] # LastStored
      BY <1>1, <1>4 DEF Compare, Goto, Alone, Procs
    <2>2. CASE c \in SourceCrawlers
      <3>1. ~Holds(c) /\ c \notin JobCrawlers
        BY <2>1, <2>2 DEF Holds
      <3>2. pc'[c] = "insert" =>
                \A i \in DOMAIN rows : i = Len(rows) => rows[i].page # body'[c]
        BY <1>1, <2>1, <3>1, ComparedWithLast
      <3>3. QED
        BY <1>1, <1>4, <2>1, <2>2, <3>1, <3>2, OpensKeepsAlone DEF Compare
    <2>3. CASE c \notin SourceCrawlers
      <3>1. c \in JobCrawlers /\ rows' = rows
        BY <1>4, <2>3 DEF Compare, Crawlers
      <3>2. pc'[c] = "insert" =>
                \A i \in DOMAIN rows : i + 1 = Len(rows) => rows[i].page # body'[c]
        BY <1>1, <2>1, <3>1, ComparedWithLast
      <3>3. QED
        BY <1>1, <2>1, <3>1, <3>2 DEF Alone
    <2>4. QED
      BY <2>2, <2>3
  <1>5. ASSUME NEW c \in Crawlers, InsertDocument(c) PROVE Alone'
    <2>1. /\ pc[c] = "insert" /\ pc'[c] = "result" /\ body[c] \in Pages
          /\ \A d \in Crawlers \ {c} : pc[d] = "idle" /\ pc'[d] = "idle"
      BY <1>1, <1>5 DEF InsertDocument, Goto, Alone, Fetched, Procs
    <2>2. PICK k \in DOMAIN rows : rows[k].owner = c
      BY <2>1 DEF Transactions, Holds
    <2>3. rows[k].page = None /\ k = Len(rows)
      BY <1>1, <2>1, <2>2 DEF Transactions, Committed, Alone, Procs
    <2>4. /\ DOMAIN rows' = DOMAIN rows
          /\ \A i \in DOMAIN rows :
                rows'[i].page = IF i = k THEN body[c] ELSE rows[i].page
      <3>1. \A i \in DOMAIN rows : rows[i].owner = c <=> i = k
        BY <2>2 DEF Procs
      <3>2. DOMAIN rows' = DOMAIN rows /\ \A i \in DOMAIN rows :
                rows'[i] = IF rows[i].owner = c THEN [rows[i] EXCEPT !.page = body[c]]
                                                ELSE rows[i]
        BY <1>5 DEF InsertDocument
      <3>3. \A r \in Row : [r EXCEPT !.page = body[c]].page = body[c]
        BY DEF Row
      <3>4. QED
        <4>1. ASSUME NEW i \in DOMAIN rows
              PROVE  rows'[i].page = IF i = k THEN body[c] ELSE rows[i].page
          <5>1. CASE i = k
            <6>1. rows'[i] = [rows[i] EXCEPT !.page = body[c]]
              BY <3>1, <3>2, <5>1
            <6>2. QED
              BY <1>0, <3>3, <5>1, <6>1
          <5>2. CASE i # k
            <6>1. rows'[i] = rows[i]
              BY <3>1, <3>2, <5>2
            <6>2. QED
              BY <5>2, <6>1
          <5>3. QED
            BY <5>1, <5>2
        <4>2. QED
          BY <3>2, <4>1
    <2>5. Len(rows') = Len(rows)
      <3>1. rows' \in [DOMAIN rows -> Row]
        BY <2>4, LenProperties
      <3>2. QED
        BY <3>1, RewrittenRows
    <2>6. \A i \in DOMAIN rows : i + 1 = Len(rows) => rows[i].page # body[c]
      BY <1>1, <2>1 DEF Alone
    <2>7. \A i \in DOMAIN rows' : rows'[i].page = None => i = Len(rows')
      <3>1. \A i \in DOMAIN rows : rows[i].page = None => i = Len(rows)
        BY <1>1 DEF Alone
      <3>2. QED
        BY <2>3, <2>4, <2>5, <3>1
    <2>8. ASSUME NEW i \in DOMAIN rows, i + 1 \in DOMAIN rows
          PROVE  rows'[i].page # rows'[i + 1].page
      <3>1. i # k
        BY <1>0, <2>3, <2>8
      <3>2. QED
        BY <1>1, <2>3, <2>4, <2>6, <2>8, <3>1 DEF Alone
    <2>9. QED
      BY <2>1, <2>4, <2>7, <2>8 DEF Alone
  <1>6. ASSUME NEW c \in Crawlers, pc[c] # "idle", Ends(c) PROVE Alone'
    BY <1>1, <1>6, EndsKeepsAlone
  <1>7. ASSUME NEW c \in Crawlers, Fetch(c) PROVE Alone'
    BY <1>2, <1>7 DEF Fetch
  <1>8. ASSUME NEW c \in Crawlers, RecordsChange(c) PROVE Alone'
    BY <1>2, <1>8 DEF RecordsChange
  <1>9. ASSUME NEW c \in Crawlers, CheckOwn(c) PROVE Alone'
    <2>1. CASE Ends(c)
      BY <1>6, <1>9, <2>1 DEF CheckOwn
    <2>2. CASE Goto(c, "extract") /\ UNCHANGED <<rows, sent, body>>
      BY <1>2, <1>9, <2>2 DEF CheckOwn
    <2>3. QED
      BY <1>9, <2>1, <2>2 DEF CheckOwn
  <1>10. ASSUME NEW c \in Crawlers, ExtractOwn(c) PROVE Alone'
    <2>1. /\ DOMAIN rows' = DOMAIN rows
          /\ \A i \in DOMAIN rows : rows'[i].page = rows[i].page
      <3>1. DOMAIN rows' = DOMAIN rows /\ \A i \in DOMAIN rows :
                rows'[i] = IF rows[i].owner = c
                           THEN [rows[i] EXCEPT !.owner = None, !.runs = @ + 1] ELSE rows[i]
        BY <1>10 DEF ExtractOwn
      <3>2. \A r \in Row : [r EXCEPT !.owner = None, !.runs = @ + 1].page = r.page
        BY DEF Row
      <3>3. QED
        BY <1>0, <3>1, <3>2
    <2>2. QED
      BY <1>2, <1>10, <2>1 DEF ExtractOwn
  <1>11. ASSUME NEW c \in Crawlers, FetchFails(c) \/ RecordsNoChange(c) \/ CrashCrawler(c)
         PROVE  Alone'
    BY <1>6, <1>11 DEF FetchFails, RecordsNoChange, CrashCrawler
  <1>12. ASSUME NEW n \in Normalizers, NormalizerStep(n) \/ CrashNormalizer(n) PROVE Alone'
    <2>1. rows' \in [DOMAIN rows -> Row] /\ \A i \in DOMAIN rows : rows'[i].page = rows[i].page
      BY <1>12, NormalizersRewrite DEF Touched
    <2>2. Len(rows') = Len(rows)
      BY <2>1, RewrittenRows
    <2>3. body' = body /\ \E l : Goto(n, l)
      BY <1>12 DEF NormalizerStep, ListUnprocessed, CheckListed, ExtractListed, CrashNormalizer
    <2>4. \A c \in Crawlers : pc'[c] = pc[c]
      BY <2>3 DEF Goto, Procs
    <2>5. QED
      BY <1>1, <2>1, <2>2, <2>3, <2>4, SamePagesKeepAlone
  <1>13. ASSUME NEW p \in Pages, PageChanges(p) PROVE Alone'
    BY <1>1, <1>13 DEF PageChanges, Alone
  <1>14. CASE UNCHANGED vars
    BY <1>1, <1>14 DEF vars, Alone
  <1>15. QED
    BY <1>3, <1>4, <1>5, <1>7, <1>8, <1>9, <1>10, <1>11, <1>12, <1>13, <1>14
       DEF Next, CrawlStep

LEMMA AloneMeansDiffer == ASSUME RowsInv, Alone PROVE ConsecutiveDocumentsDiffer
  <1>1. Len(rows) \in Nat /\ DOMAIN rows = 1..Len(rows)
    BY RowsAre DEF RowsInv
  <1> SUFFICES ASSUME NEW i \in Documents, NEW j \in Documents, i < j,
                      \A k \in Documents : ~(i < k /\ k < j)
               PROVE  rows[i].page # rows[j].page
    BY DEF ConsecutiveDocumentsDiffer
  <1>2. i \in DOMAIN rows /\ j \in DOMAIN rows
    BY DEF Documents
  <1>3. j = i + 1
    <2> SUFFICES ASSUME j # i + 1 PROVE FALSE
      OBVIOUS
    <2>1. i + 1 \in DOMAIN rows /\ i + 1 < j /\ i + 1 # Len(rows) /\ i < i + 1
      BY <1>1, <1>2
    <2>2. i + 1 \in Documents
      BY <2>1 DEF Alone, Documents
    <2>3. QED
      BY <2>1, <2>2
  <1>4. QED
    BY <1>2, <1>3 DEF Alone

\* Work is done twice only by overlapping processes: for any crawlers, any
\* finite set of normalizers and any pages, crawls that never overlapped store
\* no page twice in a row, and no document is extracted more than once by each
\* normalizer and once by the crawl that stored it, crashes included.
THEOREM DoublesOnlyFromOverlap ==
    ASSUME IsFiniteSet(Normalizers) PROVE Spec => []DoublesNeedOverlap
  <1> DEFINE Inv == RowsInv /\ AloneInv /\ RowsBounded
  <1>1. Init => Inv
    <2> SUFFICES ASSUME Init PROVE Inv
      OBVIOUS
    <2>1. RowsInv
      BY RowsInitially
    <2>2. DOMAIN rows = {}
      BY EmptySeq DEF Init
    <2>3. AloneInv /\ RowsBounded
      BY <2>2 DEF Init, AloneInv, Alone, RowsBounded, Procs
    <2>4. QED
      BY <2>1, <2>3
  <1>2. Inv /\ [Next]_vars => Inv'
    <2> SUFFICES ASSUME Inv, [Next]_vars PROVE Inv'
      OBVIOUS
    <2>1. RowsInv'
      BY RowsKept
    <2>2. QED
      BY <2>1, AloneKept, BoundedKept
  <1>3. Inv => DoublesNeedOverlap
    <2> SUFFICES ASSUME Inv PROVE DoublesNeedOverlap
      OBVIOUS
    <2>1. TypeOK
      BY DEF RowsInv
    <2>2. DuplicatesNeedOverlap
      BY AloneMeansDiffer DEF AloneInv, DuplicatesNeedOverlap
    <2>3. ExtractionsBounded
      <3> SUFFICES ASSUME NEW i \in DOMAIN rows
                   PROVE  rows[i].runs <= 1 + Cardinality(Normalizers)
        BY DEF ExtractionsBounded
      <3>1. rows[i] \in Row /\ RowBounded(rows[i])
        BY RowsAre DEF RowsInv, RowsBounded
      <3>2. /\ rows[i].runs \in Nat /\ Cardinality(Normalizers) \in Nat
            /\ Cardinality(rows[i].checked) \in Nat
        BY <3>1, FS_Subset, FS_CardinalityType DEF Row
      <3>3. QED
        BY <3>1, <3>2 DEF RowBounded, Pending
    <2>4. QED
      BY <2>1, <2>2, <2>3 DEF DoublesNeedOverlap
  <1> HIDE DEF Inv
  <1>4. QED
    BY <1>1, <1>2, <1>3, PTL DEF Spec
=============================================================================

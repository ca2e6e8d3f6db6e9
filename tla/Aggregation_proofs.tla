-------------------------- MODULE Aggregation_proofs --------------------------
(***************************************************************************)
(* TLAPS proofs about aggregation and the imports of user-confirmed        *)
(* identities, for every set of observations, numbers, runs and requests:  *)
(* nothing runs in a transaction, so each proof is about any interleaving  *)
(* of single statements, with crashes between any two.                     *)
(***************************************************************************)
EXTENDS Aggregation, FiniteSetTheorems, WellFoundedInduction, TLAPS

-----------------------------------------------------------------------------
(* The rules and the names built from the constants.                       *)

LEMMA RowTyped == ASSUME NEW o \in Observations PROVE About[o] \in ObservationRow
  BY AggregationConstantsOK DEF AggregationConstantsOK

LEMMA NameTyped == ASSUME NEW o \in Observations PROVE GuessName(About[o]) \in Names
  BY RowTyped, IdentityConstantsOK
     DEF IdentityConstantsOK, GuessName, Names, ObservationRow

\* Of the keywords a text has, one comes first in CATEGORY_KEYWORDS.
LEMMA CategoryTyped ==
    ASSUME NEW o \in Observations
    PROVE  GuessCategory(About[o]) \in Categories \cup {NoCategory}
<1> DEFINE found == About[o].keywords
           Before(c) == {d \in found : Precedence[d] < Precedence[c]}
           Befores == {Before(c) : c \in found}
<1>1. found \subseteq Categories /\ IsFiniteSet(found)
      /\ \A c \in found : Precedence[c] \in Nat
  BY RowTyped, IdentityConstantsOK, FS_Subset DEF ObservationRow, IdentityConstantsOK
<1>2. CASE found = {}
  BY <1>2 DEF GuessCategory
<1>3. CASE found # {}
  <2>1. Befores \subseteq FiniteSubsetsOf(found) /\ Befores # {}
    <3>1. \A c \in found : Before(c) \in SUBSET found
      OBVIOUS
    <3>2. \A c \in found : IsFiniteSet(Before(c))
      BY <1>1, <3>1, FS_Subset
    <3>3. QED
      BY <1>3, <3>1, <3>2 DEF FiniteSubsetsOf
  <2>2. PICK B \in Befores : \A A \in Befores : ~(<<A, B>> \in StrictSubsetOrdering(found))
    <3> HIDE DEF Befores
    <3>1. QED
      BY <2>1, WFMin, FS_StrictSubsetOrderingWellFounded
  <2>3. PICK c \in found : B = Before(c)
    BY <2>2
  <2>4. \A d \in found : Precedence[c] <= Precedence[d]
    <3> SUFFICES ASSUME NEW d \in found, Precedence[d] < Precedence[c] PROVE FALSE
      BY <1>1
    <3>1. Before(d) \subseteq Before(c) /\ d \in Before(c) /\ d \notin Before(d)
      BY <1>1
    <3>2. <<Before(d), B>> \in StrictSubsetOrdering(found)
      BY <2>3, <3>1 DEF StrictSubsetOrdering
    <3>3. QED
      BY <2>2, <3>2
  <2>5. GuessCategory(About[o]) \in found
    BY <1>3, <2>4 DEF GuessCategory
  <2>6. QED
    BY <1>1, <2>5
<1>4. QED
  BY <1>2, <1>3

LEMMA ObservationsFinite ==
    ASSUME NEW rows \in SUBSET Observations
    PROVE  IsFiniteSet(rows) /\ Cardinality(rows) \in Nat
  BY FS_Subset, FS_CardinalityType, AggregationConstantsOK DEF AggregationConstantsOK

LEMMA ScoreTyped ==
    ASSUME NEW rows \in SUBSET Observations PROVE Score(rows, About) \in 0..100
  BY ObservationsFinite DEF Score

LEMMA EntryTyped ==
    ASSUME NEW r \in Requests, NEW i \in DOMAIN Entries[r]
    PROVE  Entries[r][i] \in Typed /\ Entries[r][i] \in Observations
  BY DEF Typed, Observations

LEMMA UserKeyTyped ==
    ASSUME NEW e \in Typed, About[e].phone # NoPhone
    PROVE  UserKey(e) \in Keys /\ UserKey(e).claim = "user_confirmed_v1"
<1>1. e \in Observations
  BY DEF Observations
<1>2. About[e].phone \in Phones
  BY <1>1, RowTyped DEF ObservationRow
<1>3. NameKey[Submitted[e].name] \in Names
  BY AggregationConstantsOK, IdentityConstantsOK
     DEF AggregationConstantsOK, IdentityConstantsOK, Names
<1>4. QED
  BY <1>2, <1>3 DEF UserKey, Keys, Claims

LEMMA RuleKeyTyped ==
    ASSUME NEW p \in Phones, NEW n \in Names
    PROVE  /\ RuleKey(p, n) \in Keys
           /\ RuleKey(p, n).claim # "user_confirmed_v1"
           /\ RuleKey(p, n).phone = p /\ RuleKey(p, n).name = n
  BY DEF RuleKey, Keys, Claims

LEMMA NamesTyped ==
    ASSUME NEW rows \in SUBSET Observations, NEW p PROVE NamesOf(rows, p) \subseteq Names
  BY NameTyped DEF NamesOf

LEMMA RowKept ==
    ASSUME NEW old \in IdentityRow \cup {None}, NEW rows \in SUBSET Observations,
           NEW c \in Categories \cup {NoCategory}
    PROVE  Upserted(old, rows, c) \in IdentityRow
  BY ObservationsFinite, ScoreTyped DEF Upserted, IdentityRow

LEMMA EntryPlaces ==
    ASSUME NEW r \in Requests PROVE \A i \in DOMAIN Entries[r] : i \in Nat \ {0}
  BY AggregationConstantsOK DEF AggregationConstantsOK

LEMMA SelectTyped ==
    ASSUME TypeOK
    PROVE  Select \subseteq observed /\ {About[o].phone : o \in Select} \subseteq Phones
  BY RowTyped DEF TypeOK, Select, ObservationRow

-----------------------------------------------------------------------------
(* What runs and requests under way may rely on.                           *)

\* What a run of runAggregation holds in its local variables stays true of
\* the tables, whatever was written since its SELECT: its rows are still
\* there, the candidate whose links it writes has an identity.
RunSound(a) ==
    /\ agg[a].rows \subseteq observed
    /\ agg[a].pc \in {"names", "links"} =>
        /\ agg[a].phone \in Phones
        /\ agg[a].names \subseteq NamesOf(agg[a].rows, agg[a].phone)
    /\ agg[a].pc = "links" =>
        /\ agg[a].name \in Names
        /\ agg[a].links \subseteq Members(agg[a].rows, agg[a].phone, agg[a].name)
        /\ identity[RuleKey(agg[a].phone, agg[a].name)] # None

\* an entry whose six statements are done
Imported(e) ==
    About[e].phone # NoPhone =>
        /\ e \in observed /\ counted[About[e].phone] > 0
        /\ identity[UserKey(e)] # None /\ <<UserKey(e), e>> \in evidence

\* Where a request stands, what its statements have left in the tables: the
\* earlier ones of the entry in hand, all of the entries before it and nothing
\* of the entries after it.  A torn entry belongs to a dead request.
RequestSound(r) ==
    /\ req[r].pc \in Stages =>
        /\ req[r].at \in DOMAIN Entries[r]
        /\ About[Entry(r)].phone # NoPhone /\ Entry(r) \in observed
    /\ req[r].pc \in {"identity", "evidence", "recount"} =>
        counted[About[Entry(r)].phone] > 0
    /\ req[r].pc \in {"evidence", "recount"} => identity[UserKey(Entry(r))] # None
    /\ req[r].pc = "recount" => <<UserKey(Entry(r)), Entry(r)>> \in evidence
    /\ req[r].pc \in {"new", "source", "refused"} => req[r].at = 1
    /\ \A i \in DOMAIN Entries[r] :
        /\ i < req[r].at => Imported(Entries[r][i])
        /\ i > req[r].at \/ (i = req[r].at /\ req[r].pc \notin Stages \cup {"dead"})
            => Entries[r][i] \notin observed
        /\ req[r].pc # "dead" => \A t \in torn : t[1] # Entries[r][i]

RunsSound == \A a \in Aggregators : RunSound(a)
RequestsSound == \A r \in Requests : RequestSound(r)

AggInv == TypeOK /\ RunsSound /\ RequestsSound

\* No statement deletes a row.
Grown ==
    /\ observed \subseteq observed' /\ evidence \subseteq evidence'
    /\ \A k \in Keys : identity[k] # None => identity'[k] # None
    /\ \A p \in Phones : counted[p] > 0 => counted'[p] > 0

LEMMA EntryFacts ==
    ASSUME AggInv, NEW r \in Requests, req[r].pc \in Stages
    PROVE  /\ Entry(r) \in Typed /\ Entry(r) \in Observations /\ Entry(r) \in observed
           /\ About[Entry(r)].phone \in Phones
           /\ UserKey(Entry(r)) \in Keys
           /\ UserKey(Entry(r)).claim = "user_confirmed_v1"
<1>1. req[r].at \in DOMAIN Entries[r] /\ About[Entry(r)].phone # NoPhone
      /\ Entry(r) \in observed
  BY DEF AggInv, RequestsSound, RequestSound
<1>2. Entry(r) \in Typed /\ Entry(r) \in Observations
  BY <1>1, EntryTyped DEF Entry
<1>3. About[Entry(r)].phone \in Phones
  BY <1>1, <1>2, RowTyped DEF ObservationRow
<1>4. QED
  BY <1>1, <1>2, <1>3, UserKeyTyped

\* A run that a step leaves alone, marks as disturbed or ends.
LEMMA RunKept ==
    ASSUME AggInv, Grown, NEW a \in Aggregators,
           agg'[a] \in {agg[a], [agg[a] EXCEPT !.alone = FALSE], NoRun}
    PROVE  RunSound(a)'
<1>1. agg[a] \in Run /\ RunSound(a)
  BY DEF AggInv, TypeOK, RunsSound
<1>2. CASE agg'[a] = NoRun
  BY <1>2 DEF NoRun, RunSound
<1>3. CASE agg'[a] \in {agg[a], [agg[a] EXCEPT !.alone = FALSE]}
  <2>1. /\ agg'[a].pc = agg[a].pc /\ agg'[a].rows = agg[a].rows
        /\ agg'[a].phone = agg[a].phone /\ agg'[a].names = agg[a].names
        /\ agg'[a].name = agg[a].name /\ agg'[a].links = agg[a].links
    BY <1>1, <1>3 DEF Run
  <2>2. agg[a].pc = "links" => RuleKey(agg[a].phone, agg[a].name) \in Keys
    BY <1>1, RuleKeyTyped DEF RunSound
  <2>3. QED
    BY <1>1, <2>1, <2>2 DEF RunSound, Grown
<1>4. QED
  BY <1>2, <1>3

LEMMA ImportedKept ==
    ASSUME Grown, NEW r \in Requests, NEW i \in DOMAIN Entries[r], Imported(Entries[r][i])
    PROVE  Imported(Entries[r][i])'
<1> SUFFICES ASSUME About[Entries[r][i]].phone # NoPhone
             PROVE  Imported(Entries[r][i])'
  BY DEF Imported
<1>1. Entries[r][i] \in Typed /\ About[Entries[r][i]].phone \in Phones
  BY EntryTyped, RowTyped DEF ObservationRow
<1>2. UserKey(Entries[r][i]) \in Keys
  BY <1>1, UserKeyTyped
<1>3. QED
  BY <1>1, <1>2 DEF Imported, Grown

\* A request that a step leaves alone, unless the step adds one of its
\* observations or tears one of its entries.
LEMMA RequestKept ==
    ASSUME AggInv, Grown, NEW r \in Requests, req'[r] = req[r],
           \A i \in DOMAIN Entries[r] :
                /\ Entries[r][i] \in observed' => Entries[r][i] \in observed
                /\ \A t \in torn' \ torn : t[1] # Entries[r][i]
    PROVE  RequestSound(r)'
<1>1. RequestSound(r) /\ Entry(r)' = Entry(r)
  BY DEF AggInv, RequestsSound, Entry
<1>2. req[r].pc \in Stages => Entry(r) \in observed
  BY <1>1 DEF RequestSound
<1>3. ASSUME NEW i \in DOMAIN Entries[r], i < req[r].at
      PROVE  Imported(Entries[r][i])'
  BY <1>1, <1>3, ImportedKept DEF RequestSound
<1>4. /\ req[r].pc \in {"identity", "evidence", "recount"} =>
            counted'[About[Entry(r)].phone] > 0
      /\ req[r].pc \in {"evidence", "recount"} => identity'[UserKey(Entry(r))] # None
      /\ req[r].pc = "recount" => <<UserKey(Entry(r)), Entry(r)>> \in evidence'
  BY <1>1, EntryFacts DEF RequestSound, Grown, Stages
<1>5. QED
  BY <1>1, <1>2, <1>3, <1>4 DEF RequestSound, Grown

LEMMA NoRunTyped == NoRun \in Run
  BY DEF NoRun, Run

LEMMA ArrivesKeeps ==
    ASSUME AggInv, Grown, Arrives
    PROVE  agg' \in [Aggregators -> Run] /\ settled' \in BOOLEAN /\ RunsSound'
<1>1. agg' \in [Aggregators -> Run] /\ settled' \in BOOLEAN
  <2>1. \A run \in Run : [run EXCEPT !.alone = FALSE] \in Run
    BY DEF Run
  <2>2. agg \in [Aggregators -> Run]
    BY DEF AggInv, TypeOK
  <2>3. QED
    BY <2>1, <2>2 DEF Arrives
<1>2. ASSUME NEW a \in Aggregators PROVE RunSound(a)'
  BY <1>2, RunKept DEF Arrives
<1>3. QED
  BY <1>1, <1>2 DEF RunsSound

LEMMA AggregatorStepKeeps ==
    ASSUME AggInv, NEW a \in Aggregators, AggregatorStep(a) \/ AggregatorCrashes(a)
    PROVE  AggInv' /\ Grown
<1> USE DEF AggInv
<1>1. TypeOK /\ agg[a] \in Run /\ RunSound(a)
  BY DEF TypeOK, RunsSound
<1>2. ASSUME TypeOK', Grown, RunSound(a)',
             \A b \in Aggregators \ {a} : agg'[b] \in {agg[b], [agg[b] EXCEPT !.alone = FALSE]},
             UNCHANGED <<observed, req, torn>>
      PROVE  AggInv' /\ Grown
  <2>1. ASSUME NEW b \in Aggregators PROVE RunSound(b)'
    BY <1>2, <2>1, RunKept
  <2>2. ASSUME NEW r \in Requests PROVE RequestSound(r)'
    BY <1>2, <2>2, RequestKept
  <2>3. QED
    BY <1>2, <2>1, <2>2 DEF RunsSound, RequestsSound
<1>3. CASE StartRun(a)
  <2>1. agg' \in [Aggregators -> Run]
    <3>1. [NoRun EXCEPT !.pc = "phones", !.rows = Select,
                        !.phones = {About[o].phone : o \in Select},
                        !.alone = (Active = {})] \in Run
      BY <1>1, SelectTyped DEF NoRun, Run, TypeOK
    <3>2. QED
      BY <1>1, <1>3, <3>1 DEF StartRun, TypeOK, Run
  <2>2. manualRuns' \in 0..MaxManual
    <3>1. manualRuns \in 0..MaxManual /\ MaxManual \in Nat
      BY <1>1, AggregationConstantsOK DEF TypeOK, AggregationConstantsOK
    <3>2. \/ manualRuns' = manualRuns
          \/ manualRuns < MaxManual /\ manualRuns' = manualRuns + 1
      BY <1>3 DEF StartRun
    <3>3. QED
      BY <3>1, <3>2
  <2>3. TypeOK'
    BY <1>1, <1>3, <2>1, <2>2 DEF StartRun, TypeOK, tables
  <2>4. RunSound(a)'
    BY <1>1, <1>3, SelectTyped DEF StartRun, RunSound, NoRun, tables
  <2>5. Grown
    BY <1>3 DEF StartRun, Grown, tables
  <2>6. QED
    BY <1>2, <1>3, <2>3, <2>4, <2>5 DEF StartRun, tables
<1>4. ASSUME NEW p \in Phones, TakePhone(a, p) PROVE AggInv' /\ Grown
  <2>1. NamesOf(agg[a].rows, p) \subseteq Names
    BY <1>1, NamesTyped DEF Run
  <2>2. agg' \in [Aggregators -> Run]
    <3> DEFINE rest == agg[a].phones \ {p}
    <3>1. [agg[a] EXCEPT !.phones = rest] \in Run
      BY <1>1 DEF Run
    <3>2. [agg[a] EXCEPT !.pc = "names", !.phones = rest, !.phone = p,
                         !.names = NamesOf(agg[a].rows, p)] \in Run
      BY <1>1, <1>4, <2>1 DEF Run
    <3>3. QED
      BY <1>1, <1>4, <3>1, <3>2 DEF TakePhone, TypeOK
  <2>3. TypeOK'
    BY <1>1, <1>4, <2>2 DEF TakePhone, TypeOK, tables
  <2>4. RunSound(a)'
    BY <1>1, <1>4 DEF TakePhone, RunSound, TypeOK, Run, tables
  <2>5. Grown
    BY <1>4 DEF TakePhone, Grown, tables
  <2>6. QED
    BY <1>1, <1>2, <1>4, <2>3, <2>4, <2>5 DEF TakePhone, TypeOK, tables
<1>5. ASSUME NEW n \in Names, UpsertIdentity(a, n) PROVE AggInv' /\ Grown
  <2> DEFINE k == RuleKey(agg[a].phone, n)
             rows == Members(agg[a].rows, agg[a].phone, n)
  <2>1. k \in Keys /\ agg[a].phone \in Phones
    BY <1>1, <1>5, RuleKeyTyped DEF UpsertIdentity, RunSound
  <2>2. rows \subseteq agg[a].rows /\ rows \in SUBSET Observations
    BY <1>1 DEF Members, Run
  <2>3. identity'[k] \in IdentityRow /\ identity' = [identity EXCEPT ![k] = identity'[k]]
    BY <1>1, <1>5, <2>1, <2>2, RowKept, CategoryTyped DEF UpsertIdentity, TypeOK
  <2>4. identity'[k] # None
    BY <2>3, AggregationConstantsOK DEF AggregationConstantsOK
  <2>5. agg' = [agg EXCEPT ![a] = [@ EXCEPT !.pc = "links", !.name = n,
                                           !.names = agg[a].names \ {n}, !.links = rows]]
    BY <1>5 DEF UpsertIdentity
  <2>6. TypeOK'
    <3>1. agg' \in [Aggregators -> Run]
      <4>1. [agg[a] EXCEPT !.pc = "links", !.name = n, !.names = agg[a].names \ {n},
                           !.links = rows] \in Run
        BY <1>1, <1>5, <2>2 DEF Run
      <4>2. QED
        BY <1>1, <2>5, <4>1 DEF TypeOK
    <3>2. identity' \in [Keys -> IdentityRow \cup {None}]
      BY <1>1, <2>3 DEF TypeOK
    <3>3. QED
      BY <1>1, <1>5, <3>1, <3>2 DEF UpsertIdentity, TypeOK
  <2>7. RunSound(a)'
    <3>1. /\ agg'[a].pc = "links" /\ agg'[a].name = n /\ agg'[a].links = rows
          /\ agg'[a].phone = agg[a].phone /\ agg'[a].rows = agg[a].rows
          /\ agg'[a].names \subseteq agg[a].names
      <4>1. agg'[a] = [agg[a] EXCEPT !.pc = "links", !.name = n,
                                     !.names = agg[a].names \ {n}, !.links = rows]
        BY <1>1, <2>5 DEF TypeOK
      <4> HIDE DEF rows
      <4>2. QED
        BY <1>1, <4>1 DEF Run
    <3>2. observed' = observed /\ agg[a].pc = "names"
      BY <1>5 DEF UpsertIdentity
    <3>3. QED
      BY <1>1, <2>1, <2>4, <3>1, <3>2 DEF RunSound
  <2>8. Grown
    BY <1>1, <1>5, <2>3, <2>4 DEF UpsertIdentity, Grown, TypeOK
  <2>9. QED
    BY <1>1, <1>2, <1>5, <2>5, <2>6, <2>7, <2>8 DEF UpsertIdentity, TypeOK
<1>6. ASSUME NEW o \in Observations, LinkRule(a, o) PROVE AggInv' /\ Grown
  <2> DEFINE left == agg[a].links \ {o}
  <2>1. RuleKey(agg[a].phone, agg[a].name) \in Keys
    BY <1>1, <1>6, RuleKeyTyped DEF LinkRule, RunSound
  <2>2. /\ agg' \in [Aggregators -> Run]
        /\ agg' = [agg EXCEPT ![a] = agg'[a]]
        /\ agg'[a].rows = agg[a].rows
        /\ agg'[a].pc \in {"links", "names", "phones"}
        /\ agg'[a].pc \in {"names", "links"} =>
             agg'[a].phone = agg[a].phone /\ agg'[a].names = agg[a].names
        /\ agg'[a].pc = "links" =>
             agg'[a].name = agg[a].name /\ agg'[a].links \subseteq agg[a].links
    <3>1. CASE left # {}
      BY <1>1, <1>6, <3>1 DEF LinkRule, TypeOK, Run
    <3>2. CASE left = {} /\ agg[a].names # {}
      BY <1>1, <1>6, <3>2 DEF LinkRule, TypeOK, Run
    <3>3. CASE left = {} /\ agg[a].names = {}
      BY <1>1, <1>6, <3>3 DEF LinkRule, TypeOK, Run
    <3>4. QED
      BY <3>1, <3>2, <3>3
  <2>3. TypeOK'
    BY <1>1, <1>6, <2>1, <2>2 DEF LinkRule, TypeOK
  <2>4. RunSound(a)'
    BY <1>1, <1>6, <2>2 DEF LinkRule, RunSound
  <2>5. Grown
    BY <1>6 DEF LinkRule, Grown
  <2>6. QED
    BY <1>1, <1>2, <1>6, <2>2, <2>3, <2>4, <2>5 DEF LinkRule, TypeOK
<1>7. CASE FinishRun(a) \/ AggregatorCrashes(a)
  <2>1. agg' = [agg EXCEPT ![a] = NoRun]
    BY <1>7 DEF FinishRun, AggregatorCrashes
  <2>2. TypeOK'
    <3>1. agg' \in [Aggregators -> Run]
      BY <1>1, <2>1, NoRunTyped DEF TypeOK
    <3>2. settled' \in BOOLEAN /\ crashes' \in 0..MaxCrashes
      BY <1>1, <1>7, AggregationConstantsOK
         DEF FinishRun, AggregatorCrashes, TypeOK, Run, AggregationConstantsOK
    <3>3. QED
      BY <1>1, <1>7, <3>1, <3>2 DEF FinishRun, AggregatorCrashes, TypeOK, tables
  <2>3. Grown
    BY <1>7 DEF FinishRun, AggregatorCrashes, Grown, tables
  <2>4. RunSound(a)'
    BY <1>1, <2>1, <2>3, RunKept DEF TypeOK
  <2>5. QED
    BY <1>1, <1>2, <1>7, <2>1, <2>2, <2>3, <2>4
       DEF FinishRun, AggregatorCrashes, TypeOK, tables
<1>8. QED
  BY <1>3, <1>4, <1>5, <1>6, <1>7 DEF AggregatorStep

\* the observations the entries of a request add: no other request's
Mine(r) == {Entries[r][i] : i \in DOMAIN Entries[r]}

RequestPcs == Stages \cup {"new", "source", "entry", "done", "refused", "dead"}

LEMMA EntriesApart ==
    /\ \A r, q \in Requests : r # q => Mine(r) \cap Mine(q) = {}
    /\ \A r \in Requests : \A i, j \in DOMAIN Entries[r] :
            Entries[r][i] = Entries[r][j] => i = j
  BY AggregationConstantsOK DEF AggregationConstantsOK, Mine

\* What a statement of r may do to the other requests and to the runs.
LEMMA OthersKept ==
    ASSUME AggInv, NEW r \in Requests, TypeOK', Grown, RequestSound(r)',
           UNCHANGED agg \/ Arrives,
           \A q \in Requests \ {r} : req'[q] = req[q],
           observed' \subseteq observed \cup Mine(r),
           \A t \in torn' \ torn : t[1] \in Mine(r)
    PROVE  AggInv' /\ Grown
<1>1. RunsSound'
  <2>1. CASE UNCHANGED agg
    <3>1. ASSUME NEW a \in Aggregators PROVE RunSound(a)'
      BY <2>1, RunKept
    <3>2. QED
      BY <3>1 DEF RunsSound
  <2>2. QED
    BY <2>1, ArrivesKeeps
<1>2. ASSUME NEW q \in Requests \ {r} PROVE RequestSound(q)'
  <2>1. \A i \in DOMAIN Entries[q] : Entries[q][i] \notin Mine(r)
    BY EntriesApart DEF Mine
  <2>2. QED
    BY <2>1, RequestKept
<1>3. QED
  BY <1>1, <1>2 DEF AggInv, RequestsSound

\* The part of RequestSound(r) that is about the entries not in hand.
LEMMA EntriesKept ==
    ASSUME AggInv, NEW r \in Requests, Grown, req'[r].at = req[r].at,
           observed' \subseteq observed \cup {Entry(r)},
           observed' # observed => req[r].at \in DOMAIN Entries[r],
           torn' \subseteq torn \/ req'[r].pc = "dead",
           req[r].pc # "dead"
    PROVE  \A i \in DOMAIN Entries[r] :
                /\ i < req'[r].at => Imported(Entries[r][i])'
                /\ i > req'[r].at => Entries[r][i] \notin observed'
                /\ req'[r].pc # "dead" => \A t \in torn' : t[1] # Entries[r][i]
<1> SUFFICES ASSUME NEW i \in DOMAIN Entries[r]
             PROVE  /\ i < req'[r].at => Imported(Entries[r][i])'
                    /\ i > req'[r].at => Entries[r][i] \notin observed'
                    /\ req'[r].pc # "dead" => \A t \in torn' : t[1] # Entries[r][i]
  OBVIOUS
<1>1. RequestSound(r) /\ i \in Nat /\ req[r].at \in Nat
  BY EntryPlaces DEF AggInv, RequestsSound, TypeOK
<1>2. i < req'[r].at => Imported(Entries[r][i])'
  BY <1>1, ImportedKept DEF RequestSound
<1>3. i > req'[r].at => Entries[r][i] \notin observed'
  <2> SUFFICES ASSUME i > req[r].at PROVE Entries[r][i] \notin observed'
    OBVIOUS
  <2>1. Entries[r][i] \notin observed
    BY <1>1 DEF RequestSound
  <2>2. CASE observed' # observed
    <3>1. Entries[r][i] # Entry(r)
      BY <1>1, <2>2, EntriesApart DEF Entry
    <3>2. QED
      BY <2>1, <3>1
  <2>3. QED
    BY <2>1, <2>2
<1>4. req'[r].pc # "dead" => \A t \in torn' : t[1] # Entries[r][i]
  BY <1>1 DEF RequestSound
<1>5. QED
  BY <1>2, <1>3, <1>4

\* Statements that only move the request on, and the four writes of an entry.
LEMMA RequestStepKeeps ==
    ASSUME AggInv, NEW r \in Requests, RequestStep(r)
    PROVE  AggInv' /\ Grown
<1> USE DEF AggInv
<1>1. /\ TypeOK /\ RequestSound(r) /\ r \in DOMAIN req
      /\ req[r] \in [pc : RequestPcs, at : Nat]
  BY DEF TypeOK, RequestsSound, RequestPcs
<1>2. Entry(r) = Entries[r][req[r].at]
  BY DEF Entry
<1>3. ASSUME NEW label \in RequestPcs, Goto(r, label)
      PROVE  /\ req' \in [Requests -> [pc : RequestPcs, at : Nat]]
             /\ req'[r].pc = label /\ req'[r].at = req[r].at
             /\ \A q \in Requests \ {r} : req'[q] = req[q]
  BY <1>1, <1>3 DEF TypeOK, Goto, RequestPcs
<1>4. CASE FindSource(r) \/ InsertSource(r) \/ Answer(r)
  <2>1. \E label \in {"refused", "entry", "source", "done"} : Goto(r, label)
    BY <1>4 DEF FindSource, InsertSource, Answer
  <2>2. PICK label \in {"refused", "entry", "source", "done"} : Goto(r, label)
    BY <2>1
  <2>3. /\ req' \in [Requests -> [pc : RequestPcs, at : Nat]]
        /\ req'[r].pc = label /\ req'[r].at = req[r].at
        /\ \A q \in Requests \ {r} : req'[q] = req[q]
    BY <1>3, <2>2 DEF RequestPcs
  <2>4. UNCHANGED <<observed, counted, identity, evidence, agg, manualRuns, crashes,
                    torn, settled>> /\ sourceKnown' \in BOOLEAN
    BY <1>1, <1>4 DEF FindSource, InsertSource, Answer, tables, TypeOK
  <2>5. TypeOK' /\ Grown
    BY <1>1, <2>3, <2>4 DEF TypeOK, Grown, RequestPcs
  <2>6. RequestSound(r)'
    <3>1. req[r].pc \in {"new", "source", "entry"}
      BY <1>4 DEF FindSource, InsertSource, Answer
    <3>2. \A i \in DOMAIN Entries[r] :
            /\ i < req'[r].at => Imported(Entries[r][i])'
            /\ i > req'[r].at => Entries[r][i] \notin observed'
            /\ req'[r].pc # "dead" => \A t \in torn' : t[1] # Entries[r][i]
      BY <2>3, <2>4, <2>5, <3>1, EntriesKept
    <3>3. \A i \in DOMAIN Entries[r] : i = req[r].at => Entries[r][i] \notin observed
      BY <1>1, <3>1 DEF RequestSound, Stages
    <3>4. req'[r].pc \in {"new", "source", "refused"} => req'[r].at = 1
      BY <1>1, <1>4, <2>2, <2>3 DEF RequestSound, FindSource, InsertSource, Answer, Goto
    <3>5. QED
      BY <2>2, <2>3, <2>4, <3>2, <3>3, <3>4 DEF RequestSound, Stages
  <2>7. QED
    BY <1>1, <2>3, <2>4, <2>5, <2>6, OthersKept
<1>5. CASE SkipEntry(r)
  <2>2. /\ req' \in [Requests -> [pc : RequestPcs, at : Nat]]
        /\ req'[r].pc = "entry" /\ req'[r].at = req[r].at + 1
        /\ \A q \in Requests \ {r} : req'[q] = req[q]
    BY <1>1, <1>5 DEF SkipEntry, TypeOK, RequestPcs
  <2>3. UNCHANGED <<tables, agg, manualRuns, crashes, torn, settled>>
    BY <1>5 DEF SkipEntry
  <2>4. TypeOK' /\ Grown
    BY <1>1, <2>2, <2>3 DEF TypeOK, Grown, RequestPcs, tables
  <2>5. RequestSound(r)'
    <3> SUFFICES ASSUME NEW i \in DOMAIN Entries[r]
                 PROVE  /\ i < req'[r].at => Imported(Entries[r][i])'
                        /\ i >= req'[r].at => Entries[r][i] \notin observed'
                        /\ \A t \in torn' : t[1] # Entries[r][i]
      BY <2>2, EntryPlaces DEF RequestSound, Stages
    <3>1. req[r].pc = "entry" /\ About[Entry(r)].phone = NoPhone
      BY <1>5 DEF SkipEntry
    <3>2. i \in Nat /\ req[r].at \in Nat
      BY <1>1, EntryPlaces
    <3>3. i < req[r].at \/ i = req[r].at => Imported(Entries[r][i])
      BY <1>1, <3>1 DEF RequestSound, Imported, Entry
    <3>4. i < req'[r].at => Imported(Entries[r][i])'
      BY <2>2, <2>4, <3>2, <3>3, ImportedKept
    <3>5. i >= req'[r].at => Entries[r][i] \notin observed
      BY <1>1, <2>2, <3>2 DEF RequestSound
    <3>6. QED
      BY <1>1, <2>3, <3>1, <3>4, <3>5 DEF RequestSound, tables
  <2>6. QED
    BY <1>1, <2>2, <2>3, <2>4, <2>5, OthersKept DEF tables
<1>6. ASSUME NEW from \in RequestPcs, NEW to \in RequestPcs, Goto(r, to),
             req[r].pc = from, from # "dead",
             UNCHANGED <<sourceKnown, manualRuns>>, UNCHANGED <<agg, settled>> \/ Arrives,
             counted' \in [Phones -> Nat], identity' \in [Keys -> IdentityRow \cup {None}],
             evidence' \subseteq Keys \X Observations, crashes' \in 0..MaxCrashes, Grown,
             observed' \subseteq observed \cup {Entry(r)}, req[r].at \in DOMAIN Entries[r],
             (to \in Stages /\ torn' = torn)
               \/ (to = "dead" /\ from \in Stages /\ torn' = torn \cup {<<Entry(r), from>>}),
             to \in Stages => About[Entry(r)].phone # NoPhone /\ Entry(r) \in observed',
             to \in {"identity", "evidence", "recount"} =>
                counted'[About[Entry(r)].phone] > 0,
             to \in {"evidence", "recount"} => identity'[UserKey(Entry(r))] # None,
             to = "recount" => <<UserKey(Entry(r)), Entry(r)>> \in evidence'
      PROVE  AggInv' /\ Grown
  <2>1. /\ req' \in [Requests -> [pc : RequestPcs, at : Nat]]
        /\ req'[r].pc = to /\ req'[r].at = req[r].at
        /\ \A q \in Requests \ {r} : req'[q] = req[q]
    BY <1>3, <1>6
  <2>2. Entry(r) \in Typed /\ Entry(r) \in Observations /\ Entry(r) \in Mine(r)
    BY <1>2, <1>6, EntryTyped DEF Mine
  <2>3. TypeOK'
    <3>1. agg' \in [Aggregators -> Run] /\ settled' \in BOOLEAN
      BY <1>1, <1>6, ArrivesKeeps DEF TypeOK
    <3>2. observed' \subseteq Observations /\ torn' \subseteq Typed \X Stages
      BY <1>1, <1>6, <2>2 DEF TypeOK, Stages
    <3>3. QED
      BY <1>1, <1>6, <2>1, <3>1, <3>2 DEF TypeOK, RequestPcs
  <2>4. RequestSound(r)'
    <3>1. \A i \in DOMAIN Entries[r] :
            /\ i < req'[r].at => Imported(Entries[r][i])'
            /\ i > req'[r].at => Entries[r][i] \notin observed'
            /\ req'[r].pc # "dead" => \A t \in torn' : t[1] # Entries[r][i]
      BY <1>6, <2>1, EntriesKept
    <3>2. Entry(r)' = Entry(r)
      BY <2>1 DEF Entry
    <3>3. QED
      BY <1>6, <2>1, <3>1, <3>2 DEF RequestSound, Stages
  <2>5. QED
    BY <1>1, <1>6, <2>1, <2>2, <2>3, <2>4, OthersKept
<1>7. CASE RecordObservation(r)
  <2>1. Grown /\ Goto(r, "number") /\ Arrives
    BY <1>7 DEF RecordObservation, Grown
  <2>2. QED
    BY <1>1, <1>6, <1>7, <2>1 DEF RecordObservation, TypeOK, RequestPcs, Stages
<1>8. CASE CountNumber(r)
  <2> DEFINE p == About[Entry(r)].phone
  <2>1. p \in Phones /\ Entry(r) \in observed
    BY <1>8, EntryFacts DEF CountNumber, Stages
  <2>2. counted' = [counted EXCEPT ![p] = @ + 1] /\ counted[p] \in Nat
    BY <1>1, <1>8, <2>1 DEF CountNumber, TypeOK
  <2>3. counted' \in [Phones -> Nat] /\ counted'[p] > 0
    BY <1>1, <2>1, <2>2 DEF TypeOK
  <2>4. \A q \in Phones : counted[q] > 0 => counted'[q] > 0
    BY <1>1, <2>1, <2>2 DEF TypeOK
  <2>5. Grown /\ (UNCHANGED <<agg, settled>> \/ Arrives)
    BY <1>8, <2>4 DEF CountNumber, Grown
  <2>6. req[r].at \in DOMAIN Entries[r] /\ p # NoPhone
    BY <1>1, <1>8 DEF CountNumber, RequestSound, Stages
  <2>7. QED
    BY <1>1, <1>6, <1>8, <2>1, <2>3, <2>5, <2>6
       DEF CountNumber, TypeOK, RequestPcs, Stages
<1>9. CASE ConfirmIdentity(r)
  <2> DEFINE k == UserKey(Entry(r))
  <2>1. k \in Keys /\ Entry(r) \in observed /\ Entry(r) \in Typed
    BY <1>9, EntryFacts DEF ConfirmIdentity, Stages
  <2>2. identity' = [identity EXCEPT ![k] = identity'[k]] /\ identity'[k] \in IdentityRow
    <3>1. Submitted[Entry(r)].category \in Categories \cup {NoCategory}
      BY <2>1, AggregationConstantsOK DEF AggregationConstantsOK
    <3>2. identity[k] \in IdentityRow \cup {None}
      BY <1>1, <2>1 DEF TypeOK
    <3>3. CASE identity[k] = None
      BY <1>1, <1>9, <2>1, <3>1, <3>3 DEF ConfirmIdentity, TypeOK, IdentityRow
    <3>4. CASE identity[k] # None
      BY <1>1, <1>9, <2>1, <3>1, <3>2, <3>4 DEF ConfirmIdentity, TypeOK, IdentityRow
    <3>5. QED
      BY <3>3, <3>4
  <2>3. identity'[k] # None
    BY <2>2, AggregationConstantsOK DEF AggregationConstantsOK
  <2>4. identity' \in [Keys -> IdentityRow \cup {None}]
    BY <1>1, <2>1, <2>2 DEF TypeOK
  <2>5. Grown
    BY <1>1, <1>9, <2>1, <2>2, <2>3 DEF ConfirmIdentity, Grown, TypeOK
  <2>6. /\ req[r].at \in DOMAIN Entries[r] /\ About[Entry(r)].phone # NoPhone
        /\ counted[About[Entry(r)].phone] > 0
    BY <1>1, <1>9 DEF ConfirmIdentity, RequestSound, Stages
  <2>7. QED
    BY <1>1, <1>6, <1>9, <2>1, <2>3, <2>4, <2>5, <2>6
       DEF ConfirmIdentity, TypeOK, RequestPcs, Stages
<1>10. CASE LinkConfirmed(r)
  <2> DEFINE k == UserKey(Entry(r))
  <2>1. k \in Keys /\ Entry(r) \in observed /\ Entry(r) \in Observations
    BY <1>10, EntryFacts DEF LinkConfirmed, Stages
  <2>2. evidence' \subseteq Keys \X Observations /\ <<k, Entry(r)>> \in evidence'
    BY <1>1, <1>10, <2>1 DEF LinkConfirmed, TypeOK
  <2>3. Grown
    BY <1>10 DEF LinkConfirmed, Grown
  <2>4. /\ req[r].at \in DOMAIN Entries[r] /\ About[Entry(r)].phone # NoPhone
        /\ counted[About[Entry(r)].phone] > 0 /\ identity[k] # None
    BY <1>1, <1>10 DEF LinkConfirmed, RequestSound, Stages
  <2>5. QED
    BY <1>1, <1>6, <1>10, <2>1, <2>2, <2>3, <2>4
       DEF LinkConfirmed, TypeOK, RequestPcs, Stages
<1>11. CASE RequestDies(r)
  <2>1. req[r].at \in DOMAIN Entries[r]
    BY <1>1, <1>11 DEF RequestDies, RequestSound
  <2>2. crashes' \in 0..MaxCrashes
    BY <1>1, <1>11, AggregationConstantsOK DEF RequestDies, TypeOK, AggregationConstantsOK
  <2>3. Grown
    BY <1>11 DEF RequestDies, Grown, tables
  <2>4. QED
    BY <1>1, <1>6, <1>11, <2>1, <2>2, <2>3
       DEF RequestDies, TypeOK, RequestPcs, Stages, tables
<1>12. CASE Recount(r)
  <2> DEFINE k == UserKey(Entry(r))
  <2>1. k \in Keys /\ Entry(r) \in observed /\ Entry(r) \in Typed
    BY <1>12, EntryFacts DEF Recount, Stages
  <2>2. /\ req[r].at \in DOMAIN Entries[r] /\ About[Entry(r)].phone # NoPhone
        /\ counted[About[Entry(r)].phone] > 0 /\ identity[k] # None
        /\ <<k, Entry(r)>> \in evidence
    BY <1>1, <1>12 DEF Recount, RequestSound, Stages
  <2>3. identity[k] \in IdentityRow
    BY <1>1, <2>1, <2>2 DEF TypeOK
  <2>4. Recounted(k) \in Nat
    BY ObservationsFinite DEF Recounted, Links
  <2>5. identity' = [identity EXCEPT ![k] = identity'[k]] /\ identity'[k] \in IdentityRow
    BY <1>1, <1>12, <2>1, <2>3, <2>4 DEF Recount, TypeOK, IdentityRow
  <2>6. identity'[k] # None
    BY <2>5, AggregationConstantsOK DEF AggregationConstantsOK
  <2>7. Grown
    BY <1>1, <1>12, <2>1, <2>5, <2>6 DEF Recount, Grown, TypeOK
  <2>8. /\ req' \in [Requests -> [pc : RequestPcs, at : Nat]]
        /\ req'[r].pc = "entry" /\ req'[r].at = req[r].at + 1
        /\ \A q \in Requests \ {r} : req'[q] = req[q]
    BY <1>1, <1>12 DEF Recount, TypeOK, RequestPcs
  <2>9. TypeOK'
    BY <1>1, <1>12, <2>1, <2>5, <2>8 DEF Recount, TypeOK, RequestPcs
  <2>10. RequestSound(r)'
    <3> SUFFICES ASSUME NEW i \in DOMAIN Entries[r]
                 PROVE  /\ i < req'[r].at => Imported(Entries[r][i])'
                        /\ i >= req'[r].at => Entries[r][i] \notin observed'
                        /\ \A t \in torn' : t[1] # Entries[r][i]
      BY <2>8, EntryPlaces DEF RequestSound, Stages
    <3>1. i \in Nat /\ req[r].at \in Nat /\ req[r].pc = "recount"
      BY <1>1, <1>12, EntryPlaces DEF Recount
    <3>2. i < req[r].at \/ i = req[r].at => Imported(Entries[r][i])
      BY <1>1, <1>2, <2>1, <2>2 DEF RequestSound, Imported
    <3>3. i < req'[r].at => Imported(Entries[r][i])'
      BY <2>7, <2>8, <3>1, <3>2, ImportedKept
    <3>4. i >= req'[r].at => Entries[r][i] \notin observed
      BY <1>1, <2>8, <3>1 DEF RequestSound
    <3>5. \A t \in torn' : t[1] # Entries[r][i]
      BY <1>1, <1>12, <3>1 DEF RequestSound, Recount
    <3>6. QED
      BY <1>12, <3>3, <3>4, <3>5 DEF Recount
  <2>11. QED
    BY <1>12, <2>7, <2>8, <2>9, <2>10, OthersKept DEF Recount
<1>13. QED
  BY <1>4, <1>5, <1>7, <1>8, <1>9, <1>10, <1>11, <1>12 DEF RequestStep

LEMMA AggStep == AggInv /\ [Next]_vars => AggInv' /\ Grown
<1>1. ASSUME AggInv, UNCHANGED vars PROVE AggInv' /\ Grown
  BY <1>1 DEF vars, tables, AggInv, TypeOK, RunsSound, RunSound, RequestsSound, RequestSound,
              Imported, Entry, Grown
<1>2. QED
  BY <1>1, AggregatorStepKeeps, RequestStepKeeps DEF Next

\* AggInv is inductive.
LEMMA AggInvariant == Spec => []AggInv
<1>1. Init => AggInv
  <2> SUFFICES ASSUME Init PROVE AggInv
    OBVIOUS
  <2>1. TypeOK
    <3>1. \A p \in Phones : {o \in Crawled : About[o].phone = p} \in SUBSET Observations
      BY DEF Observations
    <3>2. counted \in [Phones -> Nat]
      BY <3>1, ObservationsFinite DEF Init
    <3>3. agg \in [Aggregators -> Run] /\ identity \in [Keys -> IdentityRow \cup {None}]
      BY NoRunTyped DEF Init
    <3>4. observed \subseteq Observations /\ manualRuns \in 0..MaxManual
          /\ crashes \in 0..MaxCrashes
      BY AggregationConstantsOK DEF Init, Observations, AggregationConstantsOK
    <3>5. QED
      BY <3>2, <3>3, <3>4 DEF Init, TypeOK
  <2>2. RunsSound
    BY DEF Init, RunsSound, RunSound, NoRun
  <2>3. ASSUME NEW r \in Requests PROVE RequestSound(r)
    <3>1. \A i \in DOMAIN Entries[r] : Entries[r][i] \notin observed /\ i \in Nat \ {0}
      BY EntryTyped, EntryPlaces, AggregationConstantsOK DEF Init, AggregationConstantsOK
    <3>2. req[r].pc = "new" /\ req[r].at = 1 /\ torn = {}
      BY DEF Init
    <3>3. QED
      BY <3>1, <3>2 DEF RequestSound, Stages
  <2>4. QED
    BY <2>1, <2>2, <2>3 DEF AggInv, RequestsSound
<1>2. QED
  BY <1>1, AggStep, PTL DEF Spec

\* Type correctness of the tables under any interleaving of single
\* statements, and what the runs and requests under way rely on: a run's rows
\* and candidate stay true of the tables, and an import that dies leaves the
\* entries before the one in hand whole and the later ones untouched.
THEOREM AggregationTypeCorrect == Spec => [](TypeOK /\ RunsSound /\ RequestsSound)
BY AggInvariant, PTL DEF AggInv

-----------------------------------------------------------------------------
(* Where identities and evidence come from.                                *)

LEMMA EvidenceWriters ==
    ASSUME [Next]_vars, evidence' # evidence
    PROVE  \/ \E a \in Aggregators, o \in Observations : LinkRule(a, o)
           \/ \E r \in Requests : LinkConfirmed(r)
  BY DEF Next, AggregatorStep, RequestStep, StartRun, TakePhone, UpsertIdentity,
         FinishRun, AggregatorCrashes, FindSource, InsertSource, SkipEntry,
         RecordObservation, CountNumber, ConfirmIdentity, Recount, Answer,
         RequestDies, vars, tables

LEMMA IdentityWriters ==
    ASSUME [Next]_vars, identity' # identity
    PROVE  \/ \E a \in Aggregators, n \in Names : UpsertIdentity(a, n)
           \/ \E r \in Requests : ConfirmIdentity(r) \/ Recount(r)
  BY DEF Next, AggregatorStep, RequestStep, StartRun, TakePhone, LinkRule,
         FinishRun, AggregatorCrashes, FindSource, InsertSource, SkipEntry,
         RecordObservation, CountNumber, LinkConfirmed, Answer,
         RequestDies, vars, tables

\* What UpsertIdentity(a, n) writes, and where.
LEMMA UpsertWrites ==
    ASSUME AggInv, NEW a \in Aggregators, NEW n \in Names, UpsertIdentity(a, n)
    PROVE  LET k == RuleKey(agg[a].phone, n)
               rows == Members(agg[a].rows, agg[a].phone, n)
           IN  /\ agg[a].phone \in Phones /\ k \in Keys
               /\ rows \in SUBSET Members(observed, agg[a].phone, n) /\ rows # {}
               /\ rows \in SUBSET Observations
               /\ identity' = [identity EXCEPT ![k] = identity'[k]]
               /\ identity'[k] \in IdentityRow /\ identity'[k] # None
               /\ \E first \in rows :
                    identity'[k] = Upserted(identity[k], rows, GuessCategory(About[first]))
<1> DEFINE p == agg[a].phone
           k == RuleKey(p, n)
           rows == Members(agg[a].rows, p, n)
<1>1. /\ agg[a] \in Run /\ p \in Phones /\ n \in NamesOf(agg[a].rows, p)
      /\ agg[a].rows \subseteq observed /\ observed \subseteq Observations
  BY DEF AggInv, TypeOK, RunsSound, RunSound, UpsertIdentity
<1>2. k \in Keys
  BY <1>1, RuleKeyTyped
<1>3. /\ rows \in SUBSET Members(observed, p, n) /\ rows # {}
      /\ rows \in SUBSET Observations
  BY <1>1 DEF Members, NamesOf
<1>4. PICK first \in rows :
        identity' = [identity EXCEPT ![k] =
                        Upserted(identity[k], rows, GuessCategory(About[first]))]
  BY DEF UpsertIdentity
<1>5. identity'[k] = Upserted(identity[k], rows, GuessCategory(About[first]))
      /\ identity[k] \in IdentityRow \cup {None}
  BY <1>2, <1>4 DEF AggInv, TypeOK
<1>6. identity'[k] \in IdentityRow
  BY <1>3, <1>5, RowKept, CategoryTyped
<1>7. identity'[k] # None
  BY <1>6, AggregationConstantsOK DEF AggregationConstantsOK
<1>8. QED
  BY <1>1, <1>2, <1>3, <1>4, <1>5, <1>6, <1>7

\* The imports write to confirmed identities only.
LEMMA ConfirmedWrites ==
    ASSUME AggInv, NEW r \in Requests, ConfirmIdentity(r) \/ Recount(r)
    PROVE  LET k == UserKey(Entry(r)) IN
           /\ k \in Keys /\ k.claim = "user_confirmed_v1"
           /\ identity' = [identity EXCEPT ![k] = identity'[k]]
           /\ ConfirmIdentity(r) /\ identity[k] = None =>
                identity'[k].confidence = 95 /\ identity'[k].status = "CONFIRMED"
           /\ identity[k] # None =>
                /\ identity'[k].confidence = identity[k].confidence
                /\ identity'[k].status = identity[k].status
           /\ Recount(r) =>
                identity[k] # None /\ identity'[k].evidenceCount = Recounted(k)
<1> DEFINE k == UserKey(Entry(r))
<1>1. req[r].pc \in Stages
  BY DEF ConfirmIdentity, Recount, Stages
<1>2. k \in Keys /\ k.claim = "user_confirmed_v1"
  BY <1>1, EntryFacts
<1>3. identity \in [Keys -> IdentityRow \cup {None}] /\ identity[k] \in IdentityRow \cup {None}
  BY <1>2 DEF AggInv, TypeOK
<1>4. CASE ConfirmIdentity(r)
  <2>1. CASE identity[k] = None
    BY <1>2, <1>3, <1>4, <2>1 DEF ConfirmIdentity, Recount
  <2>2. CASE identity[k] # None
    BY <1>2, <1>3, <1>4, <2>2 DEF ConfirmIdentity, Recount, IdentityRow
  <2>3. QED
    BY <2>1, <2>2
<1>5. CASE Recount(r)
  <2>1. identity[k] # None
    BY <1>5 DEF Recount, AggInv, RequestsSound, RequestSound
  <2>2. QED
    BY <1>2, <1>3, <1>5, <2>1 DEF ConfirmIdentity, Recount, IdentityRow
<1>6. QED
  BY <1>4, <1>5

LEMMA ClaimsStep ==
    ASSUME AggInv, AggInv', Grown, ClaimsTraceable, [Next]_vars PROVE ClaimsTraceable'
<1>1. ASSUME NEW k \in Keys, NEW o \in Links(k)'
      PROVE  /\ o \in observed' /\ About[o].phone = k.phone /\ identity'[k] # None
             /\ IF k.claim = "user_confirmed_v1" THEN o \in Typed /\ UserKey(o) = k
                ELSE GuessName(About[o]) = k.name
  <2>1. CASE o \in Links(k)
    BY <2>1 DEF ClaimsTraceable, LinksTraceable, Grown
  <2>2. CASE o \notin Links(k)
    <3>1. o \in Observations /\ <<k, o>> \in evidence' /\ <<k, o>> \notin evidence
      BY <1>1, <2>2 DEF Links
    <3>2. ASSUME NEW a \in Aggregators, NEW q \in Observations, LinkRule(a, q)
          PROVE  /\ o \in observed /\ About[o].phone = k.phone /\ identity[k] # None
                 /\ k.claim # "user_confirmed_v1" /\ GuessName(About[o]) = k.name
      <4>1. RunSound(a) /\ agg[a].pc = "links" /\ q \in agg[a].links
        BY <3>2 DEF AggInv, RunsSound, LinkRule
      <4>2. k = RuleKey(agg[a].phone, agg[a].name) /\ o = q
        BY <3>1, <3>2 DEF LinkRule
      <4>3. o \in observed /\ About[o].phone = agg[a].phone
            /\ GuessName(About[o]) = agg[a].name
        BY <4>1, <4>2 DEF RunSound, Members
      <4>4. QED
        BY <4>1, <4>2, <4>3, RuleKeyTyped DEF RunSound
    <3>3. ASSUME NEW r \in Requests, LinkConfirmed(r)
          PROVE  /\ o \in observed /\ About[o].phone = k.phone /\ identity[k] # None
                 /\ o \in Typed /\ UserKey(o) = k /\ k.claim = "user_confirmed_v1"
      <4>1. k = UserKey(Entry(r)) /\ o = Entry(r) /\ req[r].pc = "evidence"
        BY <3>1, <3>3 DEF LinkConfirmed
      <4>2. identity[k] # None
        BY <4>1 DEF AggInv, RequestsSound, RequestSound
      <4>3. QED
        BY <4>1, <4>2, EntryFacts DEF Stages, UserKey
    <3>4. QED
      BY <3>1, <3>2, <3>3, EvidenceWriters DEF Grown
  <2>3. QED
    BY <2>1, <2>2
<1>2. ASSUME NEW k \in Keys, identity'[k] # None
      PROVE  IF k.claim = "user_confirmed_v1"
             THEN identity'[k].confidence = 95 /\ identity'[k].status = "CONFIRMED"
             ELSE /\ identity'[k].status = "CANDIDATE"
                  /\ \E o \in Members(observed', k.phone, k.name) :
                        GuessCategory(About[o]) = identity'[k].category
  <2>1. Members(observed, k.phone, k.name) \subseteq Members(observed', k.phone, k.name)
    BY DEF Grown, Members
  <2>2. CASE identity'[k] = identity[k]
    BY <1>2, <2>1, <2>2 DEF ClaimsTraceable, RowsTraceable
  <2>3. ASSUME NEW a \in Aggregators, NEW n \in Names, UpsertIdentity(a, n),
               identity'[k] # identity[k]
        PROVE  /\ k.claim # "user_confirmed_v1" /\ identity'[k].status = "CANDIDATE"
               /\ \E o \in Members(observed, k.phone, k.name) :
                        GuessCategory(About[o]) = identity'[k].category
    <3> DEFINE rows == Members(agg[a].rows, agg[a].phone, n)
    <3>1. k = RuleKey(agg[a].phone, n)
      BY <2>3, UpsertWrites DEF AggInv, TypeOK
    <3>2. k.claim # "user_confirmed_v1" /\ k.phone = agg[a].phone /\ k.name = n
      BY <2>3, <3>1, UpsertWrites, RuleKeyTyped
    <3>3. PICK first \in rows :
            identity'[k] = Upserted(identity[k], rows, GuessCategory(About[first]))
      BY <2>3, <3>1, UpsertWrites
    <3>4. first \in Members(observed, k.phone, k.name)
      BY <2>3, <3>2, UpsertWrites
    <3>5. CASE identity[k] = None
      BY <3>2, <3>3, <3>4, <3>5 DEF Upserted
    <3>6. CASE identity[k] # None
      <4>1. identity[k] \in IdentityRow
        BY <3>6 DEF AggInv, TypeOK
      <4>2. /\ identity'[k].status = identity[k].status
            /\ identity'[k].category \in {identity[k].category, GuessCategory(About[first])}
        BY <3>3, <3>6, <4>1 DEF Upserted, IdentityRow
      <4>3. QED
        BY <3>2, <3>4, <3>6, <4>2 DEF ClaimsTraceable, RowsTraceable
    <3>7. QED
      BY <3>5, <3>6
  <2>4. ASSUME NEW r \in Requests, ConfirmIdentity(r) \/ Recount(r),
               identity'[k] # identity[k]
        PROVE  /\ k.claim = "user_confirmed_v1"
               /\ identity'[k].confidence = 95 /\ identity'[k].status = "CONFIRMED"
    <3>1. k = UserKey(Entry(r)) /\ k.claim = "user_confirmed_v1"
      BY <2>4, ConfirmedWrites DEF AggInv, TypeOK
    <3>2. QED
      BY <2>4, <3>1, ConfirmedWrites DEF ClaimsTraceable, RowsTraceable
  <2>5. QED
    BY <2>1, <2>2, <2>3, <2>4, IdentityWriters
<1>3. LinksTraceable'
  BY <1>1 DEF LinksTraceable
<1>4. RowsTraceable'
  BY <1>2 DEF RowsTraceable, Members
<1>5. QED
  BY <1>3, <1>4 DEF ClaimsTraceable

\* Identities rest on observations of their own number and name, categories
\* on the text of one of these, and neither claim engine ever touches the
\* other's rows: with any number of runs and imports interleaved, statement by
\* statement, from snapshots that may be stale.
THEOREM ClaimsRestOnObservations == Spec => []ClaimsTraceable
<1>1. Init => ClaimsTraceable
  BY DEF Init, ClaimsTraceable, LinksTraceable, RowsTraceable, Links
<1>2. QED
  BY <1>1, AggStep, ClaimsStep, AggInvariant, PTL DEF Spec

\* Count and score of an identity are always those of one set of its
\* observations, although overlapping runs overwrite each other's rows from
\* different snapshots.
THEOREM CountsAndScoresTogether == Spec => []CountAndScoreTogether
<1>1. Init => CountAndScoreTogether
  BY RuleKeyTyped DEF Init, CountAndScoreTogether
<1>2. AggInv /\ Grown /\ CountAndScoreTogether /\ [Next]_vars => CountAndScoreTogether'
  <2> SUFFICES ASSUME AggInv, Grown, CountAndScoreTogether, [Next]_vars,
                      NEW p \in Phones, NEW n \in Names,
                      identity'[RuleKey(p, n)] # None
               PROVE  \E rows \in SUBSET Members(observed', p, n) :
                        rows # {} /\ FromOneSet(identity'[RuleKey(p, n)], rows)
    BY DEF CountAndScoreTogether, FromOneSet
  <2> DEFINE k == RuleKey(p, n)
  <2>1. k \in Keys /\ k.claim # "user_confirmed_v1" /\ k.phone = p /\ k.name = n
    BY RuleKeyTyped
  <2>2. Members(observed, p, n) \subseteq Members(observed', p, n)
    BY DEF Grown, Members
  <2>3. CASE identity'[k] = identity[k]
    BY <2>2, <2>3 DEF CountAndScoreTogether
  <2>4. ASSUME NEW a \in Aggregators, NEW m \in Names, UpsertIdentity(a, m),
               identity'[k] # identity[k]
        PROVE  \E rows \in SUBSET Members(observed, p, n) :
                  rows # {} /\ FromOneSet(identity'[k], rows)
    <3> DEFINE rows == Members(agg[a].rows, agg[a].phone, m)
    <3>1. k = RuleKey(agg[a].phone, m)
      BY <2>1, <2>4, UpsertWrites DEF AggInv, TypeOK
    <3>2. agg[a].phone = p /\ m = n
      BY <2>1, <2>4, <3>1, UpsertWrites, RuleKeyTyped
    <3>3. rows \in SUBSET Members(observed, p, n) /\ rows # {}
      BY <2>4, <3>2, UpsertWrites
    <3>4. PICK c \in Categories \cup {NoCategory} :
            identity'[k] = Upserted(identity[k], rows, c)
      BY <2>4, <3>1, UpsertWrites, CategoryTyped
    <3>5. FromOneSet(identity'[k], rows)
      <4>1. identity[k] \in IdentityRow \cup {None}
        BY <2>1 DEF AggInv, TypeOK
      <4> HIDE DEF rows, k
      <4>2. CASE identity[k] = None
        BY <3>4, <4>2 DEF Upserted, FromOneSet
      <4>3. CASE identity[k] # None
        BY <3>4, <4>1, <4>3 DEF Upserted, IdentityRow, FromOneSet
      <4>4. QED
        BY <4>2, <4>3
    <3>6. QED
      BY <3>3, <3>5
  <2>5. ASSUME NEW r \in Requests, ConfirmIdentity(r) \/ Recount(r)
        PROVE  identity'[k] = identity[k]
    BY <2>1, <2>5, ConfirmedWrites DEF AggInv, TypeOK
  <2>6. QED
    BY <2>2, <2>3, <2>4, <2>5, IdentityWriters
<1>3. QED
  BY <1>1, <1>2, AggStep, AggInvariant, PTL DEF Spec

-----------------------------------------------------------------------------
(* What imports leave behind.                                              *)

\* An observation is counted by one statement: CountNumber.
LEMMA UncountedMoves ==
    ASSUME AggInv, [Next]_vars, NEW o \in Observations
    PROVE  \/ /\ counted' = counted
              /\ o \in observed /\ ~Uncounted(o) <=> o \in observed' /\ ~Uncounted(o)'
           \/ \E r \in Requests :
              /\ CountNumber(r)
              /\ o \in observed' /\ ~Uncounted(o)' <=>
                    o = Entry(r) \/ (o \in observed /\ ~Uncounted(o))
<1>1. \A r \in Requests : RequestSound(r) /\ req[r] \in [pc : RequestPcs, at : Nat]
  BY DEF AggInv, RequestsSound, TypeOK, RequestPcs
<1>2. CASE \E a \in Aggregators : AggregatorStep(a) \/ AggregatorCrashes(a)
  <2>1. UNCHANGED <<observed, counted, req, torn>>
    BY <1>2 DEF AggregatorStep, AggregatorCrashes, StartRun, TakePhone, UpsertIdentity,
                LinkRule, FinishRun, tables
  <2>2. QED
    BY <2>1 DEF Uncounted, Entry
<1>3. CASE UNCHANGED vars
  BY <1>3 DEF vars, tables, Uncounted, Entry
<1>4. ASSUME NEW r \in Requests,
             FindSource(r) \/ InsertSource(r) \/ SkipEntry(r) \/ ConfirmIdentity(r)
                \/ LinkConfirmed(r) \/ Recount(r) \/ Answer(r)
      PROVE  /\ counted' = counted
             /\ o \in observed /\ ~Uncounted(o) <=> o \in observed' /\ ~Uncounted(o)'
  <2>1. UNCHANGED <<observed, counted>>
    BY <1>4 DEF FindSource, InsertSource, SkipEntry, ConfirmIdentity, LinkConfirmed,
                Recount, Answer, tables
  <2>2. <<o, "number">> \in torn <=> <<o, "number">> \in torn'
    BY <1>4 DEF FindSource, InsertSource, SkipEntry, ConfirmIdentity, LinkConfirmed,
                Recount, Answer, tables
  <2>3. /\ req[r].pc # "number" /\ req'[r].pc # "number"
        /\ \A q \in Requests \ {r} : req'[q] = req[q]
    <3>1. req \in [Requests -> [pc : RequestPcs, at : Nat]]
      BY DEF AggInv, TypeOK, RequestPcs
    <3>2. CASE SkipEntry(r) \/ Recount(r)
      BY <3>1, <3>2 DEF SkipEntry, Recount
    <3>3. CASE ~(SkipEntry(r) \/ Recount(r))
      <4>1. PICK label \in {"refused", "entry", "source", "done", "evidence", "recount"} :
                Goto(r, label)
        BY <1>4, <3>3 DEF FindSource, InsertSource, ConfirmIdentity, LinkConfirmed, Answer
      <4>2. req[r].pc # "number"
        BY <1>4, <3>3 DEF FindSource, InsertSource, ConfirmIdentity, LinkConfirmed, Answer
      <4>3. QED
        BY <3>1, <4>1, <4>2 DEF Goto
    <3>4. QED
      BY <3>2, <3>3
  <2>4. QED
    BY <2>1, <2>2, <2>3 DEF Uncounted, Entry
<1>5. ASSUME NEW r \in Requests, RecordObservation(r)
      PROVE  /\ counted' = counted
             /\ o \in observed /\ ~Uncounted(o) <=> o \in observed' /\ ~Uncounted(o)'
  <2>1. /\ counted' = counted /\ torn' = torn /\ observed' = observed \cup {Entry(r)}
        /\ req'[r].pc = "number" /\ req'[r].at = req[r].at /\ req[r].pc = "entry"
        /\ \A q \in Requests \ {r} : req'[q] = req[q]
    BY <1>5 DEF RecordObservation, Goto, AggInv, TypeOK
  <2>2. Entry(r) \notin observed
    BY <1>1, <1>5, <2>1 DEF RecordObservation, RequestSound, Entry, Stages
  <2>3. QED
    BY <2>1, <2>2 DEF Uncounted, Entry
<1>6. ASSUME NEW r \in Requests, CountNumber(r)
      PROVE  o \in observed' /\ ~Uncounted(o)' <=>
                o = Entry(r) \/ (o \in observed /\ ~Uncounted(o))
  <2>1. /\ torn' = torn /\ observed' = observed
        /\ req'[r].pc = "identity" /\ req[r].pc = "number"
        /\ \A q \in Requests \ {r} : req'[q] = req[q]
    BY <1>6 DEF CountNumber, Goto, AggInv, TypeOK
  <2>2. /\ req[r].at \in DOMAIN Entries[r] /\ Entry(r) \in observed
        /\ <<Entry(r), "number">> \notin torn
    <3>1. req[r].at \in DOMAIN Entries[r] /\ Entry(r) \in observed
      BY <1>1, <2>1 DEF RequestSound, Stages
    <3>2. \A t \in torn : t[1] # Entry(r)
      BY <1>1, <2>1, <3>1 DEF RequestSound, Entry
    <3>3. QED
      BY <3>1, <3>2
  <2>3. \A q \in Requests \ {r} : req[q].pc = "number" => Entry(q) # Entry(r)
    <3> SUFFICES ASSUME NEW q \in Requests \ {r}, req[q].pc = "number"
                 PROVE  Entry(q) # Entry(r)
      OBVIOUS
    <3>1. req[q].at \in DOMAIN Entries[q]
      BY <1>1 DEF RequestSound, Stages
    <3>2. Entry(q) \in Mine(q) /\ Entry(r) \in Mine(r)
      BY <2>2, <3>1 DEF Entry, Mine
    <3>3. QED
      BY <3>2, EntriesApart
  <2>4. QED
    BY <2>1, <2>2, <2>3 DEF Uncounted, Entry
<1>7. ASSUME NEW r \in Requests, RequestDies(r)
      PROVE  /\ counted' = counted
             /\ o \in observed /\ ~Uncounted(o) <=> o \in observed' /\ ~Uncounted(o)'
  <2>1. /\ counted' = counted /\ observed' = observed
        /\ torn' = torn \cup {<<Entry(r), req[r].pc>>}
        /\ req'[r].pc = "dead"
        /\ \A q \in Requests \ {r} : req'[q] = req[q]
    BY <1>7 DEF RequestDies, Goto, AggInv, TypeOK, tables
  <2>2. QED
    BY <2>1 DEF Uncounted, Entry
<1>8. QED
  BY <1>2, <1>3, <1>4, <1>5, <1>6, <1>7 DEF Next, RequestStep

LEMMA ObservationsStep ==
    ASSUME AggInv, AggInv', ObservationsAccounted, [Next]_vars
    PROVE  ObservationsAccounted'
<1> SUFFICES ASSUME NEW p \in Phones
             PROVE  counted'[p] = Cardinality({o \in observed' :
                                        About[o].phone = p /\ ~Uncounted(o)'})
  BY DEF ObservationsAccounted
<1> DEFINE done == {o \in observed : About[o].phone = p /\ ~Uncounted(o)}
           doneNext == {o \in observed' : About[o].phone = p /\ ~Uncounted(o)'}
<1>1. /\ done \in SUBSET Observations /\ doneNext \subseteq Observations
      /\ counted[p] = Cardinality(done) /\ counted[p] \in Nat
  BY DEF AggInv, TypeOK, ObservationsAccounted
<1>2. CASE \E r \in Requests : CountNumber(r)
  <2>1. PICK r \in Requests : CountNumber(r)
    BY <1>2
  <2> DEFINE e == Entry(r)
  <2>2. /\ counted' = [counted EXCEPT ![About[e].phone] = @ + 1]
        /\ req[r].pc = "number" /\ observed' = observed
    BY <2>1 DEF CountNumber
  <2>3. e \in Observations /\ About[e].phone \in Phones
    BY <2>2, EntryFacts DEF Stages
  <2>4. e \notin done
    BY <2>2 DEF Uncounted
  <2>5. \A o \in Observations :
            o \in observed' /\ ~Uncounted(o)' <=> o = e \/ (o \in observed /\ ~Uncounted(o))
    <3> SUFFICES ASSUME NEW o \in Observations
                 PROVE  o \in observed' /\ ~Uncounted(o)'
                            <=> o = e \/ (o \in observed /\ ~Uncounted(o))
      OBVIOUS
    <3>1. counted' # counted
      BY <2>2, <2>3 DEF AggInv, TypeOK
    <3>2. PICK q \in Requests :
            /\ CountNumber(q)
            /\ o \in observed' /\ ~Uncounted(o)' <=>
                    o = Entry(q) \/ (o \in observed /\ ~Uncounted(o))
      BY <3>1, UncountedMoves
    <3>3. q = r
      BY <2>1, <3>2 DEF CountNumber, Goto, AggInv, TypeOK
    <3>4. QED
      BY <3>2, <3>3
  <2>6. CASE About[e].phone = p
    <3>1. doneNext = done \cup {e}
      BY <1>1, <2>3, <2>5, <2>6
    <3>2. Cardinality(doneNext) = Cardinality(done) + 1
      BY <1>1, <2>4, <3>1, ObservationsFinite, FS_AddElement
    <3>3. counted'[p] = counted[p] + 1
      BY <2>2, <2>6 DEF AggInv, TypeOK
    <3>4. QED
      BY <1>1, <3>2, <3>3
  <2>7. CASE About[e].phone # p
    <3>1. doneNext = done
      BY <1>1, <2>3, <2>5, <2>7
    <3>2. counted'[p] = counted[p]
      BY <2>2, <2>7 DEF AggInv, TypeOK
    <3>3. QED
      BY <1>1, <3>1, <3>2
  <2>8. QED
    BY <2>6, <2>7
<1>3. CASE ~\E r \in Requests : CountNumber(r)
  <2>1. \A o \in Observations :
            o \in observed /\ ~Uncounted(o) <=> o \in observed' /\ ~Uncounted(o)'
    BY <1>3, UncountedMoves
  <2>2. doneNext = done
    BY <1>1, <2>1
  <2>3. counted' = counted
    BY <1>3 DEF Next, AggregatorStep, AggregatorCrashes, RequestStep, StartRun, TakePhone,
                UpsertIdentity, LinkRule, FinishRun, FindSource, InsertSource, SkipEntry,
                RecordObservation, ConfirmIdentity, LinkConfirmed, Recount, Answer,
                RequestDies, vars, tables
  <2>4. QED
    BY <1>1, <2>2, <2>3
<1>4. QED
  BY <1>2, <1>3

\* Only a Recount of k itself ends the wait for it.
LEMMA AwaitKept ==
    ASSUME AggInv, [Next]_vars, NEW k \in Keys, AwaitsRecount(k),
           ~\E r \in Requests : Recount(r) /\ UserKey(Entry(r)) = k
    PROVE  AwaitsRecount(k)'
<1>1. req \in [Requests -> [pc : RequestPcs, at : Nat]]
  BY DEF AggInv, TypeOK, RequestPcs
<1>2. CASE \E t \in torn : t[2] \in {"evidence", "recount"} /\ UserKey(t[1]) = k
  <2>1. PICK t \in torn : t[2] \in {"evidence", "recount"} /\ UserKey(t[1]) = k
    BY <1>2
  <2>2. t \in torn'
    BY <2>1 DEF Next, AggregatorStep, AggregatorCrashes, RequestStep, StartRun, TakePhone,
                UpsertIdentity, LinkRule, FinishRun, FindSource, InsertSource, SkipEntry,
                RecordObservation, CountNumber, ConfirmIdentity, LinkConfirmed, Recount,
                Answer, RequestDies, vars, tables
  <2>3. QED
    BY <2>1, <2>2 DEF AwaitsRecount
<1>3. CASE \E q \in Requests :
                req[q].pc \in {"evidence", "recount"} /\ UserKey(Entry(q)) = k
  <2>1. PICK q \in Requests :
            req[q].pc \in {"evidence", "recount"} /\ UserKey(Entry(q)) = k
    BY <1>3
  <2>2. CASE req'[q] = req[q]
    BY <2>1, <2>2 DEF AwaitsRecount, Entry
  <2>3. CASE LinkConfirmed(q)
    <3>1. req'[q].pc = "recount" /\ req'[q].at = req[q].at
      BY <1>1, <2>3 DEF LinkConfirmed, Goto
    <3>2. QED
      BY <2>1, <3>1 DEF AwaitsRecount, Entry
  <2>4. CASE RequestDies(q)
    <3>1. <<Entry(q), req[q].pc>> \in torn'
      BY <2>1, <2>4 DEF RequestDies, Stages
    <3>2. QED
      BY <2>1, <3>1 DEF AwaitsRecount
  <2>5. ~Recount(q)
    BY <2>1
  <2>6. CASE RequestStep(q)
    BY <2>1, <2>3, <2>4, <2>5, <2>6
       DEF RequestStep, FindSource, InsertSource, SkipEntry, RecordObservation,
           CountNumber, ConfirmIdentity, Answer
  <2>7. CASE \E r \in Requests \ {q} : RequestStep(r)
    <3>1. req'[q] = req[q]
      BY <1>1, <2>7
         DEF RequestStep, FindSource, InsertSource, SkipEntry, RecordObservation,
             CountNumber, ConfirmIdentity, LinkConfirmed, Recount, Answer, RequestDies, Goto
    <3>2. QED
      BY <2>2, <3>1
  <2>8. CASE UNCHANGED vars \/ \E a \in Aggregators : AggregatorStep(a) \/ AggregatorCrashes(a)
    <3>1. req' = req
      BY <2>8 DEF vars, AggregatorStep, AggregatorCrashes, StartRun, TakePhone,
                  UpsertIdentity, LinkRule, FinishRun
    <3>2. QED
      BY <2>2, <3>1
  <2>9. QED
    BY <2>6, <2>7, <2>8 DEF Next
<1>4. QED
  BY <1>2, <1>3 DEF AwaitsRecount

LEMMA ConfirmedStep ==
    ASSUME AggInv, AggInv', ConfirmedCountsExact, [Next]_vars
    PROVE  ConfirmedCountsExact'
<1> SUFFICES ASSUME NEW k \in Keys, k.claim = "user_confirmed_v1", identity'[k] # None,
                    ~AwaitsRecount(k)'
             PROVE  identity'[k].evidenceCount = Cardinality(Links(k)')
  BY DEF ConfirmedCountsExact
<1>1. identity \in [Keys -> IdentityRow \cup {None}]
      /\ req \in [Requests -> [pc : RequestPcs, at : Nat]]
  BY DEF AggInv, TypeOK, RequestPcs
<1>2. CASE \E r \in Requests : Recount(r) /\ UserKey(Entry(r)) = k
  <2>1. PICK r \in Requests : Recount(r) /\ UserKey(Entry(r)) = k
    BY <1>2
  <2>2. identity'[k].evidenceCount = Recounted(k)
    BY <2>1, ConfirmedWrites
  <2>3. Links(k)' = Links(k)
    BY <2>1 DEF Recount, Links
  <2>4. QED
    BY <2>2, <2>3 DEF Recounted
<1>3. CASE ~\E r \in Requests : Recount(r) /\ UserKey(Entry(r)) = k
  <2>1. ~AwaitsRecount(k)
    BY <1>3, AwaitKept
  <2>2. Links(k)' = Links(k)
    <3> SUFFICES ASSUME NEW o \in Observations, <<k, o>> \in evidence', <<k, o>> \notin evidence
                 PROVE  FALSE
      BY AggStep DEF Links, Grown
    <3>1. ASSUME NEW a \in Aggregators, NEW q \in Observations, LinkRule(a, q) PROVE FALSE
      <4>1. k = RuleKey(agg[a].phone, agg[a].name)
        BY <3>1 DEF LinkRule
      <4>2. agg[a].phone \in Phones /\ agg[a].name \in Names
        BY <3>1 DEF LinkRule, AggInv, RunsSound, RunSound
      <4>3. QED
        BY <4>1, <4>2, RuleKeyTyped
    <3>2. ASSUME NEW r \in Requests, LinkConfirmed(r) PROVE FALSE
      <4>1. k = UserKey(Entry(r)) /\ req[r].pc = "evidence"
        BY <3>2 DEF LinkConfirmed
      <4>2. QED
        BY <2>1, <4>1 DEF AwaitsRecount
    <3>3. QED
      BY <3>1, <3>2, EvidenceWriters
  <2>3. identity'[k] = identity[k]
    <3>1. ASSUME NEW a \in Aggregators, NEW n \in Names, UpsertIdentity(a, n)
          PROVE  identity'[k] = identity[k]
      <4>1. agg[a].phone \in Phones
        BY <3>1 DEF UpsertIdentity, AggInv, RunsSound, RunSound
      <4>2. k # RuleKey(agg[a].phone, n)
        BY <4>1, RuleKeyTyped
      <4>3. QED
        BY <1>1, <3>1, <4>2, UpsertWrites
    <3>2. ASSUME NEW r \in Requests, ConfirmIdentity(r), UserKey(Entry(r)) = k PROVE FALSE
      <4>1. req'[r].pc = "evidence" /\ req'[r].at = req[r].at
        BY <1>1, <3>2 DEF ConfirmIdentity, Goto
      <4>2. AwaitsRecount(k)'
        BY <3>2, <4>1 DEF AwaitsRecount, Entry
      <4>3. QED
        BY <4>2
    <3>3. ASSUME NEW r \in Requests, ConfirmIdentity(r) \/ Recount(r),
                 UserKey(Entry(r)) # k
          PROVE  identity'[k] = identity[k]
      BY <1>1, <3>3, ConfirmedWrites
    <3>4. QED
      BY <1>3, <3>1, <3>2, <3>3, IdentityWriters
  <2>4. QED
    BY <2>1, <2>2, <2>3 DEF ConfirmedCountsExact
<1>4. QED
  BY <1>2, <1>3

\* Whatever an import of call-log entries leaves, finished, refused, under way
\* or dead between two statements, is accounted for: observation_count misses
\* exactly the observations cut off before it, a confirmed evidence_count is
\* the number of links unless an import awaits or died before its recount,
\* and entries are whole up to the one in hand.
THEOREM ImportsAreAccounted == Spec => []ImportsAccounted
<1>1. Init => ObservationsAccounted /\ ConfirmedCountsExact
  <2> SUFFICES ASSUME Init PROVE ObservationsAccounted /\ ConfirmedCountsExact
    OBVIOUS
  <2>1. \A o \in Crawled : ~Uncounted(o)
    BY DEF Init, Uncounted
  <2>2. ASSUME NEW p \in Phones
        PROVE  {o \in observed : About[o].phone = p /\ ~Uncounted(o)}
                    = {o \in Crawled : About[o].phone = p}
    BY <2>1 DEF Init
  <2>3. QED
    BY <2>2 DEF Init, ObservationsAccounted, ConfirmedCountsExact
<1>2. AggInv => TypeOK /\ EntriesWhole
  <2> SUFFICES ASSUME AggInv, NEW r \in Requests, NEW i \in DOMAIN Entries[r]
               PROVE  LET e == Entries[r][i] IN
                      IF req[r].pc = "refused" THEN e \notin observed
                      ELSE i < req[r].at /\ About[e].phone # NoPhone =>
                            /\ e \in observed /\ counted[About[e].phone] > 0
                            /\ identity[UserKey(e)] # None /\ <<UserKey(e), e>> \in evidence
    BY DEF AggInv, EntriesWhole
  <2>1. RequestSound(r) /\ i \in Nat \ {0}
    BY EntryPlaces DEF AggInv, RequestsSound
  <2>2. CASE req[r].pc = "refused"
    BY <2>1, <2>2 DEF RequestSound, Stages
  <2>3. CASE req[r].pc # "refused"
    BY <2>1, <2>3 DEF RequestSound, Imported
  <2>4. QED
    BY <2>2, <2>3
<1>3. QED
  BY <1>1, <1>2, AggStep, ObservationsStep, ConfirmedStep, AggInvariant, PTL
     DEF Spec, ImportsAccounted

-----------------------------------------------------------------------------
(* One undisturbed run settles.                                            *)

\* What a run alone has done so far: every candidate of a number with a row
\* is still to come, in hand with its row written and the observations no
\* longer in its list linked, or done.
OnItsWay(a, p, n) ==
    \/ p \in agg[a].phones
    \/ agg[a].pc \in {"names", "links"} /\ p = agg[a].phone /\ n \in agg[a].names
    \/ /\ agg[a].pc = "links" /\ p = agg[a].phone /\ n = agg[a].name
       /\ identity[RuleKey(p, n)] # None
       /\ FromOneSet(identity[RuleKey(p, n)], Members(Select, p, n))
       /\ Members(Select, p, n) \subseteq Links(RuleKey(p, n)) \cup agg[a].links
    \/ Agrees(p, n)

Progress(a) ==
    \A p \in Phones : counted[p] > 0 => \A n \in NamesOf(Select, p) : OnItsWay(a, p, n)

\* A run that nobody disturbed is the only one, has read what is there, and
\* makes progress.
AloneSound ==
    \A a \in Aggregators : agg[a].pc # "idle" /\ agg[a].alone =>
        Active = {a} /\ agg[a].rows = Select /\ Progress(a)

\* Once settled, all agree, and whoever runs has read what is there.
SettledSound ==
    settled => /\ AllAgree
               /\ \A a \in Aggregators : agg[a].pc # "idle" => agg[a].rows = Select

\* Evidence of a rule's identity never exceeds its observations.
LEMMA LinksBounded ==
    ASSUME ClaimsTraceable', NEW p \in Phones, NEW n \in Names
    PROVE  Links(RuleKey(p, n))' \subseteq Members(Select, p, n)'
<1> DEFINE k == RuleKey(p, n)
<1>1. ASSUME NEW o \in Links(k)' PROVE o \in Members(Select, p, n)'
  <2>1. k \in Keys /\ k.claim # "user_confirmed_v1" /\ k.phone = p /\ k.name = n
    BY RuleKeyTyped
  <2>2. o \in observed' /\ About[o].phone = p /\ GuessName(About[o]) = n
    BY <1>1, <2>1 DEF ClaimsTraceable, LinksTraceable
  <2>3. p # NoPhone
    BY IdentityConstantsOK DEF IdentityConstantsOK
  <2>4. QED
    BY <2>2, <2>3 DEF Members, Select
<1>2. QED
  BY <1>1 DEF RuleKey

\* The row of a candidate changes only by an upsert of this candidate.
LEMMA RuleRowMoves ==
    ASSUME AggInv, [Next]_vars, NEW p \in Phones, NEW n \in Names,
           identity'[RuleKey(p, n)] # identity[RuleKey(p, n)]
    PROVE  \E a \in Aggregators : UpsertIdentity(a, n) /\ agg[a].phone = p
<1>1. RuleKey(p, n) \in Keys /\ RuleKey(p, n).claim # "user_confirmed_v1"
  BY RuleKeyTyped
<1>2. identity \in [Keys -> IdentityRow \cup {None}]
  BY DEF AggInv, TypeOK
<1>3. ASSUME NEW r \in Requests, ConfirmIdentity(r) \/ Recount(r) PROVE FALSE
  BY <1>1, <1>2, <1>3, ConfirmedWrites
<1>4. ASSUME NEW a \in Aggregators, NEW m \in Names, UpsertIdentity(a, m)
      PROVE  m = n /\ agg[a].phone = p
  BY <1>1, <1>2, <1>4, UpsertWrites, RuleKeyTyped
<1>5. QED
  BY <1>3, <1>4, IdentityWriters

\* An upsert from what is there leaves count and score right.
LEMMA UpsertAgrees ==
    ASSUME AggInv, NEW a \in Aggregators, NEW n \in Names, UpsertIdentity(a, n),
           agg[a].rows = Select
    PROVE  /\ identity'[RuleKey(agg[a].phone, n)] # None
           /\ FromOneSet(identity'[RuleKey(agg[a].phone, n)],
                         Members(Select, agg[a].phone, n))
<1> DEFINE k == RuleKey(agg[a].phone, n)
           rows == Members(Select, agg[a].phone, n)
<1>1. PICK c : identity'[k] = Upserted(identity[k], rows, c)
  BY UpsertWrites
<1>2. identity'[k] # None /\ identity[k] \in IdentityRow \cup {None}
  BY UpsertWrites DEF AggInv, TypeOK
<1> HIDE DEF k, rows
<1>3. CASE identity[k] = None
  BY <1>1, <1>2, <1>3 DEF Upserted, FromOneSet, k, rows
<1>4. CASE identity[k] # None
  BY <1>1, <1>2, <1>4 DEF Upserted, FromOneSet, IdentityRow, k, rows
<1>5. QED
  BY <1>3, <1>4

\* A candidate that agrees goes on agreeing while no observation arrives and
\* every run has read what is there.
LEMMA AgreesKept ==
    ASSUME AggInv, AggInv', Grown, ClaimsTraceable', [Next]_vars, observed' = observed,
           \A a \in Aggregators : agg[a].pc # "idle" => agg[a].rows = Select,
           NEW p \in Phones, NEW n \in Names, Agrees(p, n)
    PROVE  Agrees(p, n)'
<1> DEFINE k == RuleKey(p, n)
           rows == Members(Select, p, n)
<1>1. Select' = Select /\ Members(Select, p, n)' = rows
  BY DEF Select, Members
<1>2. identity'[k] # None /\ FromOneSet(identity'[k], rows)
  <2>1. CASE identity'[k] = identity[k]
    BY <2>1 DEF Agrees
  <2>2. CASE identity'[k] # identity[k]
    <3>1. PICK a \in Aggregators : UpsertIdentity(a, n) /\ agg[a].phone = p
      BY <2>2, RuleRowMoves
    <3>2. agg[a].rows = Select
      BY <3>1 DEF UpsertIdentity
    <3>3. QED
      BY <3>1, <3>2, UpsertAgrees
  <2>3. QED
    BY <2>1, <2>2
<1>3. Links(k)' = rows
  <2>1. Links(k)' \subseteq Members(Select, p, n)'
    BY LinksBounded DEF RuleKey
  <2>2. Links(k) \subseteq Links(k)'
    BY DEF Links, Grown
  <2>3. QED
    BY <1>1, <2>1, <2>2 DEF Agrees
<1>4. QED
  BY <1>1, <1>2, <1>3 DEF Agrees, RuleKey

LEMMA Arrivals ==
    ASSUME AggInv, [Next]_vars, ~Arrives
    PROVE  observed' = observed /\ \A p \in Phones : counted'[p] > 0 <=> counted[p] > 0
<1>1. CASE \E r \in Requests : CountNumber(r)
  <2>1. PICK r \in Requests : CountNumber(r)
    BY <1>1
  <2>2. counted[About[Entry(r)].phone] # 0 /\ About[Entry(r)].phone \in Phones
    BY <2>1, EntryFacts DEF CountNumber, Stages
  <2>3. QED
    BY <2>1, <2>2 DEF CountNumber, AggInv, TypeOK
<1>2. CASE ~\E r \in Requests : CountNumber(r)
  BY <1>2 DEF Next, AggregatorStep, AggregatorCrashes, RequestStep, StartRun, TakePhone,
              UpsertIdentity, LinkRule, FinishRun, FindSource, InsertSource, SkipEntry,
              RecordObservation, ConfirmIdentity, LinkConfirmed, Recount, Answer,
              RequestDies, vars, tables
<1>3. QED
  BY <1>1, <1>2

\* Who moves which run: a start, a step of the run itself, or nobody.
LEMMA RunMoves ==
    ASSUME AggInv, [Next]_vars, ~Arrives, NEW a \in Aggregators
    PROVE  \/ agg'[a] = agg[a]
           \/ StartRun(a)
           \/ \E b \in Aggregators \ {a} : StartRun(b)
           \/ \E p \in Phones : TakePhone(a, p)
           \/ \E n \in Names : UpsertIdentity(a, n)
           \/ \E o \in Observations : LinkRule(a, o)
           \/ agg'[a].pc = "idle"
<1>1. agg \in [Aggregators -> Run]
  BY DEF AggInv, TypeOK
<1>2. ASSUME NEW b \in Aggregators \ {a}, AggregatorStep(b) \/ AggregatorCrashes(b)
      PROVE  agg'[a] = agg[a] \/ StartRun(b)
  BY <1>1, <1>2 DEF AggregatorStep, AggregatorCrashes, TakePhone, UpsertIdentity,
                    LinkRule, FinishRun
<1>3. ASSUME FinishRun(a) \/ AggregatorCrashes(a) PROVE agg'[a].pc = "idle"
  BY <1>1, <1>3 DEF FinishRun, AggregatorCrashes, NoRun
<1>4. ASSUME NEW r \in Requests, RequestStep(r) PROVE agg' = agg
  BY <1>4 DEF RequestStep, FindSource, InsertSource, SkipEntry, RecordObservation,
              CountNumber, ConfirmIdentity, LinkConfirmed, Recount, Answer, RequestDies
<1>5. CASE UNCHANGED vars
  BY <1>5 DEF vars
<1>6. QED
  BY <1>2, <1>3, <1>4, <1>5 DEF Next, AggregatorStep

LEMMA RowsMove ==
    ASSUME AggInv, [Next]_vars, ~Arrives, NEW a \in Aggregators, agg'[a].pc # "idle"
    PROVE  agg'[a].rows = Select \/ (agg[a].pc # "idle" /\ agg'[a].rows = agg[a].rows)
<1>1. agg \in [Aggregators -> Run] /\ agg[a] \in Run
  BY DEF AggInv, TypeOK
<1>2. CASE StartRun(a)
  BY <1>1, <1>2 DEF StartRun, NoRun
<1>3. CASE \E b \in Aggregators \ {a} : StartRun(b)
  <2>1. agg'[a] = [agg[a] EXCEPT !.alone = FALSE]
    BY <1>3 DEF StartRun
  <2>2. QED
    BY <1>1, <2>1 DEF Run
<1>4. CASE \E p \in Phones : TakePhone(a, p)
  BY <1>1, <1>4 DEF TakePhone, Run
<1>5. CASE \E n \in Names : UpsertIdentity(a, n)
  BY <1>1, <1>5 DEF UpsertIdentity, Run
<1>6. CASE \E o \in Observations : LinkRule(a, o)
  BY <1>1, <1>6 DEF LinkRule, Run
<1>7. QED
  BY <1>2, <1>3, <1>4, <1>5, <1>6, RunMoves

LEMMA SettledStep ==
    ASSUME AggInv, AggInv', Grown, ClaimsTraceable', [Next]_vars, SettledSound, AloneSound
    PROVE  SettledSound'
<1> SUFFICES ASSUME settled', ~Arrives PROVE SettledSound'
  BY DEF SettledSound, Arrives
<1>1. observed' = observed /\ Select' = Select
      /\ \A p \in Phones : counted'[p] > 0 <=> counted[p] > 0
  BY Arrivals DEF Select
<1>2. \A p \in Phones : NamesOf(Select, p)' = NamesOf(Select, p)
                        /\ NamesOf(Select, p) \subseteq Names
  <2>1. Select \in SUBSET Observations
    BY DEF Select, AggInv, TypeOK
  <2>2. QED
    BY <1>1, <2>1, NamesTyped DEF NamesOf
<1>3. CASE settled
  <2>1. \A a \in Aggregators : agg[a].pc # "idle" => agg[a].rows = Select
    BY <1>3 DEF SettledSound
  <2>2. AllAgree'
    <3> SUFFICES ASSUME NEW p \in Phones, counted'[p] > 0, NEW n \in NamesOf(Select, p)
                 PROVE  Agrees(p, n)'
      BY <1>2 DEF AllAgree
    <3>1. n \in Names /\ Agrees(p, n)
      BY <1>1, <1>2, <1>3 DEF SettledSound, AllAgree
    <3>2. QED
      BY <1>1, <2>1, <3>1, AgreesKept
  <2>3. ASSUME NEW a \in Aggregators, agg'[a].pc # "idle" PROVE agg'[a].rows = Select'
    BY <1>1, <2>1, <2>3, RowsMove
  <2>4. QED
    BY <2>2, <2>3 DEF SettledSound
<1>4. CASE ~settled
  <2>1. PICK a \in Aggregators : FinishRun(a) /\ agg[a].alone
    BY <1>4 DEF Next, AggregatorStep, AggregatorCrashes, RequestStep, StartRun, TakePhone,
                UpsertIdentity, LinkRule, FinishRun, FindSource, InsertSource, SkipEntry,
                RecordObservation, CountNumber, ConfirmIdentity, LinkConfirmed, Recount,
                Answer, RequestDies, vars, Arrives
  <2>2. /\ Active = {a} /\ Progress(a) /\ agg[a].pc = "phones" /\ agg[a].phones = {}
        /\ agg' = [agg EXCEPT ![a] = NoRun] /\ UNCHANGED tables
    BY <2>1 DEF AloneSound, FinishRun
  <2>3. AllAgree
    BY <2>2 DEF AllAgree, Progress, OnItsWay
  <2>4. AllAgree'
    <3> SUFFICES ASSUME NEW p \in Phones, counted'[p] > 0, NEW n \in NamesOf(Select, p)
                 PROVE  Agrees(p, n)'
      BY <1>2 DEF AllAgree
    <3>1. Agrees(p, n)
      BY <1>1, <2>3 DEF AllAgree
    <3>2. QED
      BY <1>1, <2>2, <3>1 DEF tables, Agrees, Links
  <2>5. \A b \in Aggregators : agg'[b].pc = "idle"
    BY <2>2 DEF Active, NoRun, AggInv, TypeOK
  <2>6. QED
    BY <2>4, <2>5 DEF SettledSound
<1>5. QED
  BY <1>3, <1>4

LEMMA AloneStep ==
    ASSUME AggInv, AggInv', Grown, ClaimsTraceable', [Next]_vars, AloneSound
    PROVE  AloneSound'
<1> SUFFICES ASSUME NEW a \in Aggregators, agg'[a].pc # "idle", agg'[a].alone
             PROVE  Active' = {a} /\ agg'[a].rows = Select' /\ Progress(a)'
  BY DEF AloneSound
<1>1. agg \in [Aggregators -> Run] /\ agg[a] \in Run
  BY DEF AggInv, TypeOK
<1>2. ~Arrives
  <2> SUFFICES ASSUME Arrives PROVE FALSE
    OBVIOUS
  <2>1. agg'[a] = [agg[a] EXCEPT !.alone = FALSE]
    BY DEF Arrives
  <2>2. QED
    BY <1>1, <2>1 DEF Run
<1>3. observed' = observed /\ Select' = Select
      /\ \A p \in Phones : counted'[p] > 0 <=> counted[p] > 0
  BY <1>2, Arrivals DEF Select
<1>4. \A p \in Phones : NamesOf(Select, p)' = NamesOf(Select, p)
                        /\ NamesOf(Select, p) \subseteq Names
  <2>1. Select \in SUBSET Observations
    BY DEF Select, AggInv, TypeOK
  <2>2. QED
    BY <1>3, <2>1, NamesTyped DEF NamesOf
<1>5. ~\E b \in Aggregators \ {a} : StartRun(b)
  <2> SUFFICES ASSUME NEW b \in Aggregators \ {a}, StartRun(b) PROVE FALSE
    OBVIOUS
  <2>1. agg'[a] = [agg[a] EXCEPT !.alone = FALSE]
    BY DEF StartRun
  <2>2. QED
    BY <1>1, <2>1 DEF Run
<1>6. CASE StartRun(a)
  <2>1. agg'[a] = [NoRun EXCEPT !.pc = "phones", !.rows = Select,
                          !.phones = {About[o].phone : o \in Select},
                          !.alone = (Active = {})]
    BY <1>6 DEF StartRun
  <2>2. \A b \in Aggregators \ {a} : agg'[b].pc = agg[b].pc
    <3> SUFFICES ASSUME NEW b \in Aggregators \ {a} PROVE agg'[b].pc = agg[b].pc
      OBVIOUS
    <3>1. agg'[b] = [agg[b] EXCEPT !.alone = FALSE]
      BY <1>6 DEF StartRun
    <3>2. agg[b] \in Run
      BY <1>1
    <3>3. QED
      BY <3>1, <3>2 DEF Run
  <2>3. Active = {} /\ agg'[a].rows = Select
        /\ agg'[a].phones = {About[o].phone : o \in Select}
    <3>1. agg'[a].alone = (Active = {})
      BY <2>1 DEF NoRun
    <3>2. agg'[a].rows = Select
      BY <2>1 DEF NoRun
    <3>3. agg'[a].phones = {About[o].phone : o \in Select}
      BY <2>1 DEF NoRun
    <3>4. QED
      BY <3>1, <3>2, <3>3
  <2>4. Active' = {a}
    BY <2>2, <2>3 DEF Active
  <2>5. Progress(a)'
    <3> SUFFICES ASSUME NEW p \in Phones, NEW n \in NamesOf(Select, p)
                 PROVE  p \in agg'[a].phones
      BY <1>4 DEF Progress, OnItsWay
    <3>1. QED
      BY <2>3 DEF NamesOf
  <2>6. QED
    BY <1>3, <2>3, <2>4, <2>5
<1>7. ASSUME agg[a].pc # "idle", agg[a].alone,
             \A b \in Aggregators \ {a} : agg[b].pc = "idle" => agg'[b].pc = "idle",
             agg'[a].rows = agg[a].rows,
             \A p \in Phones, n \in Names :
                /\ counted[p] > 0 /\ n \in NamesOf(Select, p)
                /\ OnItsWay(a, p, n) /\ (Agrees(p, n) => Agrees(p, n)')
                => OnItsWay(a, p, n)'
      PROVE  Active' = {a} /\ agg'[a].rows = Select' /\ Progress(a)'
  <2>1. Active = {a} /\ agg[a].rows = Select /\ Progress(a)
    BY <1>7 DEF AloneSound
  <2>2. Active' = {a}
    BY <1>7, <2>1 DEF Active
  <2>3. \A b \in Aggregators : agg[b].pc # "idle" => agg[b].rows = Select
    BY <2>1 DEF Active
  <2>4. \A p \in Phones, n \in Names : Agrees(p, n) => Agrees(p, n)'
    BY <1>3, <2>3, AgreesKept
  <2>5. Progress(a)'
    <3> SUFFICES ASSUME NEW p \in Phones, counted'[p] > 0, NEW n \in NamesOf(Select, p)
                 PROVE  OnItsWay(a, p, n)'
      BY <1>4 DEF Progress
    <3>1. n \in Names /\ counted[p] > 0 /\ OnItsWay(a, p, n)
      BY <1>3, <1>4, <2>1 DEF Progress
    <3>2. QED
      BY <1>7, <2>4, <3>1
  <2>6. QED
    BY <1>3, <1>7, <2>1, <2>2, <2>5
<1>8. ASSUME agg'[a] = agg[a] PROVE Active' = {a} /\ agg'[a].rows = Select' /\ Progress(a)'
  <2>1. Active = {a} /\ agg[a].rows = Select
    BY <1>8 DEF AloneSound
  <2>2. \A b \in Aggregators \ {a} : agg[b].pc = "idle"
    BY <2>1 DEF Active
  <2>3. \A b \in Aggregators \ {a} : agg'[b].pc = "idle"
    <3> SUFFICES ASSUME NEW b \in Aggregators \ {a} PROVE agg'[b].pc = "idle"
      OBVIOUS
    <3>1. ~StartRun(a)
      BY <1>8 DEF StartRun
    <3>2. QED
      BY <1>2, <1>5, <2>2, <3>1, RunMoves DEF TakePhone, UpsertIdentity, LinkRule
  <2>4. ASSUME NEW p \in Phones, NEW n \in Names, OnItsWay(a, p, n),
               Agrees(p, n) => Agrees(p, n)'
        PROVE  OnItsWay(a, p, n)'
    <3>1. identity'[RuleKey(p, n)] = identity[RuleKey(p, n)]
      <4> SUFFICES ASSUME identity'[RuleKey(p, n)] # identity[RuleKey(p, n)] PROVE FALSE
        OBVIOUS
      <4>1. PICK b \in Aggregators : UpsertIdentity(b, n)
        BY RuleRowMoves
      <4>2. b = a
        BY <2>2, <4>1 DEF UpsertIdentity
      <4>3. agg[a].pc = "names" /\ agg'[a].pc = "links"
        BY <1>1, <4>1, <4>2 DEF UpsertIdentity, Run
      <4>4. QED
        BY <1>8, <4>3
    <3>2. Links(RuleKey(p, n)) \subseteq Links(RuleKey(p, n))'
      BY DEF Links, Grown, RuleKey
    <3>3. Members(Select, p, n)' = Members(Select, p, n)
      BY <1>3 DEF Members
    <3>4. QED
      BY <1>8, <2>4, <3>1, <3>2, <3>3 DEF OnItsWay, FromOneSet, RuleKey
  <2>5. QED
    BY <1>7, <1>8, <2>2, <2>3, <2>4
<1>9. ASSUME NEW q \in Phones, TakePhone(a, q)
      PROVE  Active' = {a} /\ agg'[a].rows = Select' /\ Progress(a)'
  <2>1. agg[a].pc = "phones" /\ UNCHANGED tables
    BY <1>9 DEF TakePhone
  <2>2. /\ agg'[a].rows = agg[a].rows /\ agg'[a].alone = agg[a].alone
        /\ agg'[a].phones = agg[a].phones \ {q}
        /\ counted[q] = 0 \/ /\ agg'[a].pc = "names" /\ agg'[a].phone = q
                             /\ agg'[a].names = NamesOf(agg[a].rows, q)
        /\ \A b \in Aggregators \ {a} : agg'[b] = agg[b]
    <3>1. CASE counted[q] = 0
      BY <1>1, <1>9, <3>1 DEF TakePhone, Run
    <3>2. CASE counted[q] # 0
      BY <1>1, <1>9, <3>2 DEF TakePhone, Run
    <3>3. QED
      BY <3>1, <3>2
  <2>3. agg[a].rows = Select
    BY <2>1, <2>2 DEF AloneSound
  <2>4. ASSUME NEW p \in Phones, NEW n \in Names, counted[p] > 0, n \in NamesOf(Select, p),
               OnItsWay(a, p, n), Agrees(p, n) => Agrees(p, n)'
        PROVE  OnItsWay(a, p, n)'
    BY <2>1, <2>2, <2>3, <2>4 DEF OnItsWay
  <2>5. QED
    BY <1>7, <2>1, <2>2, <2>4
<1>10. ASSUME NEW m \in Names, UpsertIdentity(a, m)
       PROVE  Active' = {a} /\ agg'[a].rows = Select' /\ Progress(a)'
  <2> DEFINE q == agg[a].phone
  <2>1. agg[a].pc = "names" /\ UNCHANGED <<evidence, observed>>
    BY <1>10 DEF UpsertIdentity
  <2>2. /\ agg'[a].rows = agg[a].rows /\ agg'[a].alone = agg[a].alone
        /\ agg'[a].phones = agg[a].phones /\ agg'[a].phone = q
        /\ agg'[a].pc = "links" /\ agg'[a].name = m /\ agg'[a].names = agg[a].names \ {m}
        /\ agg'[a].links = Members(agg[a].rows, q, m)
        /\ \A b \in Aggregators \ {a} : agg'[b] = agg[b]
    BY <1>1, <1>10 DEF UpsertIdentity, Run
  <2>3. agg[a].rows = Select
    BY <2>1, <2>2 DEF AloneSound
  <2>4. identity'[RuleKey(q, m)] # None
        /\ FromOneSet(identity'[RuleKey(q, m)], Members(Select, q, m))
    BY <1>10, <2>3, UpsertAgrees
  <2>5. ASSUME NEW p \in Phones, NEW n \in Names, OnItsWay(a, p, n),
               Agrees(p, n) => Agrees(p, n)'
        PROVE  OnItsWay(a, p, n)'
    <3>1. CASE p = q /\ n = m
      <4>1. Members(Select, p, n)' = Members(Select, p, n)
        BY <1>3 DEF Members
      <4>2. QED
        BY <2>2, <2>3, <2>4, <3>1, <4>1 DEF OnItsWay, FromOneSet, RuleKey
    <3>2. CASE ~(p = q /\ n = m)
      BY <2>1, <2>2, <2>5, <3>2 DEF OnItsWay
    <3>3. QED
      BY <3>1, <3>2
  <2>6. QED
    BY <1>7, <2>1, <2>2, <2>5
<1>11. ASSUME NEW o \in Observations, LinkRule(a, o)
       PROVE  Active' = {a} /\ agg'[a].rows = Select' /\ Progress(a)'
  <2> DEFINE q == agg[a].phone
             m == agg[a].name
             left == agg[a].links \ {o}
  <2>1. agg[a].pc = "links" /\ UNCHANGED <<identity, observed, counted>>
        /\ <<RuleKey(q, m), o>> \in evidence'
    BY <1>11 DEF LinkRule
  <2>2. /\ agg'[a].rows = agg[a].rows /\ agg'[a].alone = agg[a].alone
        /\ agg'[a].phones = agg[a].phones
        /\ left # {} \/ agg[a].names # {} =>
                agg'[a].phone = q /\ agg'[a].names = agg[a].names
                /\ agg'[a].pc \in {"names", "links"}
        /\ left # {} =>
                agg'[a].pc = "links" /\ agg'[a].name = m /\ agg'[a].links = left
        /\ \A b \in Aggregators \ {a} : agg'[b] = agg[b]
    <3>1. CASE left # {}
      BY <1>1, <1>11, <3>1 DEF LinkRule, Run
    <3>2. CASE left = {} /\ agg[a].names # {}
      BY <1>1, <1>11, <3>2 DEF LinkRule, Run
    <3>3. CASE left = {} /\ agg[a].names = {}
      BY <1>1, <1>11, <3>3 DEF LinkRule, Run
    <3>4. QED
      BY <3>1, <3>2, <3>3
  <2>3. ASSUME NEW p \in Phones, NEW n \in Names, OnItsWay(a, p, n),
               Agrees(p, n) => Agrees(p, n)'
        PROVE  OnItsWay(a, p, n)'
    <3> DEFINE k == RuleKey(p, n)
               rows == Members(Select, p, n)
    <3>1. Links(k) \subseteq Links(k)' /\ Links(k)' \subseteq rows' /\ rows' = rows
      BY <1>3, LinksBounded DEF Links, Grown, RuleKey, Members
    <3>2. CASE p \in agg[a].phones \/ Agrees(p, n)
      BY <2>2, <2>3, <3>2 DEF OnItsWay
    <3>3. CASE p = q /\ n \in agg[a].names
      BY <2>2, <3>3 DEF OnItsWay
    <3>4. CASE /\ p = q /\ n = m /\ identity[k] # None
               /\ FromOneSet(identity[k], rows) /\ rows \subseteq Links(k) \cup agg[a].links
      <4>1. o \in Links(k)'
        BY <2>1, <3>4 DEF Links, RuleKey
      <4>2. rows \subseteq Links(k)' \cup left
        BY <3>1, <3>4, <4>1
      <4>3. identity'[k] # None /\ FromOneSet(identity[k], rows)'
        BY <2>1, <3>1, <3>4 DEF FromOneSet, RuleKey
      <4>4. CASE left # {}
        BY <2>2, <3>1, <3>4, <4>2, <4>3, <4>4 DEF OnItsWay, RuleKey
      <4>5. CASE left = {}
        BY <3>1, <4>2, <4>3, <4>5 DEF OnItsWay, Agrees, RuleKey
      <4>6. QED
        BY <4>4, <4>5
    <3>5. QED
      BY <2>3, <3>2, <3>3, <3>4 DEF OnItsWay
  <2>4. QED
    BY <1>7, <2>1, <2>2, <2>3
<1>12. QED
  BY <1>2, <1>5, <1>6, <1>8, <1>9, <1>10, <1>11, RunMoves

\* One run that nobody disturbed brings every count, score and link in line
\* with the observations, and no later run takes them out of line again,
\* whether it overlaps others or dies half way, until data arrives: the
\* convergence architecture.md promises, for any data and any interleaving.
THEOREM UndisturbedRunSettles == Spec => []SettledAgrees
<1>1. Init => SettledSound /\ AloneSound
  BY DEF Init, SettledSound, AloneSound, NoRun
<1>2. SettledSound => SettledAgrees
  BY DEF SettledSound, SettledAgrees
<1>3. QED
  BY <1>1, <1>2, AggStep, SettledStep, AloneStep, AggInvariant,
     ClaimsRestOnObservations, PTL DEF Spec
=============================================================================

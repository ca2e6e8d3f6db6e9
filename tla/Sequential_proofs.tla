------------------------- MODULE Sequential_proofs -------------------------
(***************************************************************************)
(* TLAPS proofs about what runs alone: the discovery of a domain, for every*)
(* site, list of rules, depth and number of URLs to queue; the normalizer, *)
(* for every text however long; the call-log parser, for every spelling,   *)
(* mark and rest of a line; the numbers a page shows and the words around   *)
(* them, for every page.                                                   *)
(***************************************************************************)
EXTENDS Sequential, FiniteSetTheorems, SequenceTheorems, WellFoundedInduction, TLAPS

-----------------------------------------------------------------------------
(* Least and greatest numbers.                                             *)

LEMMA Least ==
    ASSUME NEW S \in SUBSET Nat, S # {}
    PROVE  \E m \in S : \A k \in S : m <= k
<1>1. PICK m \in S : \A k \in S : <<k, m>> \notin OpToRel(<, Nat)
  BY NatLessThanWellFounded, WFMin
<1>2. \A k \in S : ~(k < m)
  BY <1>1 DEF OpToRel
<1>3. QED
  BY <1>2

\* Induction, on the set of the numbers that have the property.
LEMMA AllNumbers ==
    ASSUME NEW S, 0 \in S, \A n \in Nat : n \in S => n + 1 \in S
    PROVE  Nat \subseteq S
<1>1. SUFFICES ASSUME Nat \ S # {} PROVE FALSE
  OBVIOUS
<1>2. PICK m \in Nat \ S : \A k \in Nat \ S : m <= k
  BY <1>1, Least
<1>3. m # 0 /\ m - 1 \in Nat /\ m - 1 \in S
  BY <1>2
<1>4. m - 1 + 1 \in S /\ m - 1 + 1 = m
  BY <1>3
<1>5. QED
  BY <1>2, <1>4

LEMMA MinIs ==
    ASSUME NEW S \in SUBSET Nat, S # {}
    PROVE  Min(S) \in S /\ \A k \in S : Min(S) <= k
BY Least DEF Min

LEMMA MaxIs ==
    ASSUME NEW S \in SUBSET Nat, NEW m \in S, \A k \in S : k <= m
    PROVE  Max(S) = m
<1>1. \A y \in S : m >= y
  OBVIOUS
<1>2. \A x \in S : (\A y \in S : x >= y) => x = m
  OBVIOUS
<1>3. QED
  BY <1>1, <1>2 DEF Max

LEMMA LeastIs ==
    ASSUME NEW S \in SUBSET Nat, NEW m \in S, \A k \in S : m <= k
    PROVE  Min(S) = m
<1>1. \A y \in S : m <= y
  OBVIOUS
<1>2. \A x \in S : (\A y \in S : x <= y) => x = m
  OBVIOUS
<1>3. QED
  BY <1>1, <1>2 DEF Min

-----------------------------------------------------------------------------
(* Scores.                                                                 *)

Wanted(u) == Matches[u] \cap Denied = {}

LEMMA RulesAre ==
    /\ DefaultScore \in Nat \ {0} /\ DOMAIN Rules \subseteq Nat
    /\ \A i \in DOMAIN Rules : Rules[i].score \in Nat \ {0}
    /\ \A i, j \in DOMAIN Rules : i < j => Rules[i].score >= Rules[j].score
<1>1. /\ DefaultScore \in Nat \ {0}
      /\ Rules \in Seq([pattern : Patterns, score : Nat \ {0}])
      /\ \A i, j \in DOMAIN Rules : i < j => Rules[i].score >= Rules[j].score
  BY DiscoveryConstantsOK, Zenon DEF DiscoveryConstantsOK
<1>2. DOMAIN Rules = 1..Len(Rules) /\ Len(Rules) \in Nat
  BY <1>1
<1>3. \A i \in DOMAIN Rules : Rules[i] \in [pattern : Patterns, score : Nat \ {0}]
  BY <1>1, <1>2, ElementOfSeq
<1>4. QED
  BY <1>1, <1>2, <1>3

\* The first rule that matches is the one with the highest score.
LEMMA FirstRuleIsBest ==
    ASSUME NEW u \in Urls
    PROVE  /\ UrlScore(u) \in Nat
           /\ Wanted(u) => UrlScore(u) = Relevance(u) /\ UrlScore(u) >= 1
           /\ ~Wanted(u) => UrlScore(u) = 0
<1> DEFINE hits == {i \in DOMAIN Rules : Rules[i].pattern \in Matches[u]}
           best == {rule \in ToSet(Rules) : rule.pattern \in Matches[u]}
           scores == {rule.score : rule \in best}
<1>1. /\ DefaultScore \in Nat \ {0} /\ DOMAIN Rules \subseteq Nat
      /\ \A i \in DOMAIN Rules : Rules[i].score \in Nat \ {0}
      /\ \A i, j \in DOMAIN Rules : i < j => Rules[i].score >= Rules[j].score
  BY RulesAre
<1>2. CASE hits = {}
  <2>1. best = {}
    BY <1>2 DEF ToSet
  <2>2. QED
    BY <1>1, <1>2, <2>1 DEF UrlScore, Relevance, Wanted
<1>3. CASE hits # {}
  <2>1. Min(hits) \in hits /\ \A k \in hits : Min(hits) <= k
    BY <1>1, <1>3, MinIs
  <2> DEFINE top == Rules[Min(hits)].score
  <2>2. top \in scores /\ scores \subseteq Nat /\ best # {} /\ top \in Nat \ {0}
    <3>1. Rules[Min(hits)] \in best
      BY <2>1 DEF ToSet
    <3>2. \A rule \in best : rule.score \in Nat \ {0}
      BY <1>1 DEF ToSet
    <3>3. QED
      BY <3>1, <3>2
  <2>3. \A k \in scores : k <= top
    <3>1. ASSUME NEW i \in hits PROVE Rules[i].score <= top
      <4>1. Min(hits) \in Nat /\ i \in Nat
        BY <1>1, <2>1
      <4>2. Min(hits) <= i
        BY <2>1
      <4>3. Min(hits) = i \/ Min(hits) < i
        BY <4>1, <4>2
      <4>4. QED
        BY <1>1, <2>1, <4>3
    <3>2. \A rule \in best : \E i \in hits : rule = Rules[i]
      BY DEF ToSet
    <3> HIDE DEF hits, best, top
    <3>3. QED
      BY <3>1, <3>2
  <2>4. Max(scores) = top
    <3> HIDE DEF scores, top
    <3>1. QED
      BY <2>2, <2>3, MaxIs
  <2>5. QED
    BY <1>3, <2>2, <2>4 DEF UrlScore, Relevance, Wanted
<1>4. QED
  BY <1>2, <1>3

-----------------------------------------------------------------------------
(* The order of the scored list.                                           *)

\* How many places come before i in the sorted list.
Rank(found, i) == Cardinality({j \in Scored(found) : Ahead(found, j, i)})

LEMMA PlacesAre ==
    ASSUME NEW found \in Seq(Urls)
    PROVE  /\ IsFiniteSet(Scored(found)) /\ Scored(found) \in SUBSET Nat
           /\ \A i \in Scored(found) :
                /\ i \in DOMAIN found /\ found[i] \in Urls
                /\ UrlScore(found[i]) \in Nat /\ UrlScore(found[i]) >= 1
                /\ Rank(found, i) \in Nat
                /\ IsFiniteSet({j \in Scored(found) : Ahead(found, j, i)})
           /\ \A i, j \in Scored(found) : found[i] = found[j] => i = j
<1>1. Len(found) \in Nat /\ DOMAIN found = 1..Len(found)
      /\ \A i \in DOMAIN found : found[i] \in Urls
  BY ElementOfSeq, LenProperties
<1>2. Scored(found) \in SUBSET (1..Len(found)) /\ Scored(found) \in SUBSET Nat
  BY <1>1 DEF Scored, Distinct
<1>3. IsFiniteSet(Scored(found))
  <2>1. IsFiniteSet(1..Len(found))
    BY <1>1, FS_Interval
  <2>2. QED
    BY <1>2, <2>1, FS_Subset
<1>4. ASSUME NEW i \in Scored(found)
      PROVE  IsFiniteSet({j \in Scored(found) : Ahead(found, j, i)})
             /\ Rank(found, i) \in Nat
  <2>1. {j \in Scored(found) : Ahead(found, j, i)} \in SUBSET Scored(found)
    OBVIOUS
  <2>2. QED
    BY <1>3, <2>1, FS_Subset, FS_CardinalityType DEF Rank
<1>5. \A i, j \in Scored(found) : found[i] = found[j] => i = j
  BY <1>1, <1>2 DEF Scored, Distinct
<1>6. QED
  BY <1>1, <1>2, <1>3, <1>4, <1>5, FirstRuleIsBest DEF Scored

LEMMA AheadIsOrder ==
    ASSUME NEW found \in Seq(Urls),
           NEW i \in Scored(found), NEW j \in Scored(found), NEW k \in Scored(found)
    PROVE  /\ ~Ahead(found, i, i)
           /\ Ahead(found, i, j) /\ Ahead(found, j, k) => Ahead(found, i, k)
           /\ i # j => Ahead(found, i, j) \/ Ahead(found, j, i)
<1>1. /\ i \in Nat /\ j \in Nat /\ k \in Nat
      /\ UrlScore(found[i]) \in Nat /\ UrlScore(found[j]) \in Nat
      /\ UrlScore(found[k]) \in Nat
  BY PlacesAre
<1>2. QED
  BY <1>1 DEF Ahead

\* Sorting numbers the places.
LEMMA AheadRanksLower ==
    ASSUME NEW found \in Seq(Urls), NEW i \in Scored(found), NEW j \in Scored(found),
           Ahead(found, j, i)
    PROVE  Rank(found, j) < Rank(found, i)
<1> DEFINE before(k) == {l \in Scored(found) : Ahead(found, l, k)}
<1>1. before(j) \in SUBSET before(i)
  BY AheadIsOrder
<1>2. j \in before(i) /\ j \notin before(j)
  BY AheadIsOrder
<1>3. /\ IsFiniteSet(before(i)) /\ Rank(found, i) \in Nat /\ Rank(found, j) \in Nat
      /\ Rank(found, i) = Cardinality(before(i)) /\ Rank(found, j) = Cardinality(before(j))
  BY PlacesAre DEF Rank
<1> HIDE DEF before
<1>4. QED
  BY <1>1, <1>2, <1>3, FS_Subset

\* Of any places of the list one comes first.
LEMMA OneComesFirst ==
    ASSUME NEW found \in Seq(Urls), NEW S \in SUBSET Scored(found), S # {}
    PROVE  \E i \in S : \A j \in S \ {i} : Ahead(found, i, j)
<1> DEFINE ranks == {Rank(found, i) : i \in S}
<1>1. ranks \in SUBSET Nat /\ ranks # {}
  <2>1. \A i \in S : Rank(found, i) \in Nat
    BY PlacesAre
  <2>2. QED
    BY <2>1
<1>2. PICK m \in ranks : \A k \in ranks : m <= k
  BY <1>1, Least
<1>3. PICK i \in S : Rank(found, i) = m
  BY <1>2
<1>4. ASSUME NEW j \in S \ {i} PROVE Ahead(found, i, j)
  <2>1. m <= Rank(found, j) /\ m \in Nat /\ Rank(found, j) \in Nat
    BY <1>1, <1>2
  <2>2. ~(Rank(found, j) < Rank(found, i))
    BY <1>3, <2>1
  <2>3. QED
    BY <2>2, AheadRanksLower, AheadIsOrder
<1>5. QED
  BY <1>4

\* The cut leaves at most MaxQueued places, the first ones.
LEMMA CutKeepsTheFirst ==
    ASSUME NEW found \in Seq(Urls)
    PROVE  /\ Queueable(found) \subseteq Scored(found)
           /\ IsFiniteSet(Queueable(found)) /\ Cardinality(Queueable(found)) <= MaxQueued
           /\ \A i \in Scored(found) \ Queueable(found) : Rank(found, i) >= MaxQueued
           /\ \A i \in Queueable(found), j \in Scored(found) :
                Ahead(found, j, i) => j \in Queueable(found)
<1>1. MaxQueued \in Nat
  BY DiscoveryConstantsOK DEF DiscoveryConstantsOK
<1>2. Queueable(found) = {i \in Scored(found) : Rank(found, i) < MaxQueued}
  BY DEF Queueable, Rank
<1>3. \A i \in Scored(found) : Rank(found, i) \in Nat
  BY PlacesAre
<1>4. Cardinality(Queueable(found)) <= MaxQueued
  <2> DEFINE Q == Queueable(found)
             R == 0..(MaxQueued - 1)
             f == [i \in Q |-> Rank(found, i)]
  <2>1. f \in [Q -> R]
    BY <1>1, <1>2, <1>3
  <2>2. ASSUME NEW i \in Q, NEW j \in Q, i # j PROVE f[i] # f[j]
    <3>1. i \in Scored(found) /\ j \in Scored(found)
      BY <1>2
    <3>2. Rank(found, i) < Rank(found, j) \/ Rank(found, j) < Rank(found, i)
      BY <2>2, <3>1, AheadIsOrder, AheadRanksLower
    <3>3. QED
      BY <1>3, <3>1, <3>2
  <2>3. f \in Injection(Q, R)
    BY <2>1, <2>2 DEF Injection, IsInjective
  <2>4. IsFiniteSet(R) /\ Cardinality(R) = MaxQueued
    BY <1>1, FS_Interval
  <2> HIDE DEF f, R
  <2>5. QED
    BY <2>3, <2>4, FS_Injection
<1>5. ASSUME NEW i \in Queueable(found), NEW j \in Scored(found), Ahead(found, j, i)
      PROVE  j \in Queueable(found)
  <2>1. Rank(found, j) < Rank(found, i) /\ Rank(found, i) < MaxQueued
    BY <1>2, <1>5, AheadRanksLower
  <2>2. QED
    BY <1>1, <1>2, <1>3, <2>1
<1>6. IsFiniteSet(Queueable(found))
  BY <1>2, PlacesAre, FS_Subset
<1>7. \A i \in Scored(found) \ Queueable(found) : Rank(found, i) >= MaxQueued
  BY <1>1, <1>2, <1>3
<1>8. QED
  BY <1>2, <1>4, <1>5, <1>6, <1>7

-----------------------------------------------------------------------------
(* What the upserts leave behind.                                          *)

WantedOf(found) == {u \in ToSet(found) : Wanted(u)}

\* The scored places name every URL that is not denied, once.
LEMMA ScoredAreWanted ==
    ASSUME NEW found \in Seq(Urls)
    PROVE  /\ \A i \in Scored(found) :
                found[i] \in WantedOf(found) /\ UrlScore(found[i]) = Relevance(found[i])
           /\ \A u \in WantedOf(found) : \E i \in Scored(found) : found[i] = u
<1>1. Len(found) \in Nat /\ DOMAIN found = 1..Len(found)
      /\ \A i \in DOMAIN found : found[i] \in Urls
  BY ElementOfSeq, LenProperties
<1>2. ASSUME NEW i \in Scored(found)
      PROVE  found[i] \in WantedOf(found) /\ UrlScore(found[i]) = Relevance(found[i])
  <2>1. i \in DOMAIN found /\ found[i] \in Urls /\ UrlScore(found[i]) >= 1
    BY PlacesAre
  <2>2. Wanted(found[i])
    BY <2>1, FirstRuleIsBest
  <2>3. QED
    BY <2>1, <2>2, FirstRuleIsBest DEF WantedOf, ToSet
<1>3. ASSUME NEW u \in WantedOf(found) PROVE \E i \in Scored(found) : found[i] = u
  <2> DEFINE places == {i \in DOMAIN found : found[i] = u}
  <2>1. places # {} /\ places \in SUBSET Nat
    BY <1>1 DEF WantedOf, ToSet
  <2>2. PICK i \in places : \A k \in places : i <= k
    BY <2>1, Least
  <2>3. i \in Distinct(found)
    BY <1>1, <2>2 DEF Distinct
  <2>4. u \in Urls /\ Wanted(u)
    BY <1>1 DEF WantedOf, ToSet
  <2>5. UrlScore(u) >= 1
    BY <2>4, FirstRuleIsBest
  <2>6. QED
    BY <2>2, <2>3, <2>5 DEF Scored
<1>4. QED
  BY <1>2, <1>3

\* The places the cut left for target t.
PlacesFor(found, t) == {i \in Queueable(found) : TargetOf[found[i]] = t}

LEMMA UpsertedIs ==
    ASSUME NEW found \in Seq(Urls), targets \in [Targets -> Nat]
    PROVE  /\ Upserted(found) \in [Targets -> Nat]
           /\ \A t \in Targets :
                IF targets[t] > 0 \/ PlacesFor(found, t) = {}
                THEN Upserted(found)[t] = targets[t]
                ELSE \E i \in PlacesFor(found, t) :
                        /\ Upserted(found)[t] = UrlScore(found[i])
                        /\ \A j \in PlacesFor(found, t) \ {i} : Ahead(found, i, j)
<1> DEFINE first(t) == CHOOSE i \in PlacesFor(found, t) :
                         \A j \in PlacesFor(found, t) \ {i} : Ahead(found, i, j)
<1>1. Upserted(found) =
        [t \in Targets |-> IF targets[t] > 0 \/ PlacesFor(found, t) = {} THEN targets[t]
                           ELSE UrlScore(found[first(t)])]
  BY DEF Upserted, PlacesFor
<1>2. ASSUME NEW t \in Targets, PlacesFor(found, t) # {}
      PROVE  /\ first(t) \in PlacesFor(found, t)
             /\ \A j \in PlacesFor(found, t) \ {first(t)} : Ahead(found, first(t), j)
             /\ UrlScore(found[first(t)]) \in Nat
  <2>1. PlacesFor(found, t) \in SUBSET Scored(found)
    BY CutKeepsTheFirst DEF PlacesFor
  <2>2. \E i \in PlacesFor(found, t) :
            \A j \in PlacesFor(found, t) \ {i} : Ahead(found, i, j)
    BY <1>2, <2>1, OneComesFirst
  <2>3. QED
    BY <2>1, <2>2, PlacesAre
<1> HIDE DEF first
<1>3. QED
  BY <1>1, <1>2

\* A new target has the priority of its best spelling.
LEMMA NewTargetsAreBest ==
    ASSUME NEW found \in Seq(Urls), targets \in [Targets -> Nat],
           NEW t \in Targets, targets[t] = 0, Upserted(found)[t] > 0
    PROVE  \E i \in PlacesFor(found, t) :
                /\ found[i] \in WantedOf(found) /\ TargetOf[found[i]] = t
                /\ Upserted(found)[t] = Relevance(found[i])
                /\ \A v \in WantedOf(found) :
                    TargetOf[v] = t => Relevance(v) <= Relevance(found[i])
<1>1. PICK i \in PlacesFor(found, t) :
            /\ Upserted(found)[t] = UrlScore(found[i])
            /\ \A j \in PlacesFor(found, t) \ {i} : Ahead(found, i, j)
  BY UpsertedIs
<1>2. i \in Queueable(found) /\ i \in Scored(found) /\ TargetOf[found[i]] = t
  BY CutKeepsTheFirst DEF PlacesFor
<1>3. ASSUME NEW v \in WantedOf(found), TargetOf[v] = t
      PROVE  Relevance(v) <= Relevance(found[i])
  <2>1. PICK j \in Scored(found) : found[j] = v
    BY ScoredAreWanted
  <2>2. ~Ahead(found, j, i) \/ j = i
    <3> SUFFICES ASSUME Ahead(found, j, i), j # i PROVE FALSE
      OBVIOUS
    <3>1. j \in PlacesFor(found, t)
      BY <1>2, <1>3, <2>1, CutKeepsTheFirst DEF PlacesFor
    <3>2. Ahead(found, i, j)
      BY <1>1, <3>1
    <3>3. QED
      BY <1>2, <2>1, <3>2, AheadIsOrder
  <2>3. UrlScore(found[j]) \in Nat /\ UrlScore(found[i]) \in Nat
    BY <1>2, <2>1, PlacesAre
  <2>4. UrlScore(found[j]) <= UrlScore(found[i])
    BY <2>2, <2>3 DEF Ahead
  <2>5. UrlScore(found[j]) = Relevance(v) /\ UrlScore(found[i]) = Relevance(found[i])
    BY <1>2, <2>1, ScoredAreWanted
  <2>6. QED
    BY <2>4, <2>5
<1>4. QED
  BY <1>1, <1>2, <1>3, ScoredAreWanted

\* At most MaxQueued targets are new.
LEMMA FewTargetsAreNew ==
    ASSUME NEW found \in Seq(Urls), targets \in [Targets -> Nat]
    PROVE  LET new == {t \in Targets : targets[t] = 0 /\ Upserted(found)[t] > 0}
           IN  IsFiniteSet(new) /\ Cardinality(new) <= MaxQueued
<1> DEFINE new == {t \in Targets : targets[t] = 0 /\ Upserted(found)[t] > 0}
           Q == Queueable(found)
           place == [t \in new |-> CHOOSE i \in Q : TargetOf[found[i]] = t]
<1>1. ASSUME NEW t \in new PROVE place[t] \in Q /\ TargetOf[found[place[t]]] = t
  BY NewTargetsAreBest DEF PlacesFor
<1>2. place \in Injection(new, Q)
  <2>1. place \in [new -> Q] /\ \A s, t \in new : place[s] = place[t] => s = t
    BY <1>1
  <2> HIDE DEF place, new
  <2>2. QED
    BY <2>1 DEF Injection, IsInjective
<1>3. IsFiniteSet(Q) /\ Cardinality(Q) <= MaxQueued /\ Cardinality(Q) \in Nat
      /\ MaxQueued \in Nat
  BY CutKeepsTheFirst, FS_CardinalityType, DiscoveryConstantsOK DEF DiscoveryConstantsOK
<1> HIDE DEF new, Q, place
<1>4. IsFiniteSet(new) /\ Cardinality(new) <= Cardinality(Q) /\ Cardinality(new) \in Nat
  BY <1>2, <1>3, FS_Injection, FS_CardinalityType
<1>5. QED
  BY <1>3, <1>4 DEF new

\* A URL that brought no target has as many better ones as may be queued.
LEMMA LeftOutForBetter ==
    ASSUME NEW found \in Seq(Urls), targets \in [Targets -> Nat],
           NEW u \in WantedOf(found), Upserted(found)[TargetOf[u]] = 0
    PROVE  Cardinality({v \in WantedOf(found) \ {u} : Relevance(v) >= Relevance(u)})
             >= MaxQueued
<1> DEFINE better == {v \in WantedOf(found) \ {u} : Relevance(v) >= Relevance(u)}
<1>1. PICK i \in Scored(found) : found[i] = u
  BY ScoredAreWanted
<1> DEFINE before == {j \in Scored(found) : Ahead(found, j, i)}
           f == [j \in before |-> found[j]]
<1>2. i \notin Queueable(found)
  <2> SUFFICES ASSUME i \in Queueable(found) PROVE FALSE
    OBVIOUS
  <2>1. u \in Urls /\ TargetOf[u] \in Targets
    BY <1>1, PlacesAre, DiscoveryConstantsOK DEF DiscoveryConstantsOK
  <2>2. i \in PlacesFor(found, TargetOf[u])
    BY <1>1 DEF PlacesFor
  <2>3. PICK k \in PlacesFor(found, TargetOf[u]) :
            Upserted(found)[TargetOf[u]] = UrlScore(found[k])
    BY <2>1, <2>2, UpsertedIs
  <2>4. UrlScore(found[k]) >= 1
    BY CutKeepsTheFirst, PlacesAre DEF PlacesFor
  <2>5. QED
    BY <2>3, <2>4
<1>3. Cardinality(before) >= MaxQueued
  BY <1>2, CutKeepsTheFirst DEF Rank
<1>4. f \in Injection(before, better)
  <2>1. ASSUME NEW j \in before PROVE found[j] \in better
    <3>1. found[j] \in WantedOf(found) /\ UrlScore(found[j]) = Relevance(found[j])
          /\ UrlScore(u) = Relevance(u)
      BY <1>1, ScoredAreWanted
    <3>2. found[j] # u
      BY <1>1, AheadIsOrder, PlacesAre
    <3>3. UrlScore(found[j]) \in Nat /\ UrlScore(found[i]) \in Nat
      BY <1>1, PlacesAre
    <3>4. UrlScore(found[j]) >= UrlScore(u)
      BY <1>1, <3>3 DEF Ahead
    <3>5. Relevance(found[j]) >= Relevance(u)
      BY <3>1, <3>4
    <3>6. QED
      BY <3>1, <3>2, <3>5
  <2>2. \A j, k \in before : found[j] = found[k] => j = k
    BY PlacesAre
  <2>3. QED
    BY <2>1, <2>2 DEF Injection, IsInjective
<1>5. IsFiniteSet(better)
  <2>1. \A v \in better : \E j \in Scored(found) : found[j] = v
    BY ScoredAreWanted
  <2> DEFINE g == [v \in better |-> CHOOSE j \in Scored(found) : found[j] = v]
  <2>2. \A v \in better : g[v] \in Scored(found) /\ found[g[v]] = v
    BY <2>1
  <2>3. g \in Injection(better, Scored(found))
    BY <2>2 DEF Injection, IsInjective
  <2>4. QED
    <3> HIDE DEF g, better
    <3>1. QED
      BY <2>3, PlacesAre, FS_Injection
<1>6. Cardinality(better) \in Nat /\ Cardinality(before) <= Cardinality(better)
  <2> HIDE DEF better, before, f
  <2>1. QED
    BY <1>4, <1>5, FS_Injection, FS_CardinalityType
<1>7. Cardinality(before) \in Nat /\ MaxQueued \in Nat
  BY <1>1, PlacesAre, DiscoveryConstantsOK DEF Rank, DiscoveryConstantsOK
<1>8. QED
  BY <1>3, <1>6, <1>7

-----------------------------------------------------------------------------
(* Sequences as sets.                                                      *)

LEMMA SetOfSeq ==
    ASSUME NEW S, NEW q \in Seq(S)
    PROVE  /\ ToSet(q) \subseteq S
           /\ q = <<>> => ToSet(q) = {}
           /\ q # <<>> => /\ Head(q) \in S /\ Tail(q) \in Seq(S)
                          /\ ToSet(q) = {Head(q)} \cup ToSet(Tail(q))
<1>1. DOMAIN q = 1..Len(q) /\ Len(q) \in Nat /\ \A i \in 1..Len(q) : q[i] \in S
  BY ElementOfSeq, LenProperties
<1>2. ASSUME q # <<>>
      PROVE  /\ Head(q) \in S /\ Tail(q) \in Seq(S)
             /\ ToSet(q) = {Head(q)} \cup ToSet(Tail(q))
  <2>1. /\ Len(q) >= 1 /\ Head(q) = q[1] /\ Tail(q) \in Seq(S) /\ Len(Tail(q)) = Len(q) - 1
        /\ \A i \in 1..(Len(q) - 1) : Tail(q)[i] = q[i + 1]
    BY <1>1, <1>2, HeadTailProperties, EmptySeq
  <2>2. DOMAIN Tail(q) = 1..(Len(q) - 1)
    BY <2>1, LenProperties
  <2>3. ASSUME NEW i \in 1..Len(q) PROVE q[i] \in {Head(q)} \cup ToSet(Tail(q))
    <3>1. CASE i = 1
      BY <2>1, <3>1
    <3>2. CASE i # 1
      <4>1. i - 1 \in 1..(Len(q) - 1) /\ Tail(q)[i - 1] = q[i]
        BY <1>1, <2>1, <3>2
      <4>2. QED
        BY <2>2, <4>1 DEF ToSet
    <3>3. QED
      BY <3>1, <3>2
  <2>4. ASSUME NEW i \in 1..(Len(q) - 1) PROVE Tail(q)[i] \in ToSet(q)
    BY <1>1, <2>1 DEF ToSet
  <2>5. Head(q) \in ToSet(q)
    BY <1>1, <2>1 DEF ToSet
  <2>6. QED
    BY <1>1, <2>1, <2>2, <2>3, <2>4, <2>5 DEF ToSet
<1>3. ToSet(q) \subseteq S
  BY <1>1 DEF ToSet
<1>4. q = <<>> => ToSet(q) = {}
  BY DEF ToSet
<1>5. QED
  BY <1>2, <1>3, <1>4

LEMMA SetOfConcat ==
    ASSUME NEW S, NEW q \in Seq(S), NEW r \in Seq(S)
    PROVE  q \o r \in Seq(S) /\ ToSet(q \o r) = ToSet(q) \cup ToSet(r)
<1>1. /\ DOMAIN q = 1..Len(q) /\ Len(q) \in Nat
      /\ DOMAIN r = 1..Len(r) /\ Len(r) \in Nat
      /\ q \o r \in Seq(S) /\ Len(q \o r) = Len(q) + Len(r)
      /\ DOMAIN (q \o r) = 1..Len(q \o r)
      /\ \A i \in 1..(Len(q) + Len(r)) :
            (q \o r)[i] = IF i <= Len(q) THEN q[i] ELSE r[i - Len(q)]
  BY LenProperties, ConcatProperties
<1>2. ASSUME NEW i \in 1..(Len(q) + Len(r)) PROVE (q \o r)[i] \in ToSet(q) \cup ToSet(r)
  BY <1>1 DEF ToSet
<1>3. ASSUME NEW i \in 1..Len(q) PROVE q[i] \in ToSet(q \o r)
  BY <1>1 DEF ToSet
<1>4. ASSUME NEW i \in 1..Len(r) PROVE r[i] \in ToSet(q \o r)
  <2>1. Len(q) + i \in 1..(Len(q) + Len(r)) /\ (q \o r)[Len(q) + i] = r[i]
    BY <1>1
  <2>2. QED
    BY <1>1, <2>1 DEF ToSet
<1>5. QED
  BY <1>1, <1>2, <1>3, <1>4 DEF ToSet

LEMMA SetOfAppend ==
    ASSUME NEW S, NEW q \in Seq(S), NEW e \in S
    PROVE  /\ Append(q, e) \in Seq(S) /\ ToSet(Append(q, e)) = ToSet(q) \cup {e}
           /\ DOMAIN q = 1..Len(q) /\ Len(q) \in Nat
           /\ DOMAIN Append(q, e) = 1..(Len(q) + 1)
           /\ \A i \in 1..Len(q) : Append(q, e)[i] = q[i]
           /\ Append(q, e)[Len(q) + 1] = e
<1>1. /\ DOMAIN q = 1..Len(q) /\ Len(q) \in Nat
      /\ Append(q, e) \in Seq(S) /\ Len(Append(q, e)) = Len(q) + 1
      /\ DOMAIN Append(q, e) = 1..Len(Append(q, e))
      /\ \A i \in 1..Len(q) : Append(q, e)[i] = q[i]
      /\ Append(q, e)[Len(q) + 1] = e
  BY LenProperties, AppendProperties
<1>2. ASSUME NEW i \in 1..(Len(q) + 1) PROVE Append(q, e)[i] \in ToSet(q) \cup {e}
  <2>1. i \in 1..Len(q) \/ i = Len(q) + 1
    BY <1>1
  <2>2. QED
    BY <1>1, <2>1 DEF ToSet
<1>3. ToSet(q) \cup {e} \subseteq ToSet(Append(q, e))
  <2>1. \A i \in 1..Len(q) : i \in 1..(Len(q) + 1)
    BY <1>1
  <2>2. Len(q) + 1 \in 1..(Len(q) + 1)
    BY <1>1
  <2>3. QED
    BY <1>1, <2>1, <2>2 DEF ToSet
<1>4. QED
  BY <1>1, <1>2, <1>3 DEF ToSet

-----------------------------------------------------------------------------
(* Sites and calls.                                                        *)

LEMMA SiteIs ==
    ASSUME site \in Sites
    PROVE  /\ StartingPoints \in Seq(Sitemaps)
           /\ \A s \in Sitemaps :
                /\ site.files[s].kind \in {"absent", "index", "urlset"}
                /\ site.files[s].kind = "index" => site.files[s].locs \in Seq(Sitemaps)
                /\ site.files[s].kind # "index" => site.files[s].locs \in Seq(Urls)
<1>1. Fallbacks \in Seq(Sitemaps) /\ site.robots \in Seq(Sitemaps)
      /\ site.files \in [Sitemaps -> File]
      /\ \A s \in Sitemaps :
            site.files[s].locs \in
                IF site.files[s].kind = "index" THEN Seq(Sitemaps) ELSE Seq(Urls)
  BY DiscoveryConstantsOK, Zenon DEF DiscoveryConstantsOK
<1>2. \A s \in Sitemaps : site.files[s].kind \in {"absent", "index", "urlset"}
  BY <1>1 DEF File
<1>3. QED
  BY <1>1, <1>2 DEF StartingPoints

LEMMA CallsAre ==
    ASSUME NEW locs \in Seq(Sitemaps), NEW d \in Nat
    PROVE  /\ Calls(locs, d) \in Seq(Call)
           /\ ToSet(Calls(locs, d)) = {[sitemap |-> s, depth |-> d] : s \in ToSet(locs)}
<1>1. DOMAIN locs = 1..Len(locs) /\ Len(locs) \in Nat
      /\ \A i \in 1..Len(locs) : locs[i] \in Sitemaps
  BY LenProperties, ElementOfSeq
<1>2. \A i \in 1..Len(locs) : [sitemap |-> locs[i], depth |-> d] \in Call
  BY <1>1 DEF Call
<1>3. Calls(locs, d) = [i \in 1..Len(locs) |-> [sitemap |-> locs[i], depth |-> d]]
  BY <1>1 DEF Calls
<1>4. Calls(locs, d) \in [1..Len(locs) -> Call]
  BY <1>2, <1>3
<1>5. Calls(locs, d) \in Seq(Call)
  BY <1>1, <1>4, SeqDef
<1>6. QED
  BY <1>1, <1>3, <1>5 DEF ToSet

-----------------------------------------------------------------------------
(* Types.                                                                  *)

\* A discovery under way has a site.
Began == stage # "idle" => site \in Sites /\ discoveries > 0

Tried == [call : Call, found : BOOLEAN]

LEMMA ResolvedTypes ==
    ASSUME DiscoveryTypeOK, Began, ResolveSitemap
    PROVE  /\ todo' \in Seq(Call) /\ urls' \in Seq(Urls) /\ tried' \in Seq(Tried)
           /\ setbacks' \in 0..MaxSetbacks
<1> DEFINE call == Head(todo)
           file == site.files[call.sitemap]
<1>1. /\ stage = "walk" /\ todo # <<>> /\ site \in Sites
      /\ todo \in Seq(Call) /\ urls \in Seq(Urls) /\ tried \in Seq(Tried)
      /\ setbacks \in 0..MaxSetbacks /\ MaxSetbacks \in Nat
  BY DiscoveryConstantsOK
     DEF ResolveSitemap, DiscoveryTypeOK, Began, Tried, DiscoveryConstantsOK
<1>2. call \in Call /\ Tail(todo) \in Seq(Call) /\ call.sitemap \in Sitemaps
      /\ call.depth \in Nat
  <2>1. call \in Call /\ Tail(todo) \in Seq(Call)
    BY <1>1, SetOfSeq
  <2>2. QED
    BY <2>1 DEF Call
<1>3. ASSUME NEW b \in BOOLEAN
      PROVE  Append(tried, [call |-> call, found |-> b]) \in Seq(Tried)
  BY <1>1, <1>2, SetOfAppend DEF Tried
<1>4. tried' \in Seq(Tried)
  BY <1>3 DEF ResolveSitemap
<1>5. CASE file.kind = "index" /\ todo' = Calls(file.locs, call.depth + 1) \o Tail(todo)
           /\ UNCHANGED <<urls, setbacks>>
  <2>1. Calls(file.locs, call.depth + 1) \in Seq(Call)
    <3>1. file.locs \in Seq(Sitemaps)
      BY <1>1, <1>2, <1>5, SiteIs
    <3>2. call.depth + 1 \in Nat
      BY <1>2
    <3>3. QED
      BY <3>1, <3>2, CallsAre
  <2>2. QED
    BY <1>1, <1>2, <1>4, <1>5, <2>1, SetOfConcat
<1>6. CASE file.kind = "urlset" /\ todo' = Tail(todo) /\ urls' = urls \o file.locs
           /\ UNCHANGED setbacks
  BY <1>1, <1>2, <1>4, <1>6, SiteIs, SetOfConcat
<1>7. CASE todo' = Tail(todo) /\ UNCHANGED urls
           /\ (Setback \/ UNCHANGED setbacks)
  BY <1>1, <1>2, <1>4, <1>7 DEF Setback
<1>8. QED
  BY <1>5, <1>6, <1>7 DEF ResolveSitemap

LEMMA DiscoveryTypesKept ==
    ASSUME DiscoveryTypeOK, Began, [DiscoveryStep]_discoveryVars
    PROVE  DiscoveryTypeOK' /\ Began'
<1> USE DEF DiscoveryTypeOK, Began
<1>1. MaxSetbacks \in Nat /\ MaxDiscoveries \in Nat /\ MaxDepth \in Nat \ {0}
  BY DiscoveryConstantsOK DEF DiscoveryConstantsOK
<1>2. CASE StartDiscovery
  BY <1>1, <1>2 DEF StartDiscovery
<1>3. CASE ReadRobots
  <2>1. site' \in Sites /\ StartingPoints' \in Seq(Sitemaps)
    <3>1. site' = site /\ site \in Sites
      BY <1>3 DEF ReadRobots
    <3>2. Fallbacks \in Seq(Sitemaps) /\ site.robots \in Seq(Sitemaps)
      BY <3>1, DiscoveryConstantsOK, Zenon DEF DiscoveryConstantsOK
    <3>3. QED
      BY <3>1, <3>2 DEF StartingPoints
  <2>2. todo' = Calls(StartingPoints', 1)
    BY <1>3 DEF ReadRobots, Candidates, Calls
  <2>3. todo' \in Seq(Call)
    BY <2>1, <2>2, CallsAre
  <2>4. robotsFound' \in BOOLEAN /\ setbacks' \in 0..MaxSetbacks
    <3>1. robotsFound' \in BOOLEAN
      BY <1>3 DEF ReadRobots
    <3>2. setbacks' = setbacks \/ (setbacks < MaxSetbacks /\ setbacks' = setbacks + 1)
      BY <1>3 DEF ReadRobots, Setback
    <3>3. QED
      BY <1>1, <3>1, <3>2
  <2>5. QED
    BY <1>3, <2>1, <2>3, <2>4 DEF ReadRobots
<1>4. CASE SkipSitemap
  BY <1>4, SetOfSeq DEF SkipSitemap
<1>5. CASE ResolveSitemap
  BY <1>5, ResolvedTypes DEF ResolveSitemap, Tried
<1>6. CASE QueueTargets
  BY <1>6, UpsertedIs DEF QueueTargets
<1>7. CASE Report
  <2>1. ASSUME NEW e \in {"SUCCESS", "PARTIAL", "FAILED"}
        PROVE  Append(reports, e) \in Seq({"SUCCESS", "PARTIAL", "FAILED"})
    BY AppendProperties
  <2>2. reports' \in Seq({"SUCCESS", "PARTIAL", "FAILED"})
    BY <1>7, <2>1 DEF Report
  <2>3. QED
    BY <1>7, <2>2 DEF Report
<1>8. CASE DiscoveryDies
  BY <1>1, <1>8 DEF DiscoveryDies, Setback
<1>9. CASE UNCHANGED discoveryVars
  BY <1>9 DEF discoveryVars
<1>10. QED
  BY <1>2, <1>3, <1>4, <1>5, <1>6, <1>7, <1>8, <1>9 DEF DiscoveryStep

-----------------------------------------------------------------------------
(* The walk.  A call still to be made, or made, is at the end of a chain   *)
(* of its depth, and what an index or robots.txt names has been fetched or *)
(* is owed a call that will not be refused for its depth.                  *)

TriedOnce ==
    \A i, j \in DOMAIN tried : tried[i].call.sitemap = tried[j].call.sitemap => i = j

ChainTo(call) == \E c \in Chains : Len(c) = call.depth /\ c[Len(c)] = call.sitemap

Owed(s) ==
    \/ Seen(s)
    \/ \E call \in ToSet(todo) : call.sitemap = s /\ call.depth <= MaxDepth

UrlsOf(T) ==
    UNION {ToSet(site.files[t.call.sitemap].locs) :
             t \in {u \in T : u.found /\ site.files[u.call.sitemap].kind = "urlset"}}

CallsJustified ==
    /\ \A call \in ToSet(todo) : call.depth <= MaxDepth => ChainTo(call)
    /\ \A t \in ToSet(tried) : ChainTo(t.call)

NothingForgotten ==
    /\ \A s \in ToSet(StartingPoints) : Owed(s)
    /\ \A t \in ToSet(tried) :
        t.found /\ t.call.depth # MaxDepth /\ site.files[t.call.sitemap].kind = "index"
            => \A s \in ToSet(site.files[t.call.sitemap].locs) : Owed(s)

WalkInv ==
    /\ TriedOnce
    /\ stage = "report" => todo = <<>>
    /\ stage \in {"walk", "report"} =>
        CallsJustified /\ NothingForgotten /\ ToSet(urls) = UrlsOf(ToSet(tried))

LEMMA ChainsAre ==
    ASSUME NEW c \in Chains
    PROVE  /\ Len(c) \in 1..MaxDepth /\ DOMAIN c = 1..Len(c)
           /\ c \in [1..Len(c) -> Sitemaps]
           /\ c[1] \in ToSet(StartingPoints)
           /\ \A k \in 1..(Len(c) - 1) :
                /\ site.files[c[k]].kind = "index"
                /\ c[k + 1] \in ToSet(site.files[c[k]].locs)
<1>1. PICK n \in 1..MaxDepth : c \in [1..n -> Sitemaps]
  BY DEF Chains
<1>2. n \in Nat /\ MaxDepth \in Nat
  BY DiscoveryConstantsOK DEF DiscoveryConstantsOK
<1>3. c \in Seq(Sitemaps) /\ Len(c) = n
  BY <1>1, <1>2, IsASeq, LenProperties
<1>4. QED
  BY <1>1, <1>3 DEF Chains

\* When no calls are left, whatever a chain leads to was fetched, or the chain
\* passes one whose request failed or that was met at MaxDepth.
LEMMA WalkEnds ==
    ASSUME NothingForgotten, todo = <<>>, NEW c \in Chains, ~Seen(c[Len(c)])
    PROVE  \E k \in 1..Len(c)-1, t \in ToSet(tried) :
                t.call.sitemap = c[k] /\ (~t.found \/ t.call.depth = MaxDepth)
<1> DEFINE unseen == {k \in 1..Len(c) : ~Seen(c[k])}
<1>1. Len(c) \in Nat /\ Len(c) >= 1
  BY ChainsAre
<1>2. unseen \in SUBSET Nat /\ unseen # {}
  BY <1>1
<1>3. PICK k \in unseen : \A l \in unseen : k <= l
  BY <1>2, Least
<1>4. \A s : Owed(s) => Seen(s)
  BY DEF Owed, ToSet
<1>5. k # 1
  BY <1>3, <1>4, ChainsAre DEF NothingForgotten
<1>6. k - 1 \in 1..(Len(c) - 1) /\ Seen(c[k - 1])
  <2>1. k \in 1..Len(c) /\ k - 1 \in 1..(Len(c) - 1) /\ ~(k <= k - 1)
    BY <1>1, <1>3, <1>5
  <2>2. k - 1 \notin unseen
    BY <1>3, <2>1
  <2>3. QED
    BY <1>1, <2>1, <2>2
<1>7. PICK t \in ToSet(tried) : t.call.sitemap = c[k - 1]
  BY <1>6 DEF Seen
<1>8. site.files[c[k - 1]].kind = "index" /\ c[k] \in ToSet(site.files[c[k - 1]].locs)
  <2>1. k - 1 + 1 = k
    BY <1>1, <1>3
  <2>2. QED
    BY <1>6, <2>1, ChainsAre
<1>9. ~t.found \/ t.call.depth = MaxDepth
  BY <1>3, <1>4, <1>7, <1>8 DEF NothingForgotten
<1>10. QED
  BY <1>6, <1>7, <1>9

LEMMA WalkInvCovers == ASSUME WalkInv PROVE WalkCovers
<1>1. ASSUME stage \in {"walk", "report"}
      PROVE  LET T == ToSet(tried)
                 reached == {t.call.sitemap : t \in T}
             IN  /\ \A s \in reached : \E c \in Chains : c[Len(c)] = s
                 /\ todo = <<>> => \A c \in Chains :
                     \/ c[Len(c)] \in reached
                     \/ \E k \in 1..Len(c)-1, t \in T :
                         t.call.sitemap = c[k] /\ (~t.found \/ t.call.depth = MaxDepth)
                 /\ ToSet(urls) = UrlsOf(T)
  <2>1. CallsJustified /\ NothingForgotten /\ ToSet(urls) = UrlsOf(ToSet(tried))
    BY <1>1 DEF WalkInv
  <2>2. \A s : Seen(s) <=> s \in {t.call.sitemap : t \in ToSet(tried)}
    BY DEF Seen
  <2>3. \A t \in ToSet(tried) : \E c \in Chains : c[Len(c)] = t.call.sitemap
    BY <2>1 DEF CallsJustified, ChainTo
  <2>4. QED
    BY <2>1, <2>2, <2>3, WalkEnds
<1>2. TriedOnce
  BY DEF WalkInv
<1>3. QED
  BY <1>1, <1>2 DEF WalkCovers, TriedOnce, UrlsOf

LEMMA ChainsGoOn ==
    ASSUME NEW c \in Chains, Len(c) < MaxDepth, site.files[c[Len(c)]].kind = "index",
           NEW s \in Sitemaps, s \in ToSet(site.files[c[Len(c)]].locs)
    PROVE  \E d \in Chains : Len(d) = Len(c) + 1 /\ d[Len(d)] = s
<1> DEFINE n == Len(c)
           d == [k \in 1..(n + 1) |-> IF k = n + 1 THEN s ELSE c[k]]
<1>1. /\ n \in Nat /\ n >= 1 /\ MaxDepth \in Nat /\ n + 1 \in 1..MaxDepth
      /\ c \in [1..n -> Sitemaps] /\ c[1] \in ToSet(StartingPoints)
      /\ \A k \in 1..(n - 1) : /\ site.files[c[k]].kind = "index"
                               /\ c[k + 1] \in ToSet(site.files[c[k]].locs)
  BY ChainsAre, DiscoveryConstantsOK DEF DiscoveryConstantsOK
<1>2. d \in [1..(n + 1) -> Sitemaps]
  BY <1>1
<1>3. Len(d) = n + 1 /\ d[n + 1] = s /\ d[1] = c[1]
  <2>1. d \in Seq(Sitemaps) /\ n + 1 \in Nat
    BY <1>1, <1>2, IsASeq
  <2>2. DOMAIN d = 1..(n + 1) /\ DOMAIN d = 1..Len(d) /\ Len(d) \in Nat
    BY <2>1, LenProperties
  <2>3. Len(d) = n + 1
    BY <1>1, <2>1, <2>2
  <2>4. QED
    BY <1>1, <2>3
<1>4. ASSUME NEW k \in 1..n
      PROVE  site.files[d[k]].kind = "index" /\ d[k + 1] \in ToSet(site.files[d[k]].locs)
  <2>1. d[k] = c[k]
    BY <1>1
  <2>2. CASE k = n
    BY <1>1, <1>3, <2>1, <2>2
  <2>3. CASE k # n
    <3>1. k \in 1..(n - 1) /\ k + 1 \in 1..(n + 1) /\ k + 1 # n + 1
      <4>1. \A m \in Nat : \A l \in 1..m : l # m =>
                l \in 1..(m - 1) /\ l + 1 \in 1..(m + 1) /\ l + 1 # m + 1
        OBVIOUS
      <4>2. n \in Nat /\ k \in 1..n /\ k # n
        BY <1>1, <2>3
      <4> HIDE DEF n
      <4>3. QED
        BY <4>1, <4>2
    <3>2. d[k + 1] = c[k + 1]
      BY <3>1
    <3>3. site.files[c[k]].kind = "index" /\ c[k + 1] \in ToSet(site.files[c[k]].locs)
      BY <1>1, <3>1
    <3>4. QED
      BY <2>1, <3>2, <3>3
  <2>4. QED
    BY <2>2, <2>3
<1> HIDE DEF d
<1>5. d \in Chains
  <2>1. d \in UNION {[1..m -> Sitemaps] : m \in 1..MaxDepth}
    BY <1>1, <1>2
  <2>2. Len(d) - 1 = n /\ d[1] \in ToSet(StartingPoints)
    BY <1>1, <1>3
  <2>3. \A k \in 1..(Len(d) - 1) :
            site.files[d[k]].kind = "index" /\ d[k + 1] \in ToSet(site.files[d[k]].locs)
    BY <1>4, <2>2
  <2>4. QED
    BY <2>1, <2>2, <2>3 DEF Chains
<1>6. QED
  BY <1>3, <1>5

\* A step of the walk at the head of the list keeps every debt or pays it.
LEMMA DebtsStay ==
    ASSUME DiscoveryTypeOK, todo # <<>>,
           ToSet(Tail(todo)) \subseteq ToSet(todo'), ToSet(tried) \subseteq ToSet(tried'),
           Head(todo).depth <= MaxDepth =>
                \E t \in ToSet(tried') : t.call.sitemap = Head(todo).sitemap,
           NEW s, Owed(s)
    PROVE  Owed(s)'
<1>1. CASE Seen(s)
  BY <1>1 DEF Seen, Owed
<1>2. ASSUME NEW call \in ToSet(todo), call.sitemap = s, call.depth <= MaxDepth
      PROVE  Owed(s)'
  <2>1. call = Head(todo) \/ call \in ToSet(Tail(todo))
    BY SetOfSeq DEF DiscoveryTypeOK
  <2>2. CASE call = Head(todo)
    BY <1>2, <2>2 DEF Owed, Seen
  <2>3. CASE call \in ToSet(Tail(todo))
    BY <1>2, <2>3 DEF Owed
  <2>4. QED
    BY <2>1, <2>2, <2>3
<1>3. QED
  BY <1>1, <1>2 DEF Owed

LEMMA WalkBegins ==
    ASSUME DiscoveryTypeOK, Began, WalkInv, ReadRobots PROVE WalkInv'
<1>1. site' = site /\ site \in Sites /\ site' \in Sites /\ stage' = "walk"
      /\ tried' = <<>> /\ urls' = <<>> /\ todo' = Calls(StartingPoints', 1)
  BY DEF ReadRobots, Began, Candidates, Calls
<1>2. StartingPoints' \in Seq(Sitemaps)
  <2>1. Fallbacks \in Seq(Sitemaps) /\ site.robots \in Seq(Sitemaps)
    BY <1>1, DiscoveryConstantsOK, Zenon DEF DiscoveryConstantsOK
  <2>2. QED
    BY <1>1, <2>1 DEF StartingPoints
<1>3. /\ ToSet(todo') = {[sitemap |-> s, depth |-> 1] : s \in ToSet(StartingPoints')}
      /\ ToSet(StartingPoints') \subseteq Sitemaps
  BY <1>1, <1>2, CallsAre, SetOfSeq
<1>4. ToSet(tried') = {} /\ ToSet(urls') = {} /\ DOMAIN tried' = {}
  BY <1>1 DEF ToSet
<1>5. CallsJustified'
  <2>1. ASSUME NEW s \in ToSet(StartingPoints')
        PROVE  \E c \in Chains' : Len(c) = 1 /\ c[1] = s
    <3> DEFINE c == [k \in 1..1 |-> s]
    <3>1. c \in [1..1 -> Sitemaps] /\ 1 \in 1..MaxDepth /\ c[1] = s
      BY <1>3, <2>1, DiscoveryConstantsOK DEF DiscoveryConstantsOK
    <3>2. c \in UNION {[1..n -> Sitemaps] : n \in 1..MaxDepth}
      BY <3>1
    <3>3. Len(c) = 1
      BY <3>1, IsASeq, LenProperties
    <3> HIDE DEF c
    <3>4. c \in Chains'
      <4>1. c[1] \in ToSet(StartingPoints') /\ 1..(Len(c) - 1) = {}
        BY <2>1, <3>1, <3>3
      <4>2. QED
        BY <3>2, <4>1 DEF Chains
    <3>5. QED
      BY <3>1, <3>3, <3>4
  <2>2. ASSUME NEW call \in ToSet(todo') PROVE ChainTo(call)'
    <3>1. PICK s \in ToSet(StartingPoints') : call = [sitemap |-> s, depth |-> 1]
      BY <1>3, <2>2
    <3>2. PICK c \in Chains' : Len(c) = 1 /\ c[1] = s
      BY <2>1
    <3>3. QED
      BY <3>1, <3>2 DEF ChainTo
  <2>3. QED
    BY <1>4, <2>2 DEF CallsJustified
<1>6. NothingForgotten'
  <2>1. MaxDepth >= 1
    BY DiscoveryConstantsOK DEF DiscoveryConstantsOK
  <2>2. ASSUME NEW s \in ToSet(StartingPoints') PROVE Owed(s)'
    <3>1. [sitemap |-> s, depth |-> 1] \in ToSet(todo')
      BY <1>3, <2>2
    <3>2. QED
      BY <2>1, <3>1 DEF Owed
  <2>3. QED
    BY <1>4, <2>2 DEF NothingForgotten
<1>7. UrlsOf(ToSet(tried))' = {}
  BY <1>4 DEF UrlsOf
<1>8. QED
  BY <1>1, <1>4, <1>5, <1>6, <1>7 DEF WalkInv, TriedOnce

LEMMA WalkSkips ==
    ASSUME DiscoveryTypeOK, Began, WalkInv, SkipSitemap PROVE WalkInv'
<1>1. /\ stage = "walk" /\ todo # <<>> /\ todo' = Tail(todo)
      /\ UNCHANGED <<site, robotsFound, tried, urls, stage>>
      /\ Head(todo).depth > MaxDepth \/ Seen(Head(todo).sitemap)
  BY DEF SkipSitemap
<1>2. /\ Head(todo).depth \in Nat /\ MaxDepth \in Nat
      /\ ToSet(todo) = {Head(todo)} \cup ToSet(Tail(todo))
  <2>1. todo \in Seq(Call) /\ MaxDepth \in Nat
    BY DiscoveryConstantsOK DEF DiscoveryTypeOK, DiscoveryConstantsOK
  <2>2. Head(todo) \in Call /\ ToSet(todo) = {Head(todo)} \cup ToSet(Tail(todo))
    BY <1>1, <2>1, SetOfSeq
  <2>3. QED
    BY <2>1, <2>2 DEF Call
<1>3. Chains' = Chains /\ StartingPoints' = StartingPoints
      /\ UrlsOf(ToSet(tried))' = UrlsOf(ToSet(tried)) /\ \A s : Seen(s)' <=> Seen(s)
  BY <1>1 DEF Chains, StartingPoints, UrlsOf, Seen
<1>4. Head(todo).depth <= MaxDepth =>
        \E t \in ToSet(tried') : t.call.sitemap = Head(todo).sitemap
  BY <1>1, <1>2 DEF Seen
<1>5. \A s : Owed(s) => Owed(s)'
  BY <1>1, <1>4, DebtsStay
<1>6. CallsJustified /\ NothingForgotten /\ ToSet(urls) = UrlsOf(ToSet(tried)) /\ TriedOnce
  BY <1>1 DEF WalkInv
<1>7. CallsJustified'
  BY <1>1, <1>2, <1>3, <1>6 DEF CallsJustified, ChainTo
<1>8. NothingForgotten'
  BY <1>1, <1>3, <1>5, <1>6 DEF NothingForgotten
<1>9. QED
  BY <1>1, <1>3, <1>6, <1>7, <1>8 DEF WalkInv, TriedOnce

LEMMA WalkResolves ==
    ASSUME DiscoveryTypeOK, Began, WalkInv, ResolveSitemap PROVE WalkInv'
<1> DEFINE call == Head(todo)
           file == site.files[call.sitemap]
           nested == {[sitemap |-> s, depth |-> call.depth + 1] : s \in ToSet(file.locs)}
<1>1. /\ stage = "walk" /\ todo # <<>> /\ site \in Sites
      /\ UNCHANGED <<site, stage, robotsFound>>
      /\ call.depth <= MaxDepth /\ ~Seen(call.sitemap)
      /\ todo \in Seq(Call) /\ urls \in Seq(Urls) /\ tried \in Seq(Tried)
  BY DEF ResolveSitemap, Began, DiscoveryTypeOK, Tried
<1>2. /\ call \in Call /\ Tail(todo) \in Seq(Call) /\ ToSet(Tail(todo)) \subseteq ToSet(todo)
      /\ ToSet(todo) = {call} \cup ToSet(Tail(todo))
      /\ call.sitemap \in Sitemaps /\ call.depth \in Nat /\ MaxDepth \in Nat
  <2>1. /\ call \in Call /\ Tail(todo) \in Seq(Call)
        /\ ToSet(todo) = {call} \cup ToSet(Tail(todo))
    BY <1>1, SetOfSeq
  <2>2. QED
    BY <2>1, DiscoveryConstantsOK DEF Call, DiscoveryConstantsOK
<1>3. /\ CallsJustified /\ NothingForgotten /\ TriedOnce
      /\ ToSet(urls) = UrlsOf(ToSet(tried))
  BY <1>1 DEF WalkInv
<1>4. Chains' = Chains /\ StartingPoints' = StartingPoints
      /\ UrlsOf(ToSet(tried))' = UrlsOf(ToSet(tried'))
  BY <1>1 DEF Chains, StartingPoints, UrlsOf
<1>5. PICK b \in BOOLEAN :
        /\ tried' = Append(tried, [call |-> call, found |-> b])
        /\ \/ /\ b /\ file.kind = "index"
              /\ todo' = Calls(file.locs, call.depth + 1) \o Tail(todo) /\ urls' = urls
           \/ b /\ file.kind = "urlset" /\ todo' = Tail(todo) /\ urls' = urls \o file.locs
           \/ ~b /\ todo' = Tail(todo) /\ urls' = urls
  BY DEF ResolveSitemap
<1> DEFINE new == [call |-> call, found |-> b]
<1>6. /\ ToSet(tried') = ToSet(tried) \cup {new}
      /\ DOMAIN tried = 1..Len(tried) /\ Len(tried) \in Nat
      /\ DOMAIN tried' = 1..(Len(tried) + 1)
      /\ \A i \in 1..Len(tried) : tried'[i] = tried[i]
      /\ tried'[Len(tried) + 1] = new
  <2>1. new \in Tried
    BY <1>2 DEF Tried
  <2>2. QED
    <3> HIDE DEF new
    <3>1. tried' = Append(tried, new)
      BY <1>5 DEF new
    <3>2. QED
      BY <1>1, <2>1, <3>1, SetOfAppend
<1>7. ToSet(todo') = ToSet(Tail(todo)) \cup (IF b /\ file.kind = "index" THEN nested ELSE {})
  <2>1. CASE /\ b /\ file.kind = "index"
             /\ todo' = Calls(file.locs, call.depth + 1) \o Tail(todo)
    <3>1. file.locs \in Seq(Sitemaps) /\ call.depth + 1 \in Nat
      <4>1. file.locs \in Seq(Sitemaps)
        BY <1>1, <1>2, <2>1, SiteIs
      <4>2. call.depth + 1 \in Nat
        BY <1>2
      <4>3. QED
        BY <4>1, <4>2
    <3>2. Calls(file.locs, call.depth + 1) \in Seq(Call)
          /\ ToSet(Calls(file.locs, call.depth + 1)) = nested
      BY <3>1, CallsAre
    <3>3. ToSet(todo') = nested \cup ToSet(Tail(todo))
      <4> HIDE DEF nested
      <4>1. QED
        BY <1>2, <2>1, <3>2, SetOfConcat
    <3>4. QED
      BY <2>1, <3>3
  <2>2. CASE todo' = Tail(todo) /\ ~(b /\ file.kind = "index")
    BY <2>2
  <2>3. QED
    BY <1>5, <2>1, <2>2
<1>8. CallsJustified'
  <2>1. PICK c \in Chains : Len(c) = call.depth /\ c[Len(c)] = call.sitemap
    BY <1>1, <1>2, <1>3 DEF CallsJustified, ChainTo
  <2>2. ASSUME NEW n \in nested, b, file.kind = "index", n.depth <= MaxDepth
        PROVE  \E d \in Chains : Len(d) = n.depth /\ d[Len(d)] = n.sitemap
    <3>1. PICK s \in ToSet(file.locs) : n = [sitemap |-> s, depth |-> call.depth + 1]
      BY <2>2
    <3>2. s \in Sitemaps
      BY <1>1, <1>2, <2>2, <3>1, SiteIs, SetOfSeq
    <3>3. Len(c) < MaxDepth
      BY <1>2, <2>1, <2>2, <3>1
    <3>4. PICK d \in Chains : Len(d) = Len(c) + 1 /\ d[Len(d)] = s
      <4>1. /\ site.files[c[Len(c)]].kind = "index"
            /\ s \in ToSet(site.files[c[Len(c)]].locs)
        BY <2>1, <2>2, <3>1
      <4>2. QED
        BY <3>2, <3>3, <4>1, ChainsGoOn
    <3>5. n.depth = Len(d) /\ n.sitemap = d[Len(d)]
      BY <2>1, <3>1, <3>4
    <3>6. QED
      BY <3>5
  <2>3. ASSUME NEW n \in ToSet(todo'), n.depth <= MaxDepth
        PROVE  \E d \in Chains : Len(d) = n.depth /\ d[Len(d)] = n.sitemap
    BY <1>2, <1>3, <1>7, <2>2, <2>3 DEF CallsJustified, ChainTo
  <2>4. ASSUME NEW t \in ToSet(tried')
        PROVE  \E d \in Chains : Len(d) = t.call.depth /\ d[Len(d)] = t.call.sitemap
    <3>1. CASE t \in ToSet(tried)
      BY <1>3, <3>1 DEF CallsJustified, ChainTo
    <3>2. CASE t = new
      BY <2>1, <3>2
    <3>3. QED
      BY <1>6, <3>1, <3>2
  <2>5. QED
    BY <1>4, <2>3, <2>4 DEF CallsJustified, ChainTo
<1>9. NothingForgotten'
  <2>1. /\ ToSet(Tail(todo)) \subseteq ToSet(todo') /\ ToSet(tried) \subseteq ToSet(tried')
        /\ \E t \in ToSet(tried') : t.call.sitemap = call.sitemap
    BY <1>6, <1>7
  <2>2. \A s : Owed(s) => Owed(s)'
    BY <1>1, <2>1, DebtsStay
  <2>3. ASSUME b, call.depth # MaxDepth, file.kind = "index", NEW s \in ToSet(file.locs)
        PROVE  Owed(s)'
    <3>1. [sitemap |-> s, depth |-> call.depth + 1] \in ToSet(todo')
      BY <1>7, <2>3
    <3>2. call.depth + 1 <= MaxDepth
      BY <1>1, <1>2, <2>3
    <3>3. QED
      BY <3>1, <3>2 DEF Owed
  <2>4. ASSUME NEW t \in ToSet(tried'), t.found, t.call.depth # MaxDepth,
               site.files[t.call.sitemap].kind = "index",
               NEW s \in ToSet(site.files[t.call.sitemap].locs)
        PROVE  Owed(s)'
    <3>1. CASE t \in ToSet(tried)
      BY <1>3, <2>2, <2>4, <3>1 DEF NothingForgotten
    <3>2. CASE t = new
      BY <2>3, <2>4, <3>2
    <3>3. QED
      BY <1>6, <3>1, <3>2
  <2>5. QED
    BY <1>1, <1>3, <1>4, <2>2, <2>4 DEF NothingForgotten
<1>10. ToSet(urls') = UrlsOf(ToSet(tried'))
  <2>1. CASE b /\ file.kind = "urlset" /\ urls' = urls \o file.locs
    <3>1. file.locs \in Seq(Urls)
      BY <1>1, <1>2, <2>1, SiteIs
    <3>2. ToSet(urls') = ToSet(urls) \cup ToSet(file.locs)
      BY <1>1, <2>1, <3>1, SetOfConcat
    <3>3. UrlsOf(ToSet(tried')) = UrlsOf(ToSet(tried)) \cup ToSet(file.locs)
      BY <1>6, <2>1 DEF UrlsOf
    <3>4. QED
      BY <1>3, <3>2, <3>3
  <2>2. CASE ~(b /\ file.kind = "urlset") /\ urls' = urls
    <3>1. UrlsOf(ToSet(tried')) = UrlsOf(ToSet(tried))
      BY <1>6, <2>2 DEF UrlsOf
    <3>2. QED
      BY <1>3, <2>2, <3>1
  <2>3. QED
    BY <1>5, <2>1, <2>2
<1>11. TriedOnce'
  <2>1. \A i \in 1..Len(tried) : tried[i].call.sitemap # call.sitemap
    BY <1>1, <1>6 DEF Seen, ToSet
  <2>2. ASSUME NEW i \in 1..(Len(tried) + 1), NEW j \in 1..(Len(tried) + 1),
               tried'[i].call.sitemap = tried'[j].call.sitemap
        PROVE  i = j
    <3>1. \A k \in 1..(Len(tried) + 1) : k \in 1..Len(tried) \/ k = Len(tried) + 1
      BY <1>6
    <3>2. CASE i \in 1..Len(tried) /\ j \in 1..Len(tried)
      BY <1>3, <1>6, <2>2, <3>2 DEF TriedOnce
    <3>3. CASE i \in 1..Len(tried) /\ j = Len(tried) + 1
      BY <1>6, <2>1, <2>2, <3>3
    <3>4. CASE j \in 1..Len(tried) /\ i = Len(tried) + 1
      BY <1>6, <2>1, <2>2, <3>4
    <3>5. QED
      BY <3>1, <3>2, <3>3, <3>4
  <2>3. QED
    BY <1>6, <2>2 DEF TriedOnce
<1>12. QED
  BY <1>1, <1>4, <1>8, <1>9, <1>10, <1>11 DEF WalkInv

LEMMA WalkInvKept ==
    ASSUME DiscoveryTypeOK, Began, WalkInv, [DiscoveryStep]_discoveryVars
    PROVE  WalkInv'
<1>1. CASE StartDiscovery
  BY <1>1 DEF StartDiscovery, WalkInv, TriedOnce
<1>2. CASE QueueTargets \/ UNCHANGED discoveryVars
  <2>1. /\ UNCHANGED <<site, robotsFound, todo, tried, urls>>
        /\ stage' \in {"walk", "report"} => stage \in {"walk", "report"}
        /\ stage' = "report" => stage = "report" \/ todo = <<>>
    BY <1>2 DEF QueueTargets, discoveryVars
  <2>2. /\ Chains' = Chains /\ StartingPoints' = StartingPoints
        /\ UrlsOf(ToSet(tried))' = UrlsOf(ToSet(tried)) /\ \A s : Owed(s)' <=> Owed(s)
    BY <2>1 DEF Chains, StartingPoints, UrlsOf, Owed, Seen
  <2>3. /\ CallsJustified' <=> CallsJustified
        /\ NothingForgotten' <=> NothingForgotten
        /\ TriedOnce' <=> TriedOnce
    BY <2>1, <2>2 DEF CallsJustified, ChainTo, NothingForgotten, TriedOnce
  <2>4. QED
    BY <2>1, <2>2, <2>3 DEF WalkInv
<1>3. CASE Report
  BY <1>3 DEF Report, WalkInv, TriedOnce
<1>4. CASE DiscoveryDies
  BY <1>4 DEF DiscoveryDies, WalkInv, TriedOnce
<1>5. QED
  BY <1>1, <1>2, <1>3, <1>4, WalkBegins, WalkSkips, WalkResolves DEF DiscoveryStep

-----------------------------------------------------------------------------
(* What is queued.  Only QueueTargets writes targets, once a discovery, so *)
(* what its upserts do to one list of URLs is true of the whole.           *)

Fresh == {t \in Targets : EarlierTargets[t] = 0 /\ targets[t] > 0}

\* Discoveries that may have queued something.
Rounds == IF stage \in {"robots", "walk"} THEN discoveries - 1 ELSE discoveries

Better(u) == {v \in WantedOf(urls) \ {u} : Relevance(v) >= Relevance(u)}

QueueInv ==
    /\ \A t \in Targets : EarlierTargets[t] > 0 => targets[t] = EarlierTargets[t]
    /\ IsFiniteSet(Fresh) /\ Cardinality(Fresh) <= MaxQueued * Rounds
    /\ \A t \in Fresh : \E u \in Urls :
            Wanted(u) /\ TargetOf[u] = t /\ targets[t] = Relevance(u)
    /\ Rounds = 0 => targets = EarlierTargets
    /\ stage = "report" =>
        /\ \A u \in WantedOf(urls) :
                targets[TargetOf[u]] = 0 => Cardinality(Better(u)) >= MaxQueued
        /\ discoveries = 1 => \A t \in Fresh :
                targets[t] = Max({Relevance(u) : u \in {v \in WantedOf(urls) : TargetOf[v] = t}})

LEMMA QueueInvIsBest ==
    ASSUME DiscoveryTypeOK, Began, QueueInv PROVE BestQueued
<1>1. MaxQueued * Rounds <= MaxQueued * discoveries
  <2>1. discoveries > 0 \/ Rounds = discoveries
    BY DiscoveryConstantsOK DEF DiscoveryTypeOK, Began, Rounds, DiscoveryConstantsOK
  <2>2. \A m, n \in Nat : n > 0 => m * (n - 1) <= m * n
    OBVIOUS
  <2>3. MaxQueued \in Nat /\ discoveries \in Nat
    BY DiscoveryConstantsOK DEF DiscoveryTypeOK, DiscoveryConstantsOK
  <2>4. QED
    BY <2>1, <2>2, <2>3 DEF Rounds
<1>2. Cardinality(Fresh) <= MaxQueued * discoveries
  <2>1. Cardinality(Fresh) \in Nat /\ MaxQueued \in Nat /\ discoveries \in Nat
    BY FS_CardinalityType, DiscoveryConstantsOK
       DEF QueueInv, DiscoveryTypeOK, DiscoveryConstantsOK
  <2>2. \A m, n \in Nat : m * n \in Nat
    OBVIOUS
  <2>3. Rounds \in Int
    BY <2>1 DEF Rounds
  <2>4. \A m \in Nat, n \in Int : m * n \in Int
    OBVIOUS
  <2>5. Cardinality(Fresh) <= MaxQueued * Rounds
    BY DEF QueueInv
  <2>6. MaxQueued * Rounds \in Int /\ MaxQueued * discoveries \in Int
    BY <2>1, <2>3, <2>4
  <2>7. QED
    BY <1>1, <2>1, <2>5, <2>6
<1>3. WantedOf(urls) = {u \in ToSet(urls) : Matches[u] \cap Denied = {}}
  BY DEF WantedOf, Wanted
<1>4. QED
  BY <1>2, <1>3 DEF BestQueued, QueueInv, Fresh, Better, Wanted

LEMMA QueueInvAtQueue ==
    ASSUME DiscoveryTypeOK, Began, QueueInv, QueueTargets PROVE QueueInv'
<1> DEFINE new == {t \in Targets : targets[t] = 0 /\ targets'[t] > 0}
<1>1. /\ targets' = Upserted(urls) /\ stage = "walk" /\ stage' = "report"
      /\ urls' = urls /\ discoveries' = discoveries
      /\ urls \in Seq(Urls) /\ targets \in [Targets -> Nat]
      /\ discoveries \in Nat /\ discoveries > 0
  BY DiscoveryConstantsOK DEF QueueTargets, DiscoveryTypeOK, Began, DiscoveryConstantsOK
<1>2. /\ targets' \in [Targets -> Nat]
      /\ \A t \in Targets : targets[t] > 0 => targets'[t] = targets[t]
  BY <1>1, UpsertedIs
<1>3. Fresh' = Fresh \cup new
  <2>1. EarlierTargets \in [Targets -> Nat]
    BY DiscoveryConstantsOK DEF DiscoveryConstantsOK
  <2>2. ASSUME NEW t \in Targets
        PROVE  EarlierTargets[t] = 0 /\ targets'[t] > 0
                 <=> (EarlierTargets[t] = 0 /\ targets[t] > 0) \/ t \in new
    BY <1>1, <1>2, <2>1 DEF QueueInv
  <2>3. QED
    BY <2>2 DEF Fresh
<1>4. IsFiniteSet(Fresh') /\ Cardinality(Fresh') <= MaxQueued * Rounds'
  <2>1. IsFiniteSet(new) /\ Cardinality(new) <= MaxQueued /\ IsFiniteSet(Fresh)
    BY <1>1, FewTargetsAreNew DEF QueueInv
  <2> HIDE DEF new
  <2>2. IsFiniteSet(Fresh \cup new) /\ IsFiniteSet(Fresh \cap new)
        /\ Cardinality(Fresh \cup new)
             = Cardinality(Fresh) + Cardinality(new) - Cardinality(Fresh \cap new)
    BY <2>1, FS_Union, FS_Subset
  <2>3. /\ Cardinality(Fresh) \in Nat /\ Cardinality(new) \in Nat
        /\ Cardinality(Fresh \cap new) \in Nat
    BY <2>1, <2>2, FS_CardinalityType
  <2>4. Cardinality(Fresh') <= Cardinality(Fresh) + MaxQueued
    BY <1>3, <2>1, <2>2, <2>3, DiscoveryConstantsOK DEF DiscoveryConstantsOK
  <2>5. /\ Rounds \in Nat /\ Rounds' = Rounds + 1 /\ MaxQueued \in Nat
    BY <1>1, DiscoveryConstantsOK DEF Rounds, DiscoveryConstantsOK
  <2>6. \A m, n \in Nat : m * (n + 1) = m * n + m /\ m * n \in Nat
    OBVIOUS
  <2>7. MaxQueued * Rounds' = MaxQueued * Rounds + MaxQueued /\ MaxQueued * Rounds \in Nat
    BY <2>5, <2>6
  <2>8. Cardinality(Fresh) <= MaxQueued * Rounds
    BY DEF QueueInv
  <2>9. Cardinality(Fresh') \in Nat
    BY <1>3, <2>2, FS_CardinalityType
  <2>10. Cardinality(Fresh') <= MaxQueued * Rounds + MaxQueued
    BY <2>3, <2>4, <2>5, <2>7, <2>8, <2>9
  <2>11. QED
    BY <1>3, <2>2, <2>7, <2>10
<1>5. ASSUME NEW t \in new
      PROVE  \E u \in WantedOf(urls) :
                /\ TargetOf[u] = t /\ targets'[t] = Relevance(u)
                /\ \A v \in WantedOf(urls) : TargetOf[v] = t => Relevance(v) <= Relevance(u)
  <2>1. t \in Targets /\ targets[t] = 0 /\ Upserted(urls)[t] > 0
    BY <1>1
  <2>2. PICK i \in PlacesFor(urls, t) :
                /\ urls[i] \in WantedOf(urls) /\ TargetOf[urls[i]] = t
                /\ Upserted(urls)[t] = Relevance(urls[i])
                /\ \A v \in WantedOf(urls) :
                    TargetOf[v] = t => Relevance(v) <= Relevance(urls[i])
    BY <1>1, <2>1, NewTargetsAreBest
  <2>3. QED
    BY <1>1, <2>2
<1>6. WantedOf(urls) \subseteq Urls /\ \A u \in WantedOf(urls) : Wanted(u) /\ Relevance(u) \in Nat
  <2>1. ToSet(urls) \subseteq Urls
    BY <1>1, SetOfSeq
  <2>2. QED
    BY <2>1, FirstRuleIsBest DEF WantedOf
<1>7. ASSUME NEW t \in Fresh'
      PROVE  \E u \in Urls : Wanted(u) /\ TargetOf[u] = t /\ targets'[t] = Relevance(u)
  <2>1. CASE t \in Fresh
    BY <1>2, <2>1 DEF Fresh, QueueInv
  <2>2. CASE t \in new
    BY <1>5, <1>6, <2>2
  <2>3. QED
    BY <1>3, <1>7, <2>1, <2>2
<1>8. ASSUME NEW u \in WantedOf(urls), targets'[TargetOf[u]] = 0
      PROVE  Cardinality(Better(u)) >= MaxQueued
  BY <1>1, <1>8, LeftOutForBetter DEF Better
<1>9. ASSUME discoveries = 1, NEW t \in Fresh'
      PROVE  targets'[t] = Max({Relevance(u) : u \in {v \in WantedOf(urls) : TargetOf[v] = t}})
  <2>1. t \in new
    <3>1. Rounds = 0
      BY <1>1, <1>9 DEF Rounds
    <3>2. t \notin Fresh
      BY <3>1 DEF QueueInv, Fresh
    <3>3. QED
      BY <1>3, <1>9, <3>2
  <2>2. PICK u \in WantedOf(urls) :
                /\ TargetOf[u] = t /\ targets'[t] = Relevance(u)
                /\ \A v \in WantedOf(urls) : TargetOf[v] = t => Relevance(v) <= Relevance(u)
    BY <1>5, <2>1
  <2> DEFINE S == {Relevance(w) : w \in {v \in WantedOf(urls) : TargetOf[v] = t}}
  <2>3. S \in SUBSET Nat /\ Relevance(u) \in S /\ \A k \in S : k <= Relevance(u)
    BY <1>6, <2>2
  <2>4. Max(S) = Relevance(u)
    <3> HIDE DEF S
    <3>1. QED
      BY <2>3, MaxIs
  <2>5. QED
    BY <2>2, <2>4
<1>10. Rounds' # 0
  BY <1>1 DEF Rounds
<1>11. ASSUME NEW t \in Targets, EarlierTargets[t] > 0 PROVE targets'[t] = EarlierTargets[t]
  BY <1>2, <1>11 DEF QueueInv
<1>12. WantedOf(urls)' = WantedOf(urls) /\ \A u : Better(u)' = Better(u)
  BY <1>1 DEF Better, WantedOf
<1> HIDE DEF new
<1>13. QED
  BY <1>1, <1>4, <1>7, <1>8, <1>9, <1>10, <1>11, <1>12 DEF QueueInv

LEMMA QueueInvKept ==
    ASSUME DiscoveryTypeOK, Began, QueueInv, [DiscoveryStep]_discoveryVars
    PROVE  QueueInv'
<1>1. CASE QueueTargets
  BY <1>1, QueueInvAtQueue
<1>2. ASSUME ~QueueTargets
      PROVE  /\ targets' = targets
             /\ stage' = "report" => stage = "report" /\ urls' = urls
                                     /\ discoveries' = discoveries
             /\ Rounds \in Nat /\ (Rounds' = Rounds \/ Rounds' = Rounds + 1)
  <2>1. discoveries \in Nat /\ (stage # "idle" => discoveries > 0)
    BY DEF DiscoveryTypeOK, Began
  <2>2. Rounds \in Nat
    BY <2>1 DEF Rounds
  <2>3. CASE StartDiscovery
    BY <2>1, <2>2, <2>3 DEF StartDiscovery, Rounds
  <2>4. CASE ReadRobots \/ SkipSitemap \/ ResolveSitemap \/ Report
    BY <2>1, <2>2, <2>4 DEF ReadRobots, SkipSitemap, ResolveSitemap, Report, Rounds
  <2>5. CASE DiscoveryDies
    BY <2>1, <2>2, <2>5 DEF DiscoveryDies, Rounds
  <2>6. CASE UNCHANGED discoveryVars
    BY <2>2, <2>6 DEF discoveryVars, Rounds
  <2>7. QED
    BY <1>2, <2>3, <2>4, <2>5, <2>6 DEF DiscoveryStep
<1>3. ASSUME ~QueueTargets PROVE QueueInv'
  <2>1. Fresh' = Fresh
    BY <1>2, <1>3 DEF Fresh
  <2>2. MaxQueued * Rounds <= MaxQueued * Rounds' /\ MaxQueued * Rounds \in Nat
        /\ MaxQueued * Rounds' \in Nat
    <3>1. \A m, n \in Nat : m * n <= m * (n + 1) /\ m * n \in Nat /\ m * (n + 1) \in Nat
      OBVIOUS
    <3>2. MaxQueued \in Nat
      BY DiscoveryConstantsOK DEF DiscoveryConstantsOK
    <3>3. QED
      BY <1>2, <1>3, <3>1, <3>2
  <2>3. Cardinality(Fresh') <= MaxQueued * Rounds' /\ IsFiniteSet(Fresh')
    <3>1. Cardinality(Fresh) \in Nat /\ Cardinality(Fresh) <= MaxQueued * Rounds
          /\ IsFiniteSet(Fresh)
      BY FS_CardinalityType DEF QueueInv
    <3>2. QED
      BY <2>1, <2>2, <3>1
  <2>4. Rounds' = 0 => Rounds = 0
    BY <1>2, <1>3
  <2>5. stage' = "report" => /\ stage = "report" /\ discoveries' = discoveries
                             /\ WantedOf(urls)' = WantedOf(urls)
                             /\ \A u : Better(u)' = Better(u)
    BY <1>2, <1>3 DEF WantedOf, Better
  <2>6. QED
    BY <1>2, <1>3, <2>1, <2>3, <2>4, <2>5 DEF QueueInv
<1>4. QED
  BY <1>1, <1>3

-----------------------------------------------------------------------------

DiscoveryInv == DiscoveryTypeOK /\ Began /\ WalkInv /\ QueueInv

\* A discovery fetches no sitemap twice, none beyond MAX_DEPTH, and leaves out
\* a nearer one only where every way to it passes a failed request or an index
\* met at that depth; it queues the best of what it found, at most as many as
\* it may, with their best scores, and no existing target's priority moves:
\* for every site, however requests fail and the worker dies in between.
THEOREM BestOfSiteAlwaysQueued == Spec => []BestOfSiteQueued
<1>1. Init => DiscoveryInv
  <2> SUFFICES ASSUME Init PROVE DiscoveryInv
    OBVIOUS
  <2>1. DiscoveryInit
    BY DEF Init
  <2>2. /\ EarlierTargets \in [Targets -> Nat] /\ MaxQueued \in Nat
        /\ MaxDiscoveries \in Nat /\ MaxSetbacks \in Nat
    BY DiscoveryConstantsOK DEF DiscoveryConstantsOK
  <2>3. DiscoveryTypeOK /\ Began
    <3>1. /\ <<>> \in Seq(Call) /\ <<>> \in Seq(Urls) /\ <<>> \in Seq(Tried)
          /\ <<>> \in Seq({"SUCCESS", "PARTIAL", "FAILED"})
          /\ 0 \in 0..MaxDiscoveries /\ 0 \in 0..MaxSetbacks
      BY <2>2
    <3>2. DiscoveryTypeOK
      BY <2>1, <2>2, <3>1 DEF DiscoveryInit, DiscoveryTypeOK, Tried
    <3>3. QED
      BY <2>1, <3>2 DEF DiscoveryInit, Began
  <2>4. WalkInv
    BY <2>1 DEF DiscoveryInit, WalkInv, TriedOnce
  <2>5. QueueInv
    <3>1. Fresh = {} /\ Rounds = 0 /\ targets = EarlierTargets
      BY <2>1 DEF DiscoveryInit, Fresh, Rounds
    <3>2. IsFiniteSet(Fresh) /\ Cardinality(Fresh) = 0
      BY <3>1, FS_EmptySet
    <3>3. QED
      BY <2>1, <2>2, <3>1, <3>2 DEF DiscoveryInit, QueueInv
  <2>6. QED
    BY <2>3, <2>4, <2>5 DEF DiscoveryInv
<1>2. DiscoveryInv /\ [Next]_vars => DiscoveryInv'
  <2> SUFFICES ASSUME DiscoveryInv, [Next]_vars PROVE DiscoveryInv'
    OBVIOUS
  <2>1. [DiscoveryStep]_discoveryVars
    BY DEF Next, vars
  <2>2. QED
    BY <2>1, DiscoveryTypesKept, WalkInvKept, QueueInvKept DEF DiscoveryInv
<1>3. DiscoveryInv => BestOfSiteQueued
  BY WalkInvCovers, QueueInvIsBest DEF DiscoveryInv, BestOfSiteQueued
<1>4. QED
  BY <1>1, <1>2, <1>3, PTL DEF Spec

-----------------------------------------------------------------------------
(* The characters that are kept of a text.                                 *)

LEMMA KeptIs ==
    ASSUME NEW S, NEW s \in Seq(S), NEW K
    PROVE  /\ KeptUpTo(s, K)[0] = <<>>
           /\ \A n \in 1..Len(s) :
                KeptUpTo(s, K)[n] = IF s[n] \in K
                                 THEN Append(KeptUpTo(s, K)[n - 1], s[n])
                                 ELSE KeptUpTo(s, K)[n - 1]
<1> DEFINE IsKept(f, m) ==
              f = [n \in 0..m |-> IF n = 0 THEN <<>>
                                  ELSE IF s[n] \in K
                                       THEN Append(f[n - 1], s[n]) ELSE f[n - 1]]
           Good == {m \in Nat : \E f : IsKept(f, m)}
<1>1. 0 \in Good
  <2>1. IsKept([n \in 0..0 |-> <<>>], 0)
    OBVIOUS
  <2>2. QED
    BY <2>1
<1>2. ASSUME NEW m \in Nat, m \in Good PROVE m + 1 \in Good
  <2>1. PICK f : IsKept(f, m)
    BY <1>2
  <2> DEFINE e == IF s[m + 1] \in K THEN Append(f[m], s[m + 1]) ELSE f[m]
             g == [n \in 0..(m + 1) |-> IF n = m + 1 THEN e ELSE f[n]]
  <2>2. ASSUME NEW n \in 0..(m + 1)
        PROVE  g[n] = IF n = 0 THEN <<>>
                      ELSE IF s[n] \in K THEN Append(g[n - 1], s[n]) ELSE g[n - 1]
    <3>1. CASE n = 0
      BY <2>1, <3>1
    <3>2. CASE n = m + 1
      BY <3>2
    <3>3. CASE n \in 1..m
      <4>1. g[n] = f[n] /\ g[n - 1] = f[n - 1]
        BY <3>3
      <4>2. f[n] = IF s[n] \in K THEN Append(f[n - 1], s[n]) ELSE f[n - 1]
        <5>1. n \in 0..m /\ n # 0
          BY <3>3
        <5>2. QED
          BY <2>1, <5>1
      <4>3. QED
        BY <3>3, <4>1, <4>2
    <3>4. QED
      BY <3>1, <3>2, <3>3
  <2>3. IsKept(g, m + 1)
    <3> HIDE DEF e
    <3>1. g = [n \in 0..(m + 1) |-> g[n]]
      OBVIOUS
    <3>2. QED
      BY <2>2, <3>1
  <2>4. \E h : IsKept(h, m + 1)
    <3> HIDE DEF g, IsKept
    <3>1. QED
      BY <2>3
  <2>5. QED
    <3> HIDE DEF IsKept
    <3>1. QED
      BY <2>4
<1>3. Len(s) \in Good
  <2> HIDE DEF Good
  <2>1. Nat \subseteq Good
    BY <1>1, <1>2, AllNumbers
  <2>2. QED
    BY <2>1, LenProperties
<1>4. IsKept(KeptUpTo(s, K), Len(s))
  <2>1. \E f : IsKept(f, Len(s))
    BY <1>3
  <2>2. QED
    BY <2>1, Zenon DEF KeptUpTo
<1>5. Len(s) \in Nat
  BY LenProperties
<1>6. ASSUME NEW n \in 0..Len(s)
      PROVE KeptUpTo(s, K)[n] = IF n = 0 THEN <<>> ELSE IF s[n] \in K
                                 THEN Append(KeptUpTo(s, K)[n - 1], s[n])
                                 ELSE KeptUpTo(s, K)[n - 1]
  BY <1>4, Zenon
<1>7. QED
  BY <1>5, <1>6

\* Whatever the text, only digits and pluses are kept of it.
LEMMA KeptArePhoneChars ==
    ASSUME NEW S, NEW s \in Seq(S)
    PROVE  OnlyDigitsKeepPlus(s) \in Seq(PhoneChar)
<1> DEFINE Good == {n \in Nat : n \in 0..Len(s) => KeptUpTo(s, PhoneChar)[n] \in Seq(PhoneChar)}
<1>1. Len(s) \in Nat
  BY LenProperties
<1>2. 0 \in Good
  <2>1. KeptUpTo(s, PhoneChar)[0] = <<>>
    BY KeptIs
  <2>2. QED
    BY <2>1, EmptySeq
<1>3. ASSUME NEW n \in Nat, n \in Good PROVE n + 1 \in Good
  <2>1. SUFFICES ASSUME n + 1 \in 1..Len(s) PROVE KeptUpTo(s, PhoneChar)[n + 1] \in Seq(PhoneChar)
    OBVIOUS
  <2>2. KeptUpTo(s, PhoneChar)[n] \in Seq(PhoneChar)
    BY <1>1, <1>3, <2>1
  <2>3. n + 1 - 1 = n
    OBVIOUS
  <2>4. KeptUpTo(s, PhoneChar)[n + 1] = IF s[n + 1] \in PhoneChar
                             THEN Append(KeptUpTo(s, PhoneChar)[n], s[n + 1]) ELSE KeptUpTo(s, PhoneChar)[n]
    BY <2>1, <2>3, KeptIs
  <2>5. QED
    BY <2>2, <2>4, AppendProperties
<1>4. Nat \subseteq Good
  <2> HIDE DEF Good
  <2>1. QED
    BY <1>2, <1>3, AllNumbers
<1>5. QED
  BY <1>1, <1>4 DEF OnlyDigitsKeepPlus, Kept

\* ... and such a sequence is kept whole.
LEMMA PhoneCharsAreKept ==
    ASSUME NEW s \in Seq(PhoneChar)
    PROVE  OnlyDigitsKeepPlus(s) = s
<1> DEFINE Good == {n \in Nat : n \in 0..Len(s) => KeptUpTo(s, PhoneChar)[n] = SubSeq(s, 1, n)}
<1>1. Len(s) \in Nat /\ \A n \in 1..Len(s) : s[n] \in PhoneChar
  BY LenProperties, ElementOfSeq
<1>step. \A n \in 1..Len(s) :
            KeptUpTo(s, PhoneChar)[n] = IF s[n] \in PhoneChar
                             THEN Append(KeptUpTo(s, PhoneChar)[n - 1], s[n]) ELSE KeptUpTo(s, PhoneChar)[n - 1]
  BY KeptIs
<1>2. 0 \in Good
  <2>1. KeptUpTo(s, PhoneChar)[0] = <<>>
    BY KeptIs
  <2>2. SubSeq(s, 1, 0) = <<>>
    BY SubSeqProperties, EmptySeq
  <2>3. QED
    BY <2>1, <2>2
<1>3. ASSUME NEW n \in Nat, n \in Good PROVE n + 1 \in Good
  <2>1. SUFFICES ASSUME n + 1 \in 1..Len(s) PROVE KeptUpTo(s, PhoneChar)[n + 1] = SubSeq(s, 1, n + 1)
    OBVIOUS
  <2>2. KeptUpTo(s, PhoneChar)[n] = SubSeq(s, 1, n)
    BY <1>1, <1>3, <2>1
  <2>3. KeptUpTo(s, PhoneChar)[n + 1] = Append(SubSeq(s, 1, n), s[n + 1])
    <3>1. n + 1 - 1 = n /\ s[n + 1] \in PhoneChar
      BY <1>1, <2>1
    <3>2. KeptUpTo(s, PhoneChar)[n + 1] = IF s[n + 1] \in PhoneChar
                               THEN Append(KeptUpTo(s, PhoneChar)[n], s[n + 1]) ELSE KeptUpTo(s, PhoneChar)[n]
      <4>1. PICK m \in 1..Len(s) : m = n + 1 /\ m - 1 = n
        BY <2>1
      <4>2. KeptUpTo(s, PhoneChar)[m] = IF s[m] \in PhoneChar
                             THEN Append(KeptUpTo(s, PhoneChar)[m - 1], s[m]) ELSE KeptUpTo(s, PhoneChar)[m - 1]
        BY <1>step
      <4>3. QED
        BY <4>1, <4>2, Zenon
    <3>3. QED
      BY <2>2, <3>1, <3>2
  <2>4. SubSeq(s, 1, n) \in Seq(PhoneChar) /\ s[n + 1] \in PhoneChar
    BY <1>1, <2>1, SubSeqProperties
  <2>5. SubSeq(s, 1, n + 1) = SubSeq(s, 1, n) \o <<s[n + 1]>>
    <3>1. SubSeq(s, 1, n + 1) = SubSeq(s, 1, n + 1 - 1) \o <<s[n + 1]>>
      BY <1>1, <2>1, SubSeqRecursiveSecond
    <3>2. QED
      BY <3>1
  <2>6. QED
    BY <2>3, <2>4, <2>5, AppendIsConcat
<1>4. Nat \subseteq Good
  <2> HIDE DEF Good
  <2>1. QED
    BY <1>2, <1>3, AllNumbers
<1>5. KeptUpTo(s, PhoneChar)[Len(s)] = SubSeq(s, 1, Len(s))
  BY <1>1, <1>4
<1>6. QED
  BY <1>5, SubSeqFull DEF OnlyDigitsKeepPlus, Kept

-----------------------------------------------------------------------------
(* Beginnings of numbers.                                                  *)

LEMMA PrefixIs ==
    ASSUME NEW S, NEW p \in Seq(S), NEW t \in Seq(S)
    PROVE  IsPrefix(p, t) <=> Len(p) <= Len(t) /\ \A i \in 1..Len(p) : t[i] = p[i]
<1>1. /\ Len(p) \in Nat /\ \A i \in 1..Len(p) : p[i] \in S
      /\ Len(t) \in Nat /\ \A i \in 1..Len(t) : t[i] \in S
  BY LenProperties, ElementOfSeq
<1>2. CASE Len(p) <= Len(t)
  <2>1. SubSeq(p, 1, Len(p)) = p
    BY SubSeqFull
  <2> DEFINE b == SubSeq(t, 1, Len(p))
  <2>2. \A i \in 1..Len(p) : t[i] \in S
    BY <1>1, <1>2
  <2>3. /\ b \in Seq(S) /\ Len(b) = Len(p)
        /\ \A i \in 1..Len(p) : b[i] = t[i]
    <3>1. /\ b \in Seq(S) /\ Len(b) = IF 1 <= Len(p) THEN Len(p) - 1 + 1 ELSE 0
          /\ \A i \in 1..(Len(p) - 1 + 1) : b[i] = t[1 + i - 1]
      BY <1>1, <2>2, SubSeqProperties
    <3>2. QED
      BY <1>1, <3>1
  <2>4. p = b <=> \A i \in 1..Len(p) : p[i] = b[i]
    BY <2>3, SeqEqual
  <2>5. QED
    BY <1>2, <2>1, <2>3, <2>4 DEF IsPrefix
<1>3. CASE ~(Len(p) <= Len(t))
  BY <1>3 DEF IsPrefix
<1>4. QED
  BY <1>2, <1>3

LEMMA Beginnings ==
    ASSUME NEW t \in Seq(PhoneChar)
    PROVE  /\ \A a \in PhoneChar : IsPrefix(<<a>>, t) <=> Len(t) >= 1 /\ t[1] = a
           /\ IsPrefix(<<Plus, 0>>, t) <=> Len(t) >= 2 /\ t[1] = Plus /\ t[2] = 0
           /\ IsPrefix(<<8, 4>>, t) <=> Len(t) >= 2 /\ t[1] = 8 /\ t[2] = 4
           /\ IsPrefix(<<Plus, 8, 4>>, t) <=>
                Len(t) >= 3 /\ t[1] = Plus /\ t[2] = 8 /\ t[3] = 4
           /\ \A d \in {8, 9} : IsPrefix(<<1, d, 0, 0>>, t) =>
                Len(t) >= 4 /\ t[1] = 1 /\ t[2] = d
<1>1. {0, 1, 4, 8, 9, Plus} \subseteq PhoneChar
  BY DEF PhoneChar, Digit
<1>2. ASSUME NEW a \in PhoneChar
      PROVE  IsPrefix(<<a>>, t) <=> Len(t) >= 1 /\ t[1] = a
  <2>1. <<a>> \in Seq(PhoneChar) /\ Len(<<a>>) = 1 /\ <<a>>[1] = a
    OBVIOUS
  <2>2. IsPrefix(<<a>>, t) <=> 1 <= Len(t) /\ \A i \in 1..1 : t[i] = <<a>>[i]
    BY <2>1, PrefixIs
  <2>3. QED
    BY <2>1, <2>2, LenProperties
<1>3. ASSUME NEW a \in PhoneChar, NEW b \in PhoneChar
      PROVE  IsPrefix(<<a, b>>, t) <=> Len(t) >= 2 /\ t[1] = a /\ t[2] = b
  <2> DEFINE p == <<a, b>>
  <2>1. p \in Seq(PhoneChar) /\ Len(p) = 2 /\ p[1] = a /\ p[2] = b
    OBVIOUS
  <2>2. IsPrefix(p, t) <=> 2 <= Len(t) /\ \A i \in 1..2 : t[i] = p[i]
    <3> HIDE DEF p
    <3>1. IsPrefix(p, t) <=> Len(p) <= Len(t) /\ \A i \in 1..Len(p) : t[i] = p[i]
      BY <2>1, PrefixIs
    <3>2. QED
      BY <2>1, <3>1
  <2>3. QED
    BY <2>1, <2>2, LenProperties
<1>4. ASSUME NEW a \in PhoneChar, NEW b \in PhoneChar, NEW c \in PhoneChar
      PROVE  IsPrefix(<<a, b, c>>, t) <=> Len(t) >= 3 /\ t[1] = a /\ t[2] = b /\ t[3] = c
  <2> DEFINE p == <<a, b, c>>
  <2>1. p \in Seq(PhoneChar) /\ Len(p) = 3 /\ p[1] = a /\ p[2] = b /\ p[3] = c
    OBVIOUS
  <2>2. IsPrefix(p, t) <=> 3 <= Len(t) /\ \A i \in 1..3 : t[i] = p[i]
    <3> HIDE DEF p
    <3>1. IsPrefix(p, t) <=> Len(p) <= Len(t) /\ \A i \in 1..Len(p) : t[i] = p[i]
      BY <2>1, PrefixIs
    <3>2. QED
      BY <2>1, <3>1
  <2>3. QED
    BY <2>1, <2>2, LenProperties
<1>5. ASSUME NEW d \in {8, 9}, IsPrefix(<<1, d, 0, 0>>, t)
      PROVE  Len(t) >= 4 /\ t[1] = 1 /\ t[2] = d
  <2> DEFINE p == <<1, d, 0, 0>>
  <2>1. p \in Seq(PhoneChar) /\ Len(p) = 4 /\ p[1] = 1 /\ p[2] = d
    BY <1>1
  <2>2. 4 <= Len(t) /\ \A i \in 1..4 : t[i] = p[i]
    <3>1. IsPrefix(p, t)
      BY <1>5
    <3> HIDE DEF p
    <3>2. QED
      BY <2>1, <3>1, PrefixIs
  <2>3. QED
    BY <2>1, <2>2, LenProperties
<1>6. QED
  BY <1>1, <1>2, <1>3, <1>4, <1>5

\* A sequence of digits and pluses that has no plus, and what it says of it.
LEMMA DigitsOf ==
    ASSUME NEW t \in Seq(PhoneChar)
    PROVE  AllDigits(t) <=> \A i \in 1..Len(t) : t[i] \in Digit
<1>1. DOMAIN t = 1..Len(t)
  BY LenProperties
<1>2. QED
  BY <1>1 DEF AllDigits, Range

-----------------------------------------------------------------------------
(* The normalizer, on what is kept.                                        *)

DigitsPart(c) == IF IsPrefix(<<Plus>>, c) THEN Tail(c) ELSE c

IsNational(c) ==
    IsPrefix(<<0>>, c) \/ IsPrefix(<<Plus, 8, 4>>, c) \/ CountryPrefixed(c)

OfCleaned(c) ==
    IF IsHotline(DigitsPart(c))
    THEN [normalized |-> DigitsPart(c), type |-> HotlineType(DigitsPart(c))]
    ELSE IF IsNational(c) THEN NormalizeNational(ToNationalForm(c))
    ELSE IF IsShortCode(DigitsPart(c))
    THEN [normalized |-> DigitsPart(c), type |-> "SHORT_CODE"]
    ELSE Unrecognized

LEMMA NormalizedByCleaned ==
    ASSUME NEW S, NEW s \in Seq(S)
    PROVE  /\ OnlyDigitsKeepPlus(s) \in Seq(PhoneChar)
           /\ NormalizeVietnamPhone(s) = OfCleaned(OnlyDigitsKeepPlus(s))
<1>1. OnlyDigitsKeepPlus(s) \in Seq(PhoneChar)
  BY KeptArePhoneChars
<1>2. QED
  BY <1>1, Zenon DEF NormalizeVietnamPhone, OfCleaned, DigitsPart, IsNational

LEMMA NormalizedByItself ==
    ASSUME NEW c \in Seq(PhoneChar)
    PROVE  NormalizeVietnamPhone(c) = OfCleaned(c)
BY NormalizedByCleaned, PhoneCharsAreKept

LEMMA DigitsPartIs ==
    ASSUME NEW c \in Seq(PhoneChar)
    PROVE  /\ DigitsPart(c) \in Seq(PhoneChar)
           /\ ~(Len(c) >= 1 /\ c[1] = Plus) => DigitsPart(c) = c
           /\ Len(c) >= 1 /\ c[1] = Plus =>
                /\ Len(DigitsPart(c)) = Len(c) - 1
                /\ \A i \in 1..(Len(c) - 1) : DigitsPart(c)[i] = c[i + 1]
<1>1. Plus \in PhoneChar
  BY DEF PhoneChar
<1>2. IsPrefix(<<Plus>>, c) <=> Len(c) >= 1 /\ c[1] = Plus
  BY <1>1, Beginnings
<1>3. CASE Len(c) >= 1 /\ c[1] = Plus
  <2>1. c # <<>>
    BY <1>3, EmptySeq
  <2>2. /\ Tail(c) \in Seq(PhoneChar) /\ Len(Tail(c)) = Len(c) - 1
        /\ \A i \in 1..(Len(c) - 1) : Tail(c)[i] = c[i + 1]
    BY <2>1, HeadTailProperties
  <2>3. QED
    BY <1>2, <1>3, <2>2 DEF DigitsPart
<1>4. CASE ~(Len(c) >= 1 /\ c[1] = Plus)
  BY <1>2, <1>4 DEF DigitsPart
<1>5. QED
  BY <1>3, <1>4

\* Plus is no digit.
LEMMA PlusIsNoDigit == Plus \notin Digit
BY DEF Plus, Digit

LEMMA HotlineFixed ==
    ASSUME NEW d \in Seq(PhoneChar), IsHotline(d)
    PROVE  /\ OfCleaned(d) = [normalized |-> d, type |-> HotlineType(d)]
           /\ HotlineType(d) \in {"HOTLINE_1900", "HOTLINE_1800"}
           /\ d # <<>> /\ d[1] = 1
<1>1. Len(d) >= 4 /\ d[1] = 1
  BY Beginnings DEF IsHotline
<1>2. DigitsPart(d) = d
  BY <1>1, DigitsPartIs DEF Plus
<1>3. d # <<>>
  BY <1>1, EmptySeq
<1>4. QED
  BY <1>1, <1>2, <1>3 DEF OfCleaned, HotlineType

LEMMA ShortCodeFixed ==
    ASSUME NEW d \in Seq(PhoneChar), IsShortCode(d), d[1] # 0
    PROVE  /\ OfCleaned(d) = [normalized |-> d, type |-> "SHORT_CODE"]
           /\ d # <<>>
<1>1. Len(d) \in 3..6 /\ \A i \in 1..Len(d) : d[i] \in Digit
  BY DigitsOf DEF IsShortCode
<1>2. d[1] \in Digit /\ d[1] # Plus
  BY <1>1, PlusIsNoDigit
<1>3. DigitsPart(d) = d
  BY <1>2, DigitsPartIs
<1>4. ~IsNational(d)
  <2>1. 0 \in PhoneChar
    BY DEF PhoneChar, Digit
  <2>2. ~IsPrefix(<<0>>, d) /\ ~IsPrefix(<<Plus, 8, 4>>, d)
    BY <1>2, <2>1, Beginnings
  <2>3. ~CountryPrefixed(d)
    BY <1>1 DEF CountryPrefixed
  <2>4. QED
    BY <2>2, <2>3 DEF IsNational
<1>5. ~IsHotline(d)
  <2>1. \A length \in 3..6 : length \notin 8..11
    OBVIOUS
  <2>2. QED
    BY <1>1, <2>1 DEF IsHotline
<1>6. d # <<>>
  BY <1>1, EmptySeq
<1>7. QED
  BY <1>3, <1>4, <1>5, <1>6 DEF OfCleaned

LEMMA NationalFixed ==
    ASSUME NEW n \in Seq(PhoneChar), Len(n) >= 1, n[1] = 0
    PROVE  /\ OfCleaned(n) = NormalizeNational(n)
           /\ <<Plus, 8, 4>> \o Tail(n) \in Seq(PhoneChar)
           /\ OfCleaned(<<Plus, 8, 4>> \o Tail(n)) = NormalizeNational(n)
           /\ <<8, 4>> \o Tail(n) \in Seq(PhoneChar)
           /\ Len(n) >= 10 => OfCleaned(<<8, 4>> \o Tail(n)) = NormalizeNational(n)
<1>0. {0, 8, 4, Plus} \subseteq PhoneChar
  BY DEF PhoneChar, Digit
<1>1. /\ n # <<>> /\ Tail(n) \in Seq(PhoneChar) /\ Len(Tail(n)) = Len(n) - 1
      /\ \A i \in 1..(Len(n) - 1) : Tail(n)[i] = n[i + 1]
      /\ Len(n) \in Nat
  <2>1. n # <<>> /\ Len(n) \in Nat
    BY EmptySeq, LenProperties
  <2>2. QED
    BY <2>1, HeadTailProperties
<1>2. ASSUME NEW k \in Seq(PhoneChar), Len(k) >= 1
      PROVE  /\ k \o Tail(n) \in Seq(PhoneChar)
             /\ Len(k \o Tail(n)) = Len(k) + Len(n) - 1
             /\ \A i \in 1..Len(k) : (k \o Tail(n))[i] = k[i]
             /\ SubSeq(k \o Tail(n), Len(k) + 1, Len(k) + Len(n) - 1) = Tail(n)
  <2>1. /\ k \o Tail(n) \in Seq(PhoneChar)
        /\ Len(k \o Tail(n)) = Len(k) + Len(Tail(n))
        /\ Len(k) \in Nat
        /\ \A i \in 1..(Len(k) + Len(Tail(n))) :
              (k \o Tail(n))[i] = IF i <= Len(k) THEN k[i] ELSE Tail(n)[i - Len(k)]
    BY <1>1, ConcatProperties, LenProperties
  <2> DEFINE b == SubSeq(k \o Tail(n), Len(k) + 1, Len(k) + Len(n) - 1)
  <2>2. \A i \in (Len(k) + 1)..(Len(k) + Len(n) - 1) : (k \o Tail(n))[i] \in PhoneChar
    BY <1>1, <2>1, ElementOfSeq
  <2>3. /\ b \in Seq(PhoneChar)
        /\ Len(b) = IF Len(k) + 1 <= Len(k) + Len(n) - 1
                    THEN Len(k) + Len(n) - 1 - (Len(k) + 1) + 1 ELSE 0
        /\ \A i \in 1..(Len(k) + Len(n) - 1 - (Len(k) + 1) + 1) :
              b[i] = (k \o Tail(n))[Len(k) + 1 + i - 1]
    <3> HIDE DEF b
    <3>1. Len(k) + 1 \in Int /\ Len(k) + Len(n) - 1 \in Int
      BY <1>1, <2>1
    <3>2. QED
      BY <2>2, <3>1, SubSeqProperties DEF b
  <2>4. Len(b) = Len(n) - 1
    BY <1>1, <2>1, <2>3
  <2>5. ASSUME NEW i \in 1..(Len(n) - 1) PROVE b[i] = Tail(n)[i]
    <3>1. i \in 1..(Len(k) + Len(n) - 1 - (Len(k) + 1) + 1) /\ Len(k) + 1 + i - 1 = Len(k) + i
      BY <1>1, <2>1
    <3>2. b[i] = (k \o Tail(n))[Len(k) + i]
      BY <2>3, <3>1
    <3>3. (k \o Tail(n))[Len(k) + i] = Tail(n)[i]
      <4>1. Len(k) + i \in 1..(Len(k) + Len(Tail(n))) /\ ~(Len(k) + i <= Len(k)) /\ Len(k) + i - Len(k) = i
        BY <1>1, <2>1
      <4>2. QED
        BY <2>1, <4>1
    <3>4. QED
      BY <3>2, <3>3
  <2>6. b = Tail(n)
    <3> HIDE DEF b
    <3>1. QED
      BY <1>1, <2>3, <2>4, <2>5, SeqEqual
  <2>7. QED
    BY <1>1, <2>1, <2>6
<1>3. <<0>> \o Tail(n) = n
  <2>1. <<0>> \in Seq(PhoneChar) /\ Len(<<0>>) = 1 /\ <<0>>[1] = 0
    BY <1>0
  <2> DEFINE m == <<0>> \o Tail(n)
  <2>2. /\ m \in Seq(PhoneChar) /\ Len(m) = 1 + Len(Tail(n))
        /\ \A i \in 1..(1 + Len(Tail(n))) : m[i] = IF i <= 1 THEN <<0>>[i] ELSE Tail(n)[i - 1]
    BY <1>1, <2>1, ConcatProperties
  <2>3. ASSUME NEW i \in 1..Len(n) PROVE m[i] = n[i]
    <3>1. CASE i = 1
      BY <1>1, <2>1, <2>2, <3>1
    <3>2. CASE i # 1
      <4>1. i - 1 \in 1..(Len(n) - 1) /\ i - 1 + 1 = i /\ ~(i <= 1) /\ i \in 1..(1 + Len(Tail(n)))
        BY <1>1, <3>2
      <4>2. QED
        BY <1>1, <2>2, <4>1
    <3>3. QED
      BY <3>1, <3>2
  <2>4. QED
    <3> HIDE DEF m
    <3>1. Len(m) = Len(n)
      BY <1>1, <2>2
    <3>2. m = n
      BY <2>2, <2>3, <3>1, SeqEqual
    <3>3. QED
      BY <3>2 DEF m
<1>4. OfCleaned(n) = NormalizeNational(n)
  <2>1. IsPrefix(<<0>>, n)
    BY <1>0, Beginnings
  <2>2. ~IsPrefix(<<Plus, 8, 4>>, n) /\ ~IsPrefix(<<8, 4>>, n)
    BY Beginnings DEF Plus
  <2>3. ToNationalForm(n) = n
    BY <2>2 DEF ToNationalForm, CountryPrefixed
  <2>4. DigitsPart(n) = n
    BY DigitsPartIs DEF Plus
  <2>5. ~IsHotline(n)
    BY HotlineFixed
  <2>6. QED
    BY <2>1, <2>3, <2>4, <2>5 DEF OfCleaned, IsNational
<1>5. /\ <<Plus, 8, 4>> \o Tail(n) \in Seq(PhoneChar)
      /\ OfCleaned(<<Plus, 8, 4>> \o Tail(n)) = NormalizeNational(n)
  <2> DEFINE k == <<Plus, 8, 4>>
             c == k \o Tail(n)
  <2>1. k \in Seq(PhoneChar) /\ Len(k) = 3 /\ k[1] = Plus /\ k[2] = 8 /\ k[3] = 4
    BY <1>0
  <2> HIDE DEF k
  <2>2. /\ c \in Seq(PhoneChar) /\ Len(c) = 3 + Len(n) - 1
        /\ c[1] = Plus /\ c[2] = 8 /\ c[3] = 4
        /\ SubSeq(c, 4, Len(c)) = Tail(n)
    <3>1. /\ c \in Seq(PhoneChar) /\ Len(c) = Len(k) + Len(n) - 1
          /\ \A i \in 1..Len(k) : c[i] = k[i]
          /\ SubSeq(c, Len(k) + 1, Len(k) + Len(n) - 1) = Tail(n)
      <4>1. Len(k) >= 1
        BY <2>1
      <4>2. QED
        BY <1>2, <2>1, <4>1, Zenon
    <3> HIDE DEF c
    <3>2. QED
      BY <2>1, <3>1
  <2> HIDE DEF c
  <2>3. IsPrefix(<<Plus, 8, 4>>, c)
    <3>1. Len(c) >= 3 /\ c[1] = Plus /\ c[2] = 8 /\ c[3] = 4
      BY <1>1, <2>2
    <3>2. QED
      BY <2>2, <3>1, Beginnings
  <2>4. ToNationalForm(c) = n
    BY <1>3, <2>2, <2>3 DEF ToNationalForm
  <2>5. ~IsHotline(DigitsPart(c))
    <3>1. 1 \in 1..(Len(c) - 1) /\ Len(c) >= 1
      BY <1>1, <2>2
    <3>2. DigitsPart(c)[1] = c[1 + 1] /\ DigitsPart(c) \in Seq(PhoneChar)
      BY <2>2, <3>1, DigitsPartIs
    <3>3. DigitsPart(c)[1] = 8
      BY <2>2, <3>2
    <3>4. QED
      BY <3>2, <3>3, HotlineFixed
  <2>6. OfCleaned(c) = NormalizeNational(n)
    BY <2>3, <2>4, <2>5 DEF OfCleaned, IsNational
  <2>7. QED
    BY <2>2, <2>6 DEF c, k
<1>6. /\ <<8, 4>> \o Tail(n) \in Seq(PhoneChar)
      /\ Len(n) >= 10 => OfCleaned(<<8, 4>> \o Tail(n)) = NormalizeNational(n)
  <2> DEFINE k == <<8, 4>>
             c == k \o Tail(n)
  <2>1. k \in Seq(PhoneChar) /\ Len(k) = 2 /\ k[1] = 8 /\ k[2] = 4
    BY <1>0
  <2> HIDE DEF k
  <2>2. /\ c \in Seq(PhoneChar) /\ Len(c) = 2 + Len(n) - 1
        /\ c[1] = 8 /\ c[2] = 4
        /\ SubSeq(c, 3, Len(c)) = Tail(n)
    <3>1. /\ c \in Seq(PhoneChar) /\ Len(c) = Len(k) + Len(n) - 1
          /\ \A i \in 1..Len(k) : c[i] = k[i]
          /\ SubSeq(c, Len(k) + 1, Len(k) + Len(n) - 1) = Tail(n)
      <4>1. Len(k) >= 1
        BY <2>1
      <4>2. QED
        BY <1>2, <2>1, <4>1, Zenon
    <3> HIDE DEF c
    <3>2. QED
      BY <2>1, <3>1
  <2> HIDE DEF c
  <2>3. ASSUME Len(n) >= 10 PROVE OfCleaned(c) = NormalizeNational(n)
    <3>1. IsPrefix(<<8, 4>>, c) /\ Len(c) >= 11 /\ ~IsPrefix(<<Plus, 8, 4>>, c)
      BY <1>1, <2>2, <2>3, Beginnings DEF Plus
    <3>2. CountryPrefixed(c)
      BY <3>1 DEF CountryPrefixed
    <3>3. ToNationalForm(c) = n
      BY <1>3, <2>2, <3>1, <3>2 DEF ToNationalForm
    <3>4. DigitsPart(c) = c
      <4>1. c[1] # Plus
        BY <2>2 DEF Plus
      <4>2. QED
        BY <2>2, <4>1, DigitsPartIs
    <3>5. ~IsHotline(DigitsPart(c))
      BY <2>2, <3>4, HotlineFixed
    <3>6. QED
      BY <3>2, <3>3, <3>5 DEF OfCleaned, IsNational
  <2>4. QED
    BY <2>2, <2>3 DEF c, k
<1>7. QED
  BY <1>4, <1>5, <1>6

LEMMA ToNationalIs ==
    ASSUME NEW c \in Seq(PhoneChar), IsNational(c)
    PROVE  /\ ToNationalForm(c) \in Seq(PhoneChar)
           /\ Len(ToNationalForm(c)) >= 1 /\ ToNationalForm(c)[1] = 0
<1>1. 0 \in PhoneChar /\ Len(c) \in Nat
  BY LenProperties DEF PhoneChar, Digit
<1>2. ASSUME NEW m \in 2..(Len(c) + 1)
      PROVE  /\ <<0>> \o SubSeq(c, m, Len(c)) \in Seq(PhoneChar)
             /\ Len(<<0>> \o SubSeq(c, m, Len(c))) >= 1
             /\ (<<0>> \o SubSeq(c, m, Len(c)))[1] = 0
  <2> DEFINE r == SubSeq(c, m, Len(c))
  <2>1. \A i \in m..Len(c) : c[i] \in PhoneChar
    BY <1>1, ElementOfSeq
  <2>2. r \in Seq(PhoneChar)
    BY <1>1, <2>1, SubSeqProperties
  <2>3. <<0>> \in Seq(PhoneChar) /\ Len(<<0>>) = 1 /\ <<0>>[1] = 0
    BY <1>1
  <2> HIDE DEF r
  <2>4. Len(r) \in Nat
    BY <2>2, LenProperties
  <2>5. /\ <<0>> \o r \in Seq(PhoneChar) /\ Len(<<0>> \o r) = 1 + Len(r)
        /\ \A i \in 1..(1 + Len(r)) : (<<0>> \o r)[i] = IF i <= 1 THEN <<0>>[i] ELSE r[i - 1]
    BY <2>2, <2>3, ConcatProperties
  <2>6. QED
    BY <2>3, <2>4, <2>5 DEF r
<1>3. CASE IsPrefix(<<Plus, 8, 4>>, c)
  <2>1. Len(c) >= 3
    BY <1>3, Beginnings
  <2>2. 4 \in 2..(Len(c) + 1)
    BY <1>1, <2>1
  <2>3. QED
    BY <1>2, <1>3, <2>2 DEF ToNationalForm
<1>4. CASE ~IsPrefix(<<Plus, 8, 4>>, c) /\ CountryPrefixed(c)
  <2>1. 3 \in 2..(Len(c) + 1)
    BY <1>1, <1>4 DEF CountryPrefixed
  <2>2. QED
    BY <1>2, <1>4, <2>1 DEF ToNationalForm
<1>5. CASE ~IsPrefix(<<Plus, 8, 4>>, c) /\ ~CountryPrefixed(c)
  <2>1. IsPrefix(<<0>>, c)
    BY <1>5 DEF IsNational
  <2>2. Len(c) >= 1 /\ c[1] = 0
    BY <1>1, <2>1, Beginnings
  <2>3. QED
    BY <1>5, <2>2 DEF ToNationalForm
<1>6. QED
  BY <1>3, <1>4, <1>5

\* What a national form is normalized to.
LEMMA NationalFound ==
    ASSUME NEW n \in Seq(PhoneChar), NormalizeNational(n) # Unrecognized
    PROVE  /\ AllDigits(n) /\ Len(n) \in {10, 11}
           /\ NormalizeNational(n).normalized = <<Plus, 8, 4>> \o Tail(n)
           /\ NormalizeNational(n).type \in {"MOBILE", "LANDLINE", "UNKNOWN"}
           /\ NormalizeNational(n).type = "MOBILE" => Len(n) = 10
           /\ NormalizeNational(n).type = "LANDLINE" => Len(n) = 11
BY DEF NormalizeNational, IsMobile, IsLandline

\* Every number, whatever it was cleaned of: it is a hotline or short code
\* stored as dialed, a national number, or nothing.
LEMMA FoundIs ==
    ASSUME NEW c \in Seq(PhoneChar)
    PROVE  \/ /\ IsHotline(DigitsPart(c))
              /\ OfCleaned(c) = [normalized |-> DigitsPart(c), type |-> HotlineType(DigitsPart(c))]
           \/ /\ IsNational(c)
              /\ OfCleaned(c) = NormalizeNational(ToNationalForm(c))
           \/ /\ IsShortCode(DigitsPart(c)) /\ ~IsNational(c)
              /\ OfCleaned(c) = [normalized |-> DigitsPart(c), type |-> "SHORT_CODE"]
           \/ OfCleaned(c) = Unrecognized
BY DEF OfCleaned

\* The stored form of a national number: +84 and the digits after its 0.
LEMMA StoredNational ==
    ASSUME NEW n \in Seq(PhoneChar), AllDigits(n), Len(n) \in {10, 11}
    PROVE  LET s == <<Plus, 8, 4>> \o Tail(n)
           IN /\ s \in Seq(PhoneChar) /\ s # <<>> /\ Len(s) = Len(n) + 2
              /\ IsPrefix(<<Plus, 8, 4>>, s)
              /\ Head(s) = Plus /\ AllDigits(Tail(s))
<1> DEFINE k == <<Plus, 8, 4>>
           s == k \o Tail(n)
<1>1. {8, 4, Plus} \subseteq PhoneChar /\ {8, 4} \subseteq Digit
  BY DEF PhoneChar, Digit
<1>2. /\ n # <<>> /\ Tail(n) \in Seq(PhoneChar) /\ Len(Tail(n)) = Len(n) - 1
      /\ \A i \in 1..(Len(n) - 1) : Tail(n)[i] = n[i + 1]
      /\ Len(n) \in Nat
  <2>1. n # <<>> /\ Len(n) \in Nat
    BY EmptySeq, LenProperties
  <2>2. QED
    BY <2>1, HeadTailProperties
<1>3. k \in Seq(PhoneChar) /\ Len(k) = 3 /\ k[1] = Plus /\ k[2] = 8 /\ k[3] = 4
  BY <1>1
<1> HIDE DEF k
<1>4. /\ s \in Seq(PhoneChar) /\ Len(s) = 3 + Len(Tail(n))
      /\ \A i \in 1..(3 + Len(Tail(n))) : s[i] = IF i <= 3 THEN k[i] ELSE Tail(n)[i - 3]
  <2>1. /\ s \in Seq(PhoneChar) /\ Len(s) = Len(k) + Len(Tail(n))
        /\ \A i \in 1..(Len(k) + Len(Tail(n))) :
              s[i] = IF i <= Len(k) THEN k[i] ELSE Tail(n)[i - Len(k)]
    BY <1>2, <1>3, ConcatProperties
  <2> HIDE DEF s
  <2>2. QED
    BY <1>3, <2>1
<1> HIDE DEF s
<1>5. Len(s) = Len(n) + 2 /\ s[1] = Plus /\ s[2] = 8 /\ s[3] = 4
  BY <1>2, <1>3, <1>4
<1>6. /\ s # <<>> /\ Head(s) = s[1] /\ Tail(s) \in Seq(PhoneChar) /\ Len(Tail(s)) = Len(s) - 1
      /\ \A i \in 1..(Len(s) - 1) : Tail(s)[i] = s[i + 1]
  <2>1. s # <<>>
    BY <1>2, <1>5, EmptySeq
  <2>2. QED
    BY <1>4, <2>1, HeadTailProperties
<1>7. IsPrefix(<<Plus, 8, 4>>, s)
  <2>1. Len(s) >= 3
    BY <1>2, <1>5
  <2>2. QED
    BY <1>4, <1>5, <2>1, Beginnings
<1>8. AllDigits(Tail(s))
  <2>1. ASSUME NEW i \in 1..Len(Tail(s)) PROVE Tail(s)[i] \in Digit
    <3>1. i \in 1..(Len(n) + 1) /\ i + 1 \in 1..(3 + Len(Tail(n))) /\ Tail(s)[i] = s[i + 1]
      BY <1>2, <1>5, <1>6
    <3>2. CASE i \in {1, 2}
      BY <1>1, <1>5, <3>1, <3>2
    <3>3. CASE i \notin {1, 2}
      <4>1. i + 1 - 3 \in 1..(Len(n) - 1) /\ i + 1 - 3 + 1 \in 1..Len(n) /\ ~(i + 1 <= 3)
        BY <1>2, <3>1, <3>3
      <4>2. s[i + 1] = n[i + 1 - 3 + 1]
        BY <1>2, <1>4, <3>1, <4>1
      <4>3. n[i + 1 - 3 + 1] \in Digit
        BY <4>1, DigitsOf
      <4>4. QED
        BY <3>1, <4>2, <4>3
    <3>4. QED
      BY <3>2, <3>3
  <2>2. QED
    BY <1>6, <2>1, DigitsOf
<1>9. QED
  BY <1>4, <1>5, <1>6, <1>7, <1>8 DEF s, k

\* What is stored is digits after at most one leading plus.
LEMMA FoundWellFormed ==
    ASSUME NEW c \in Seq(PhoneChar)
    PROVE  LET found == OfCleaned(c)
               s == found.normalized
           IN /\ found.type \in Types
              /\ AllDigits(s) \/ (Head(s) = Plus /\ AllDigits(Tail(s)))
              /\ s = <<>> => found.type = "UNKNOWN"
              /\ found.type \in {"MOBILE", "LANDLINE"} =>
                   /\ IsPrefix(<<Plus, 8, 4>>, s)
                   /\ Len(s) = IF found.type = "MOBILE" THEN 12 ELSE 13
<1> DEFINE d == DigitsPart(c)
           n == ToNationalForm(c)
<1>0. d \in Seq(PhoneChar)
  BY DigitsPartIs
<1>1. CASE IsHotline(d) /\ OfCleaned(c) = [normalized |-> d, type |-> HotlineType(d)]
  <2>1. d # <<>> /\ HotlineType(d) \in {"HOTLINE_1900", "HOTLINE_1800"} /\ AllDigits(d)
    BY <1>0, <1>1, HotlineFixed DEF IsHotline
  <2> HIDE DEF d
  <2>2. QED
    BY <1>1, <2>1 DEF Types
<1>2. CASE IsShortCode(d) /\ OfCleaned(c) = [normalized |-> d, type |-> "SHORT_CODE"]
  <2>1. Len(d) \in 3..6 /\ AllDigits(d)
    BY <1>2 DEF IsShortCode
  <2>2. d # <<>>
    <3> HIDE DEF d
    <3>1. Len(d) # 0
      BY <2>1
    <3>2. QED
      BY <1>0, <3>1, EmptySeq
  <2> HIDE DEF d
  <2>3. QED
    BY <1>2, <2>1, <2>2 DEF Types
<1>3. CASE OfCleaned(c) = Unrecognized
  <2>1. AllDigits(<<>>)
    BY DEF AllDigits, Range
  <2>2. QED
    BY <1>3, <2>1 DEF Unrecognized, Types
<1>4. CASE /\ IsNational(c) /\ OfCleaned(c) = NormalizeNational(n)
           /\ NormalizeNational(n) # Unrecognized
  <2>1. n \in Seq(PhoneChar)
    BY <1>4, ToNationalIs
  <2> DEFINE s == <<Plus, 8, 4>> \o Tail(n)
  <2> HIDE DEF n
  <2>2. /\ AllDigits(n) /\ Len(n) \in {10, 11}
        /\ OfCleaned(c).normalized = s
        /\ OfCleaned(c).type \in {"MOBILE", "LANDLINE", "UNKNOWN"}
        /\ OfCleaned(c).type = "MOBILE" => Len(n) = 10
        /\ OfCleaned(c).type = "LANDLINE" => Len(n) = 11
    BY <1>4, <2>1, NationalFound
  <2>3. /\ s \in Seq(PhoneChar) /\ s # <<>> /\ Len(s) = Len(n) + 2
        /\ IsPrefix(<<Plus, 8, 4>>, s) /\ Head(s) = Plus /\ AllDigits(Tail(s))
    BY <2>1, <2>2, StoredNational
  <2> HIDE DEF s
  <2>4. /\ OfCleaned(c).type = "MOBILE" => Len(s) = 12
        /\ OfCleaned(c).type = "LANDLINE" => Len(s) = 13
    <3>1. Len(n) = 10 => Len(s) = 12
      BY <2>3
    <3>2. Len(n) = 11 => Len(s) = 13
      BY <2>3
    <3>3. QED
      BY <2>2, <3>1, <3>2, Zenon
  <2>5. OfCleaned(c).type \in Types /\ ~(s = <<>>)
    BY <2>2, <2>3 DEF Types
  <2>6. OfCleaned(c).type \in {"MOBILE", "LANDLINE"} =>
           Len(s) = IF OfCleaned(c).type = "MOBILE" THEN 12 ELSE 13
    BY <2>4
  <2>7. QED
    BY <2>2, <2>3, <2>5, <2>6
<1>5. QED
  BY <1>1, <1>2, <1>3, <1>4, FoundIs

\* A stored form is stored as it is: the second normalization changes nothing.
LEMMA FoundFixed ==
    ASSUME NEW c \in Seq(PhoneChar), OfCleaned(c).normalized # <<>>,
           ~IsPrefix(<<Plus, 0>>, c)
    PROVE  /\ OfCleaned(c).normalized \in Seq(PhoneChar)
           /\ OfCleaned(OfCleaned(c).normalized) = OfCleaned(c)
<1> DEFINE d == DigitsPart(c)
           n == ToNationalForm(c)
<1>0. d \in Seq(PhoneChar)
  BY DigitsPartIs
<1>1. CASE IsHotline(d) /\ OfCleaned(c) = [normalized |-> d, type |-> HotlineType(d)]
  <2> HIDE DEF d
  <2>1. OfCleaned(d) = [normalized |-> d, type |-> HotlineType(d)]
    BY <1>0, <1>1, HotlineFixed
  <2>2. QED
    BY <1>0, <1>1, <2>1
<1>2. CASE /\ IsShortCode(d) /\ ~IsNational(c)
           /\ OfCleaned(c) = [normalized |-> d, type |-> "SHORT_CODE"]
  <2>1. Len(d) \in 3..6
    BY <1>2 DEF IsShortCode
  <2>2. d[1] # 0
    <3>1. CASE Len(c) >= 1 /\ c[1] = Plus
      <4>1. Len(d) = Len(c) - 1 /\ \A i \in 1..(Len(c) - 1) : d[i] = c[i + 1]
        BY <3>1, DigitsPartIs
      <4>2. Len(c) \in Nat
        BY LenProperties
      <4>3. Len(c) >= 2 /\ d[1] = c[2]
        <5> HIDE DEF d
        <5>1. 1 \in 1..(Len(c) - 1) /\ Len(c) >= 2
          BY <2>1, <4>1, <4>2
        <5>2. d[1] = c[1 + 1]
          BY <4>1, <5>1
        <5>3. QED
          BY <5>1, <5>2
      <4>4. QED
        BY <3>1, <4>3, Beginnings
    <3>2. CASE ~(Len(c) >= 1 /\ c[1] = Plus)
      <4>1. d = c
        BY <3>2, DigitsPartIs
      <4>2. ~IsPrefix(<<0>>, c) /\ 0 \in PhoneChar
        BY <1>2 DEF IsNational, PhoneChar, Digit
      <4>3. ~(Len(c) >= 1 /\ c[1] = 0)
        BY <4>2, Beginnings
      <4>4. Len(c) >= 1
        <5> HIDE DEF d
        <5>1. \A length \in 3..6 : length >= 1
          OBVIOUS
        <5>2. Len(c) \in 3..6
          BY <2>1, <4>1
        <5>3. QED
          BY <5>1, <5>2
      <4>5. QED
        BY <4>1, <4>3, <4>4
    <3>3. QED
      BY <3>1, <3>2
  <2> HIDE DEF d
  <2>3. OfCleaned(d) = [normalized |-> d, type |-> "SHORT_CODE"]
    BY <1>0, <1>2, <2>2, ShortCodeFixed
  <2>4. QED
    BY <1>0, <1>2, <2>3
<1>3. CASE /\ IsNational(c) /\ OfCleaned(c) = NormalizeNational(n)
           /\ NormalizeNational(n) # Unrecognized
  <2>1. n \in Seq(PhoneChar) /\ Len(n) >= 1 /\ n[1] = 0
    BY <1>3, ToNationalIs
  <2> DEFINE s == <<Plus, 8, 4>> \o Tail(n)
  <2> HIDE DEF n
  <2>2. OfCleaned(c).normalized = s
    BY <1>3, <2>1, NationalFound
  <2>3. s \in Seq(PhoneChar) /\ OfCleaned(s) = NormalizeNational(n)
    BY <2>1, NationalFixed
  <2> HIDE DEF s
  <2>4. QED
    BY <1>3, <2>2, <2>3
<1>4. OfCleaned(c) # Unrecognized
  BY DEF Unrecognized
<1>5. QED
  BY <1>1, <1>2, <1>3, <1>4, FoundIs

-----------------------------------------------------------------------------
(* The lookup box.                                                         *)

TypedInv == typed \in Seq(Keys \cup {1})

LEMMA StoredOnceSpelledAny ==
    ASSUME TypedInv
    PROVE  OneStoredForm
<1> DEFINE c == OnlyDigitsKeepPlus(typed)
<1>1. c \in Seq(PhoneChar) /\ NormalizeVietnamPhone(typed) = OfCleaned(c)
  BY NormalizedByCleaned DEF TypedInv
<1> HIDE DEF c
<1>2. TypeOK /\ ExportedIsE164
  BY <1>1, FoundWellFormed DEF TypeOK, ExportedIsE164
<1>3. StoredFormStable
  <2> SUFFICES ASSUME OfCleaned(c).normalized # <<>>, ~IsPrefix(<<Plus, 0>>, c)
               PROVE  NormalizeVietnamPhone(OfCleaned(c).normalized) = OfCleaned(c)
    BY <1>1 DEF StoredFormStable, c
  <2>1. /\ OfCleaned(c).normalized \in Seq(PhoneChar)
        /\ OfCleaned(OfCleaned(c).normalized) = OfCleaned(c)
    BY <1>1, FoundFixed
  <2>2. QED
    BY <2>1, NormalizedByItself
<1>4. SpellingsAgree
  <2> SUFFICES ASSUME c # <<>>, Head(c) = 0, Len(c) >= 10,
                      NEW code \in {<<Plus, 8, 4>>, <<8, 4>>}
               PROVE  NormalizeVietnamPhone(code \o Tail(c)) = OfCleaned(c)
    BY <1>1 DEF SpellingsAgree, c
  <2>1. c[1] = 0 /\ Len(c) >= 1
    BY <1>1, HeadTailProperties, LenProperties
  <2>2. /\ OfCleaned(c) = NormalizeNational(c)
        /\ <<Plus, 8, 4>> \o Tail(c) \in Seq(PhoneChar)
        /\ OfCleaned(<<Plus, 8, 4>> \o Tail(c)) = NormalizeNational(c)
        /\ <<8, 4>> \o Tail(c) \in Seq(PhoneChar)
        /\ OfCleaned(<<8, 4>> \o Tail(c)) = NormalizeNational(c)
    BY <1>1, <2>1, NationalFixed
  <2>3. code \o Tail(c) \in Seq(PhoneChar) /\ OfCleaned(code \o Tail(c)) = OfCleaned(c)
    BY <2>2
  <2>4. QED
    BY <2>3, NormalizedByItself
<1>5. QED
  BY <1>2, <1>3, <1>4 DEF OneStoredForm

-----------------------------------------------------------------------------
(* Texts written one after the other.                                      *)

IsFlat(f, q, m) ==
    f = [i \in 1..m |-> IF i = 1 THEN q[i] ELSE f[i - 1] \o q[i]]

LEMMA FlatExists ==
    ASSUME NEW q, NEW m \in Nat
    PROVE  \E f : IsFlat(f, q, m)
<1> DEFINE Good == {n \in Nat : \E f : IsFlat(f, q, n)}
<1>1. 0 \in Good
  <2>1. IsFlat([i \in 1..0 |-> <<>>], q, 0)
    BY DEF IsFlat
  <2>2. QED
    BY <2>1
<1>2. ASSUME NEW n \in Nat, n \in Good PROVE n + 1 \in Good
  <2>1. PICK f : IsFlat(f, q, n)
    BY <1>2
  <2> DEFINE e == IF n = 0 THEN q[1] ELSE f[n] \o q[n + 1]
             g == [i \in 1..(n + 1) |-> IF i = n + 1 THEN e ELSE f[i]]
  <2>2. ASSUME NEW i \in 1..(n + 1)
        PROVE  g[i] = IF i = 1 THEN q[i] ELSE g[i - 1] \o q[i]
    <3>1. CASE i = n + 1 /\ n = 0
      BY <3>1
    <3>2. CASE i = n + 1 /\ n # 0
      <4>1. n \in 1..(n + 1) /\ n # n + 1 /\ i - 1 = n /\ i # 1
        BY <3>2
      <4>2. g[n] = f[n] /\ g[i] = f[n] \o q[n + 1]
        BY <3>2, <4>1
      <4>3. QED
        BY <3>2, <4>1, <4>2
    <3>3. CASE i \in 1..n
      <4>1. f[i] = IF i = 1 THEN q[i] ELSE f[i - 1] \o q[i]
        BY <2>1, <3>3 DEF IsFlat
      <4>2. g[i] = f[i] /\ (i # 1 => g[i - 1] = f[i - 1])
        BY <3>3
      <4>3. QED
        BY <4>1, <4>2
    <3>4. QED
      BY <3>1, <3>2, <3>3
  <2>3. IsFlat(g, q, n + 1)
    <3> HIDE DEF e
    <3>1. g = [i \in 1..(n + 1) |-> g[i]]
      OBVIOUS
    <3>2. QED
      BY <2>2, <3>1 DEF IsFlat
  <2>4. \E h : IsFlat(h, q, n + 1)
    <3> HIDE DEF g
    <3>1. QED
      BY <2>3
  <2>5. QED
    BY <2>4
<1>3. Nat \subseteq Good
  <2> HIDE DEF Good
  <2>1. QED
    BY <1>1, <1>2, AllNumbers
<1>4. QED
  BY <1>3

\* FlattenSeq is the last of the concatenations, one piece after the other.
LEMMA FlattenIs ==
    ASSUME NEW S, NEW q \in Seq(S), q # <<>>
    PROVE  \E f : /\ FlattenSeq(q) = f[Len(q)]
                  /\ f[1] = q[1]
                  /\ \A i \in 2..Len(q) : f[i] = f[i - 1] \o q[i]
<1>1. Len(q) \in Nat /\ Len(q) # 0
  BY LenProperties, EmptySeq
<1> DEFINE c == CHOOSE f : f = [i \in 1..Len(q) |-> IF i = 1 THEN q[i] ELSE f[i - 1] \o q[i]]
<1>2. FlattenSeq(q) = c[Len(q)]
  BY <1>1 DEF FlattenSeq
<1>3. c = [i \in 1..Len(q) |-> IF i = 1 THEN q[i] ELSE c[i - 1] \o q[i]]
  <2>1. \E f : IsFlat(f, q, Len(q))
    BY <1>1, FlatExists
  <2>2. QED
    BY <2>1, Zenon DEF IsFlat
<1> HIDE DEF c
<1>4. \A i \in 1..Len(q) : c[i] = IF i = 1 THEN q[i] ELSE c[i - 1] \o q[i]
  BY <1>3, Zenon
<1>5. c[1] = q[1]
  BY <1>1, <1>4
<1>6. ASSUME NEW i \in 2..Len(q) PROVE c[i] = c[i - 1] \o q[i]
  <2>1. i \in 1..Len(q) /\ i # 1
    BY <1>1
  <2>2. QED
    BY <1>4, <2>1, Zenon
<1>7. QED
  BY <1>2, <1>5, <1>6

LEMMA Joined ==
    ASSUME NEW S, NEW a \in Seq(S), NEW b \in Seq(S)
    PROVE  /\ a \o b \in Seq(S) /\ Len(a \o b) = Len(a) + Len(b)
           /\ Len(a) \in Nat /\ Len(b) \in Nat
           /\ \A i \in 1..Len(a) : (a \o b)[i] = a[i]
           /\ \A i \in 1..Len(b) : (a \o b)[Len(a) + i] = b[i]
<1>1. Len(a) \in Nat /\ Len(b) \in Nat
  BY LenProperties
<1>2. /\ a \o b \in Seq(S) /\ Len(a \o b) = Len(a) + Len(b)
      /\ \A i \in 1..(Len(a) + Len(b)) :
            (a \o b)[i] = IF i <= Len(a) THEN a[i] ELSE b[i - Len(a)]
  BY ConcatProperties
<1>3. ASSUME NEW i \in 1..Len(a) PROVE (a \o b)[i] = a[i]
  BY <1>1, <1>2
<1>4. ASSUME NEW i \in 1..Len(b) PROVE (a \o b)[Len(a) + i] = b[i]
  <2>1. Len(a) + i \in 1..(Len(a) + Len(b)) /\ ~(Len(a) + i <= Len(a)) /\ Len(a) + i - Len(a) = i
    BY <1>1
  <2>2. QED
    BY <1>2, <2>1
<1>5. QED
  BY <1>1, <1>2, <1>3, <1>4

-----------------------------------------------------------------------------
(* A line of the call list.                                                *)

Counts == { <<d>> : d \in 1..9 } \cup {<<1, 2>>}

LineInv ==
    /\ line \in Seq(Seq(Nat))
    /\ Len(line) >= 1 => line[1] \in Shown
    /\ Len(line) >= 2 => line[2] \in Marks
    /\ Len(line) >= 3 => line[3] \in Counts
    /\ \A i \in 4..Len(line) : line[i] \in Gaps

LEMMA PiecesAreTexts ==
    /\ Shown \subseteq Seq(Nat) /\ Marks \subseteq Seq(Nat) /\ Gaps \subseteq Seq(Nat)
    /\ Counts \subseteq Seq(Nat)
<1>1. PhoneChar \cup {Space, Dot, Dash} \subseteq Nat /\ {Comma, Times} \cup Blanks \subseteq Nat
  BY DEF PhoneChar, Digit, Plus, Space, Dot, Dash, Comma, Times, Blanks, Break
<1>2. \A A, B : A \subseteq B => Seq(A) \subseteq Seq(B)
  <2> SUFFICES ASSUME NEW A, NEW B, A \subseteq B, NEW s \in Seq(A) PROVE s \in Seq(B)
    OBVIOUS
  <2>1. Len(s) \in Nat /\ s \in [1..Len(s) -> A]
    BY LenProperties
  <2>2. s \in [1..Len(s) -> B]
    BY <2>1
  <2>3. QED
    BY <2>1, <2>2, SeqDef
<1>3. Shown \subseteq Seq(Nat)
  <2>1. Shown \subseteq Seq(PhoneChar \cup {Space, Dot, Dash})
    BY InputConstantsOK DEF InputsOK
  <2>2. QED
    BY <1>1, <1>2, <2>1
<1>4. Marks \subseteq Seq(Nat)
  <2>1. Marks \subseteq Seq({Comma, Times} \cup Blanks)
    BY InputConstantsOK DEF InputsOK
  <2>2. QED
    BY <1>1, <1>2, <2>1
<1>5. Gaps \subseteq Seq(Nat)
  BY InputConstantsOK DEF InputsOK
<1>6. Counts \subseteq Seq(Nat)
  <2>1. \A d \in 1..9 : <<d>> \in Seq(Nat)
    OBVIOUS
  <2>2. <<1, 2>> \in Seq(Nat)
    OBVIOUS
  <2>3. QED
    BY <2>1, <2>2 DEF Counts
<1>7. QED
  BY <1>3, <1>4, <1>5, <1>6

LEMMA LineInvKept ==
    ASSUME LineInv, WriteLine
    PROVE  LineInv'
<1>1. PICK s : /\ line' = Append(line, s)
               /\ s \in IF line = <<>> THEN Shown
                        ELSE IF Len(line) = 1 THEN Marks
                        ELSE IF Len(line) = 2 THEN Counts
                        ELSE { g \in Gaps : Break \notin Range(g) }
  BY DEF WriteLine, Counts
<1>2. s \in Seq(Nat)
  BY <1>1, PiecesAreTexts
<1>3. line \in Seq(Seq(Nat)) /\ Len(line) \in Nat /\ (line = <<>> <=> Len(line) = 0)
  BY LenProperties, EmptySeq DEF LineInv
<1>4. /\ line' \in Seq(Seq(Nat)) /\ Len(line') = Len(line) + 1
      /\ \A i \in 1..Len(line) : line'[i] = line[i]
      /\ line'[Len(line) + 1] = s
  BY <1>1, <1>2, <1>3, AppendProperties
<1>5. ASSUME NEW i \in 1..Len(line')
      PROVE  line'[i] \in IF i = 1 THEN Shown ELSE IF i = 2 THEN Marks
                          ELSE IF i = 3 THEN Counts ELSE Gaps
  <2>1. CASE i = Len(line) + 1
    <3>1. /\ line = <<>> <=> i = 1
          /\ Len(line) = 1 <=> i = 2
          /\ Len(line) = 2 <=> i = 3
      <4>1. \A k \in Nat : /\ k = 0 <=> k + 1 = 1
                           /\ k = 1 <=> k + 1 = 2
                           /\ k = 2 <=> k + 1 = 3
        OBVIOUS
      <4>2. QED
        BY <1>3, <2>1, <4>1, Zenon
    <3>2. line'[i] = s
      BY <1>4, <2>1
    <3>3. { g \in Gaps : Break \notin Range(g) } \subseteq Gaps
      OBVIOUS
    <3>4. QED
      BY <1>1, <3>1, <3>2, <3>3, Zenon
  <2>2. CASE i \in 1..Len(line)
    <3>1. line'[i] = line[i]
      BY <1>4, <2>2
    <3>2. CASE i \in {1, 2, 3}
      BY <1>3, <2>2, <3>1, <3>2 DEF LineInv
    <3>3. CASE i \notin {1, 2, 3}
      <4>1. i \in 4..Len(line)
        BY <1>3, <2>2, <3>3
      <4>2. line[i] \in Gaps
        BY <4>1 DEF LineInv
      <4>3. QED
        BY <3>1, <3>3, <4>2
    <3>4. QED
      BY <3>2, <3>3
  <2>3. QED
    BY <1>3, <1>4, <2>1, <2>2
<1>6. QED
  BY <1>3, <1>4, <1>5 DEF LineInv

\* What stands where in the text of a line.
LEMMA LineText ==
    ASSUME LineInv, Len(line) >= 3
    PROVE  LET t == FlattenSeq(line)
               e == Len(line[1])
               m == e + Len(line[2])
               last == m + Len(line[3])
           IN /\ t \in Seq(Nat) /\ Len(t) >= last
              /\ \A i \in 1..e : t[i] = line[1][i]
              /\ \A i \in 1..Len(line[2]) : t[e + i] = line[2][i]
              /\ \A i \in 1..Len(line[3]) : t[m + i] = line[3][i]
              /\ Len(t) > last => t[last + 1] \notin Digit
<1>1. /\ line \in Seq(Seq(Nat)) /\ Len(line) \in Nat /\ line # <<>>
      /\ \A i \in 1..Len(line) : line[i] \in Seq(Nat)
  BY LenProperties, EmptySeq, ElementOfSeq DEF LineInv
<1>2. PICK f : /\ FlattenSeq(line) = f[Len(line)]
               /\ f[1] = line[1]
               /\ \A i \in 2..Len(line) : f[i] = f[i - 1] \o line[i]
  BY <1>1, FlattenIs
<1> DEFINE a == line[1]
           b == line[2]
           c == line[3]
<1>3. a \in Seq(Nat) /\ b \in Seq(Nat) /\ c \in Seq(Nat)
  BY <1>1
<1>4. f[1] = a /\ f[2] = a \o b /\ f[3] = (a \o b) \o c
  <2>1. 2 \in 2..Len(line) /\ 3 \in 2..Len(line) /\ 2 - 1 = 1 /\ 3 - 1 = 2
    BY <1>1
  <2>2. f[2] = f[2 - 1] \o line[2] /\ f[3] = f[3 - 1] \o line[3]
    BY <1>2, <2>1
  <2>3. QED
    BY <1>2, <2>1, <2>2
<1> DEFINE last == Len(a) + Len(b) + Len(c)
<1> HIDE DEF a, b, c
<1>5. /\ f[3] \in Seq(Nat) /\ Len(f[3]) = last /\ last \in Nat
      /\ Len(a) \in Nat /\ Len(b) \in Nat /\ Len(c) \in Nat
      /\ \A i \in 1..Len(a) : f[3][i] = a[i]
      /\ \A i \in 1..Len(b) : f[3][Len(a) + i] = b[i]
      /\ \A i \in 1..Len(c) : f[3][Len(a) + Len(b) + i] = c[i]
  <2> DEFINE ab == a \o b
  <2>1. /\ ab \in Seq(Nat) /\ Len(ab) = Len(a) + Len(b)
        /\ Len(a) \in Nat /\ Len(b) \in Nat
        /\ \A i \in 1..Len(a) : ab[i] = a[i]
        /\ \A i \in 1..Len(b) : ab[Len(a) + i] = b[i]
    BY <1>3, Joined
  <2> HIDE DEF ab
  <2>2. /\ ab \o c \in Seq(Nat) /\ Len(ab \o c) = Len(ab) + Len(c) /\ Len(c) \in Nat
        /\ \A i \in 1..Len(ab) : (ab \o c)[i] = ab[i]
        /\ \A i \in 1..Len(c) : (ab \o c)[Len(ab) + i] = c[i]
    <3>1. ab \in Seq(Nat) /\ c \in Seq(Nat)
      BY <1>3, <2>1
    <3>2. QED
      BY <3>1, Joined, SMTT(20)
  <2>3. f[3] = ab \o c
    BY <1>4 DEF ab
  <2>4. \A i \in 1..Len(a) : f[3][i] = a[i]
    BY <2>1, <2>2, <2>3
  <2>5. ASSUME NEW i \in 1..Len(b) PROVE f[3][Len(a) + i] = b[i]
    <3>1. Len(a) + i \in 1..Len(ab)
      BY <2>1
    <3>2. QED
      BY <2>1, <2>2, <2>3, <3>1
  <2>6. QED
    BY <2>1, <2>2, <2>3, <2>4, <2>5, SMTT(30)
<1> HIDE DEF last
<1> DEFINE Extends(x) == /\ x \in Seq(Nat) /\ Len(x) >= last
                         /\ \A i \in 1..last : x[i] = f[3][i]
                         /\ Len(x) > last => x[last + 1] \notin Digit
           Good == {n \in Nat : n + 3 <= Len(line) => Extends(f[n + 3])}
<1>6. 0 \in Good
  BY <1>5
<1>7. ASSUME NEW n \in Nat, n \in Good PROVE n + 1 \in Good
  <2>1. SUFFICES ASSUME n + 4 <= Len(line) PROVE Extends(f[n + 4])
    <3>1. n + 1 + 3 = n + 4
      OBVIOUS
    <3>2. QED
      BY <2>1, <3>1
  <2>2. Extends(f[n + 3])
    BY <1>1, <1>7, <2>1
  <2> DEFINE x == f[n + 3]
             g == line[n + 4]
  <2>3. f[n + 4] = x \o g
    <3>1. n + 4 \in 2..Len(line) /\ n + 4 - 1 = n + 3
      BY <1>1, <2>1
    <3>2. PICK k \in 2..Len(line) : k = n + 4 /\ k - 1 = n + 3
      BY <3>1
    <3>3. f[k] = f[k - 1] \o line[k]
      BY <1>2
    <3>4. QED
      BY <3>2, <3>3, Zenon
  <2>4. g \in Gaps
    <3>1. n + 4 \in 4..Len(line)
      BY <1>1, <2>1
    <3>2. QED
      BY <3>1 DEF LineInv
  <2>5. g \in Seq(Nat) /\ g # <<>> /\ g[1] \notin Digit
    <3>1. g \in Seq(Nat) /\ g # <<>> /\ Range(g) \cap PhoneChar = {}
      BY <2>4, InputConstantsOK, Zenon DEF InputsOK
    <3>2. 1 \in DOMAIN g
      BY <3>1, LenProperties, EmptySeq
    <3>3. g[1] \in Range(g)
      BY <3>2 DEF Range
    <3>4. QED
      BY <3>1, <3>3 DEF PhoneChar
  <2>6. Len(g) \in Nat /\ Len(g) >= 1
    BY <2>5, LenProperties, EmptySeq
  <2> HIDE DEF x, g
  <2>7. /\ x \in Seq(Nat) /\ Len(x) >= last /\ Len(x) \in Nat
        /\ \A i \in 1..last : x[i] = f[3][i]
        /\ Len(x) > last => x[last + 1] \notin Digit
    BY <2>2, LenProperties DEF x
  <2>8. /\ x \o g \in Seq(Nat) /\ Len(x \o g) = Len(x) + Len(g)
        /\ \A i \in 1..Len(x) : (x \o g)[i] = x[i]
        /\ \A i \in 1..Len(g) : (x \o g)[Len(x) + i] = g[i]
    BY <2>5, <2>7, Joined
  <2>9. Len(x \o g) >= last /\ \A i \in 1..last : (x \o g)[i] = f[3][i]
    BY <1>5, <2>6, <2>7, <2>8
  <2>10. (x \o g)[last + 1] \notin Digit
    <3>1. CASE Len(x) > last
      BY <1>5, <2>7, <2>8, <3>1
    <3>2. CASE Len(x) = last
      <4>1. 1 \in 1..Len(g)
        BY <2>6
      <4>2. (x \o g)[Len(x) + 1] = g[1]
        BY <2>8, <4>1
      <4>3. QED
        BY <2>5, <3>2, <4>2
    <3>3. Len(x) > last \/ Len(x) = last
      BY <1>5, <2>7
    <3>4. QED
      BY <3>1, <3>2, <3>3
  <2>11. QED
    BY <2>3, <2>8, <2>9, <2>10
<1>8. Extends(f[Len(line)])
  <2>1. Len(line) - 3 \in Nat /\ Len(line) - 3 + 3 <= Len(line) /\ Len(line) - 3 + 3 = Len(line)
    BY <1>1
  <2>2. Len(line) - 3 \in Good
    <3> HIDE DEF Good
    <3>1. Nat \subseteq Good
      BY <1>6, <1>7, AllNumbers
    <3>2. QED
      BY <2>1, <3>1
  <2>3. QED
    BY <2>1, <2>2
<1> DEFINE t == FlattenSeq(line)
<1>9. Extends(t)
  BY <1>2, <1>8
<1> HIDE DEF t
<1>10. /\ t \in Seq(Nat) /\ Len(t) >= last
       /\ \A i \in 1..Len(a) : t[i] = a[i]
       /\ \A i \in 1..Len(b) : t[Len(a) + i] = b[i]
       /\ \A i \in 1..Len(c) : t[Len(a) + Len(b) + i] = c[i]
       /\ Len(t) > last => t[last + 1] \notin Digit
  <2>1. \A i \in 1..last : t[i] = f[3][i]
    BY <1>9
  <2>2. \A i \in 1..Len(a) : i \in 1..last
    BY <1>5 DEF last
  <2>3. \A i \in 1..Len(b) : Len(a) + i \in 1..last
    BY <1>5 DEF last
  <2>4. \A i \in 1..Len(c) : Len(a) + Len(b) + i \in 1..last
    BY <1>5 DEF last
  <2>5. QED
    BY <1>5, <1>9, <2>1, <2>2, <2>3, <2>4
<1>11. QED
  BY <1>10 DEF a, b, c, t, last

-----------------------------------------------------------------------------
(* Reading a line.                                                         *)

Separator == {Space, Break, Dot, Dash}

LEMMA SkipIs ==
    ASSUME NEW s \in Seq(Nat), NEW p \in Nat, NEW q \in p..(Len(s) + 1),
           q = Len(s) + 1 \/ ~Blank(s[q]),
           \A i \in p..(q - 1) : Blank(s[i])
    PROVE  SkipBlanks(s, p) = q
<1> DEFINE free == { k \in p..(Len(s) + 1) : k = Len(s) + 1 \/ ~Blank(s[k]) }
<1>1. Len(s) \in Nat
  BY LenProperties
<1>2. free \in SUBSET Nat /\ q \in free
  BY <1>1
<1>3. ASSUME NEW k \in free PROVE q <= k
  <2>1. k \in Nat /\ q \in Nat /\ p <= k
    BY <1>1
  <2>2. CASE k < q
    <3>1. k \in p..(q - 1) /\ k # Len(s) + 1
      BY <1>1, <2>1, <2>2
    <3>2. Blank(s[k])
      BY <3>1
    <3>3. QED
      BY <3>1, <3>2
  <2>3. QED
    BY <2>1, <2>2
<1> HIDE DEF free
<1>4. Min(free) = q
  BY <1>2, <1>3, LeastIs
<1>5. QED
  BY <1>4 DEF free, SkipBlanks

LEMMA PhoneEndIs ==
    ASSUME NEW s \in Seq(Nat), NEW e \in 2..Len(s), NEW m \in (e + 1)..(Len(s) + 1),
           s[1] \in PhoneChar, s[e] \in Digit,
           \A i \in 2..e : s[i] \in Digit \cup Separator,
           \A i \in (e + 1)..(m - 1) : s[i] \notin Digit,
           m <= Len(s) => s[m] \notin Digit \cup Separator
    PROVE  PhoneEnd(s) = e
<1> DEFINE inPhone(i) == IF i = 1 THEN s[i] \in Digit \cup {Plus}
                         ELSE s[i] \in Digit \cup {Space, Break, Dot, Dash}
           ends == { k \in 2..Len(s) : s[k] \in Digit /\ \A i \in 1..k : inPhone(i) }
<1>1. Len(s) \in Nat
  BY LenProperties
<1>2. \A i \in 1..e : inPhone(i)
  BY DEF PhoneChar, Separator
<1>3. ends \in SUBSET Nat /\ e \in ends
  BY <1>1, <1>2
<1>4. ASSUME NEW k \in ends PROVE k <= e
  <2>1. k \in 2..Len(s) /\ s[k] \in Digit
    OBVIOUS
  <2>2. CASE e < k /\ k < m
    <3>1. k \in (e + 1)..(m - 1)
      BY <1>1, <2>1, <2>2
    <3>2. QED
      BY <2>1, <3>1
  <2>3. CASE m <= k
    <3>1. m \in 1..k /\ m # 1 /\ m <= Len(s)
      BY <1>1, <2>1, <2>3
    <3>2. s[m] \in Digit \cup Separator
      BY <3>1 DEF Separator
    <3>3. QED
      BY <3>1, <3>2
  <2>4. QED
    BY <1>1, <2>1, <2>2, <2>3
<1>5. PhoneEnd(s) = IF ends = {} THEN 0 ELSE Max(ends)
  BY DEF PhoneEnd
<1> HIDE DEF ends
<1>6. Max(ends) = e
  BY <1>3, <1>4, MaxIs
<1>7. QED
  BY <1>3, <1>5, <1>6

LEMMA CountIs ==
    ASSUME NEW s \in Seq(Nat), NEW e \in Nat,
           NEW m \in (e + 1)..Len(s), NEW n \in (m + 1)..Len(s), NEW l \in n..Len(s),
           \A i \in (e + 1)..(m - 1) : Blank(s[i]),
           s[m] \in {Comma, Times},
           \A i \in (m + 1)..(n - 1) : Blank(s[i]),
           \A i \in n..l : s[i] \in Digit,
           l < Len(s) => s[l + 1] \notin Digit
    PROVE  CountAfter(s, e) = Value(SubSeq(s, n, l))
<1>1. Len(s) \in Nat
  BY LenProperties
<1>2. SkipBlanks(s, e + 1) = m
  <2>1. m \in (e + 1)..(Len(s) + 1) /\ e + 1 \in Nat
    BY <1>1
  <2>2. ~Blank(s[m])
    BY DEF Blank, Comma, Times, Space, Break
  <2>3. QED
    BY <2>1, <2>2, SkipIs
<1>3. SkipBlanks(s, m + 1) = n
  <2>1. n \in (m + 1)..(Len(s) + 1) /\ m + 1 \in Nat /\ n \in n..l
    BY <1>1
  <2>2. s[n] \in Digit
    BY <2>1
  <2>3. ~Blank(s[n])
    BY <2>2 DEF Blank, Digit, Space, Break
  <2>4. QED
    BY <2>1, <2>3, SkipIs
<1> DEFINE last == {n - 1} \cup { i \in n..Len(s) : \A j \in n..i : s[j] \in Digit }
<1>4. last \in SUBSET Nat /\ l \in last
  BY <1>1
<1>5. ASSUME NEW k \in last PROVE k <= l
  <2>1. CASE k = n - 1
    BY <1>1, <2>1
  <2>2. CASE k \in n..Len(s) /\ \A j \in n..k : s[j] \in Digit
    <3>1. CASE l < k
      <4>1. l + 1 \in n..k /\ l < Len(s)
        BY <1>1, <2>2, <3>1
      <4>2. QED
        BY <2>2, <4>1
    <3>2. QED
      BY <1>1, <2>2, <3>1
  <2>3. QED
    BY <2>1, <2>2
<1>6. Max(last) = l
  <2> HIDE DEF last
  <2>1. QED
    BY <1>4, <1>5, MaxIs
<1>7. m \in DOMAIN s /\ l >= n
  <2>1. DOMAIN s = 1..Len(s)
    BY LenProperties
  <2>2. QED
    BY <1>1, <2>1
<1>8. CountAfter(s, e) =
         IF m \in DOMAIN s /\ s[m] \in {Comma, Times, Dash} /\ Max(last) >= n
         THEN Value(SubSeq(s, n, Max(last))) ELSE 1
  BY <1>2, <1>3, Zenon DEF CountAfter
<1> HIDE DEF last
<1>9. QED
  BY <1>6, <1>7, <1>8

LEMMA SpellingIs ==
    ASSUME NEW s \in Shown
    PROVE  /\ s \in Seq(Nat) /\ Len(s) \in Nat /\ Len(s) >= 2
           /\ s[1] \in PhoneChar /\ s[Len(s)] \in Digit
           /\ \A i \in 2..Len(s) : s[i] \in Digit \cup Separator
           /\ ~Blank(s[1])
<1>1. /\ s \in Seq(PhoneChar \cup {Space, Dot, Dash}) /\ Len(s) >= 2
      /\ s[1] \in PhoneChar /\ s[Len(s)] \in Digit
      /\ \A i \in 2..Len(s) : s[i] # Plus
  BY InputConstantsOK DEF InputsOK
<1>2. Len(s) \in Nat /\ \A i \in 1..Len(s) : s[i] \in PhoneChar \cup {Space, Dot, Dash}
  BY <1>1, LenProperties, ElementOfSeq
<1>3. \A i \in 2..Len(s) : s[i] \in Digit \cup Separator
  <2>1. \A i \in 2..Len(s) : i \in 1..Len(s)
    BY <1>2
  <2>2. QED
    BY <1>1, <1>2, <2>1 DEF PhoneChar, Separator
<1>4. ~Blank(s[1])
  BY <1>1 DEF Blank, PhoneChar, Digit, Plus, Space, Break
<1>5. QED
  BY <1>1, <1>2, <1>3, <1>4, PiecesAreTexts

LEMMA NoBlanksBefore ==
    ASSUME NEW t \in Seq(Nat), Len(t) >= 1, ~Blank(t[1])
    PROVE  SubSeq(t, SkipBlanks(t, 1), Len(t)) = t
<1>1. Len(t) \in Nat
  BY LenProperties
<1>2. 1 \in 1..(Len(t) + 1) /\ \A i \in 1..(1 - 1) : Blank(t[i])
  BY <1>1
<1>3. SkipBlanks(t, 1) = 1
  BY <1>2, SkipIs
<1>4. QED
  BY <1>3, SubSeqFull

LEMMA NumberAlone ==
    ASSUME LineInv, Len(line) = 1
    PROVE  ParseCallLogLine(FlattenSeq(line)) = << [phone_raw |-> line[1], call_count |-> 1] >>
<1> DEFINE s == line[1]
<1>1. s \in Shown
  BY DEF LineInv
<1>2. FlattenSeq(line) = s
  <2>1. line \in Seq(Seq(Nat)) /\ line # <<>>
    <3>1. line \in Seq(Seq(Nat)) /\ Len(line) # 0
      BY DEF LineInv
    <3> HIDE DEF s
    <3>2. QED
      BY <3>1, EmptySeq
  <2>2. QED
    BY <2>1, FlattenIs
<1> HIDE DEF s
<1>3. /\ s \in Seq(Nat) /\ Len(s) \in Nat /\ Len(s) >= 2
      /\ s[1] \in PhoneChar /\ s[Len(s)] \in Digit
      /\ \A i \in 2..Len(s) : s[i] \in Digit \cup Separator
      /\ ~Blank(s[1])
  BY <1>1, SpellingIs
<1>4. SubSeq(s, SkipBlanks(s, 1), Len(s)) = s
  BY <1>3, NoBlanksBefore
<1>5. PhoneEnd(s) = Len(s)
  <2>1. Len(s) \in 2..Len(s) /\ Len(s) + 1 \in (Len(s) + 1)..(Len(s) + 1)
        /\ ~(Len(s) + 1 <= Len(s)) /\ \A i \in (Len(s) + 1)..(Len(s) + 1 - 1) : s[i] \notin Digit
    BY <1>3
  <2>2. QED
    BY <1>3, <2>1, PhoneEndIs
<1>6. CountAfter(s, Len(s)) = 1
  <2>1. SkipBlanks(s, Len(s) + 1) = Len(s) + 1
    <3>1. Len(s) + 1 \in Nat /\ Len(s) + 1 \in (Len(s) + 1)..(Len(s) + 1)
          /\ \A i \in (Len(s) + 1)..(Len(s) + 1 - 1) : Blank(s[i])
      BY <1>3
    <3>2. QED
      BY <1>3, <3>1, SkipIs
  <2>2. Len(s) + 1 \notin DOMAIN s
    <3>1. DOMAIN s = 1..Len(s)
      BY <1>3, LenProperties
    <3>2. QED
      BY <1>3, <3>1
  <2>3. QED
    BY <2>1, <2>2, Zenon DEF CountAfter
<1>7. SubSeq(s, 1, Len(s)) = s /\ Len(s) # 0
  BY <1>3, SubSeqFull
<1>8. ParseCallLogLine(s) = << [phone_raw |-> s, call_count |-> 1] >>
  BY <1>4, <1>5, <1>6, <1>7 DEF ParseCallLogLine
<1>9. QED
  BY <1>2, <1>8 DEF s

\* A beginning, and a part further on, of a text.
LEMMA PartIs ==
    ASSUME NEW t \in Seq(Nat), NEW part \in Seq(Nat), NEW k \in Nat,
           Len(part) >= 1, k + Len(part) <= Len(t),
           \A i \in 1..Len(part) : t[k + i] = part[i]
    PROVE  SubSeq(t, k + 1, k + Len(part)) = part
<1> DEFINE b == SubSeq(t, k + 1, k + Len(part))
<1>1. Len(t) \in Nat /\ Len(part) \in Nat /\ \A i \in 1..Len(t) : t[i] \in Nat
  BY LenProperties, ElementOfSeq
<1>2. /\ b \in Seq(Nat)
      /\ Len(b) = IF k + 1 <= k + Len(part) THEN k + Len(part) - (k + 1) + 1 ELSE 0
      /\ \A i \in 1..(k + Len(part) - (k + 1) + 1) : b[i] = t[k + 1 + i - 1]
  <2>1. k + 1 \in Int /\ k + Len(part) \in Int
        /\ \A i \in (k + 1)..(k + Len(part)) : t[i] \in Nat
    BY <1>1
  <2> HIDE DEF b
  <2>2. QED
    BY <2>1, SubSeqProperties DEF b
<1> HIDE DEF b
<1>3. Len(b) = Len(part)
  BY <1>1, <1>2
<1>4. ASSUME NEW i \in 1..Len(part) PROVE b[i] = part[i]
  <2>1. i \in 1..(k + Len(part) - (k + 1) + 1) /\ k + 1 + i - 1 = k + i
    BY <1>1
  <2>2. QED
    BY <1>2, <2>1
<1>5. b = part
  BY <1>2, <1>3, <1>4, SeqEqual
<1>6. QED
  BY <1>5 DEF b

LEMMA NumberMarkCount ==
    ASSUME LineInv, Len(line) >= 3
    PROVE  ParseCallLogLine(FlattenSeq(line)) =
              << [phone_raw |-> line[1], call_count |-> Value(line[3])] >>
<1> DEFINE t == FlattenSeq(line)
           a == line[1]
           b == line[2]
           c == line[3]
           e == Len(a)
           m == e + Len(b)
           last == m + Len(c)
<1>1. a \in Shown /\ b \in Marks /\ c \in Counts
  <2>1. Len(line) \in Nat
    BY LenProperties DEF LineInv
  <2>2. QED
    BY <2>1 DEF LineInv
<1>2. /\ t \in Seq(Nat) /\ Len(t) >= last
      /\ \A i \in 1..e : t[i] = a[i]
      /\ \A i \in 1..Len(b) : t[e + i] = b[i]
      /\ \A i \in 1..Len(c) : t[m + i] = c[i]
      /\ Len(t) > last => t[last + 1] \notin Digit
  BY LineText, Zenon
<1> HIDE DEF t, a, b, c
<1>3. /\ a \in Seq(Nat) /\ e \in Nat /\ e >= 2
      /\ a[1] \in PhoneChar /\ a[e] \in Digit
      /\ \A i \in 2..e : a[i] \in Digit \cup Separator
      /\ ~Blank(a[1])
  BY <1>1, SpellingIs
<1>4. PICK k \in 1..Len(b) : /\ b[k] \in {Comma, Times}
                             /\ \A j \in 1..Len(b) : j # k => Blank(b[j])
  BY <1>1, InputConstantsOK DEF InputsOK, Blank, Blanks
<1>5. Len(b) \in Nat /\ Len(t) \in Nat
  BY <1>1, <1>2, PiecesAreTexts, LenProperties
<1>6. c \in Seq(Nat) /\ Len(c) \in Nat /\ Len(c) >= 1 /\ \A i \in 1..Len(c) : c[i] \in Digit
  <2>1. CASE c \in { <<d>> : d \in 1..9 }
    <3>1. PICK d \in 1..9 : c = <<d>>
      BY <2>1
    <3>2. Len(c) = 1 /\ c[1] = d /\ c \in Seq(Nat) /\ d \in Digit
      BY <3>1 DEF Digit
    <3>3. QED
      BY <3>2
  <2>2. CASE c = <<1, 2>>
    <3>1. Len(c) = 2 /\ c[1] = 1 /\ c[2] = 2 /\ c \in Seq(Nat) /\ {1, 2} \subseteq Digit
      BY <2>2 DEF Digit
    <3>2. QED
      BY <3>1
  <2>3. QED
    BY <1>1, <2>1, <2>2 DEF Counts
<1> HIDE DEF e
<1>7. /\ m \in Nat /\ last \in Nat /\ m >= e + 1 /\ last >= m + 1 /\ e + k \in (e + 1)..m
      /\ Len(t) >= m + 1
  <2>1. e \in Nat /\ Len(b) \in Nat /\ Len(c) \in Nat /\ Len(c) >= 1 /\ k \in 1..Len(b)
        /\ Len(t) >= last /\ Len(t) \in Nat
    BY <1>2, <1>3, <1>4, <1>5, <1>6
  <2>2. QED
    BY <2>1
<1>8. t[1] = a[1] /\ t[e] = a[e] /\ \A i \in 2..e : t[i] \in Digit \cup Separator
  <2>1. 1 \in 1..e /\ e \in 1..e /\ \A i \in 2..e : i \in 1..e
    BY <1>3
  <2>2. \A i \in 1..e : t[i] = a[i]
    BY <1>2
  <2>3. QED
    BY <1>3, <2>1, <2>2
<1>9. SubSeq(t, SkipBlanks(t, 1), Len(t)) = t
  <2>1. Len(t) >= 1 /\ ~Blank(t[1])
    BY <1>3, <1>5, <1>7, <1>8
  <2>2. QED
    BY <1>2, <2>1, NoBlanksBefore
<1>10. /\ \A i \in (e + 1)..((e + k) - 1) : Blank(t[i])
       /\ t[e + k] \in {Comma, Times}
       /\ \A i \in (e + k + 1)..m : Blank(t[i])
  <2>1. ASSUME NEW i \in (e + 1)..m, i # e + k PROVE Blank(t[i])
    <3>1. i - e \in 1..Len(b) /\ i - e # k /\ e + (i - e) = i
      BY <1>3, <1>4, <1>5, <2>1
    <3>2. t[e + (i - e)] = b[i - e]
      BY <1>2, <3>1
    <3>3. QED
      BY <1>4, <3>1, <3>2
  <2>2. t[e + k] \in {Comma, Times}
    BY <1>2, <1>4
  <2>3. \A i \in (e + 1)..((e + k) - 1) : i \in (e + 1)..m /\ i # e + k
    BY <1>3, <1>5, <1>7
  <2>4. \A i \in (e + k + 1)..m : i \in (e + 1)..m /\ i # e + k
    BY <1>3, <1>5, <1>7
  <2>5. QED
    BY <2>1, <2>2, <2>3, <2>4
<1> HIDE DEF m, last
<1>11. PhoneEnd(t) = e
  <2>1. e \in 2..Len(t) /\ e + k \in (e + 1)..(Len(t) + 1)
    BY <1>3, <1>5, <1>7
  <2>2. t[e + k] \notin Digit \cup Separator
    BY <1>10 DEF Comma, Times, Digit, Separator, Space, Break, Dot, Dash
  <2>3. \A i \in (e + 1)..((e + k) - 1) : t[i] \notin Digit
    BY <1>10 DEF Blank, Digit, Space, Break
  <2> DEFINE p == e + k
  <2>4. /\ p \in (e + 1)..(Len(t) + 1) /\ t[p] \notin Digit \cup Separator
        /\ \A i \in (e + 1)..(p - 1) : t[i] \notin Digit
    BY <2>1, <2>2, <2>3
  <2> HIDE DEF p
  <2>5. t \in Seq(Nat) /\ t[1] \in PhoneChar /\ t[e] \in Digit
    BY <1>2, <1>3, <1>8
  <2>6. QED
    BY <1>8, <2>1, <2>4, <2>5, PhoneEndIs
<1>12. last = m + Len(c)
  BY DEF last
<1>13. CountAfter(t, e) = Value(SubSeq(t, m + 1, last))
  <2>1. /\ e + k \in (e + 1)..Len(t) /\ m + 1 \in (e + k + 1)..Len(t)
        /\ last \in (m + 1)..Len(t) /\ m + 1 - 1 = m
    BY <1>2, <1>3, <1>5, <1>7
  <2>2. ASSUME NEW i \in (m + 1)..last PROVE t[i] \in Digit
    <3>1. i - m \in 1..Len(c) /\ m + (i - m) = i
      BY <1>6, <1>7, <1>12
    <3>2. t[m + (i - m)] = c[i - m]
      BY <1>2, <3>1
    <3>3. QED
      BY <1>6, <3>1, <3>2
  <2>3. \A i \in (e + k + 1)..((m + 1) - 1) : Blank(t[i])
    <3>1. (m + 1) - 1 = m
      BY <1>7
    <3>2. QED
      BY <1>10, <3>1
  <2>4. last < Len(t) => t[last + 1] \notin Digit
    BY <1>2, <1>5, <1>7
  <2> DEFINE p == e + k
             n == m + 1
  <2>5. /\ p \in (e + 1)..Len(t) /\ n \in (p + 1)..Len(t) /\ last \in n..Len(t)
        /\ \A i \in (e + 1)..(p - 1) : Blank(t[i])
        /\ t[p] \in {Comma, Times}
        /\ \A i \in (p + 1)..(n - 1) : Blank(t[i])
        /\ \A i \in n..last : t[i] \in Digit
    <3>1. p \in (e + 1)..Len(t) /\ n \in (p + 1)..Len(t) /\ last \in n..Len(t)
      BY <2>1, Zenon
    <3>2. /\ \A i \in (e + 1)..(p - 1) : Blank(t[i])
          /\ t[p] \in {Comma, Times}
      BY <1>10, Zenon
    <3>3. /\ \A i \in (p + 1)..(n - 1) : Blank(t[i])
          /\ \A i \in n..last : t[i] \in Digit
      BY <2>2, <2>3, Zenon
    <3>4. QED
      BY <3>1, <3>2, <3>3, Zenon
  <2> HIDE DEF p, n
  <2>6. t \in Seq(Nat) /\ e \in Nat
    BY <1>2, <1>3
  <2>7. CountAfter(t, e) = Value(SubSeq(t, n, last))
    BY <2>4, <2>5, <2>6, CountIs
  <2>8. QED
    BY <2>7 DEF n
<1>14. SubSeq(t, m + 1, last) = c
  <2>1. m + Len(c) <= Len(t)
    BY <1>2, <1>5, <1>7, <1>12
  <2>2. QED
    BY <1>2, <1>6, <1>7, <1>12, <2>1, PartIs
<1>15. SubSeq(t, 1, e) = a
  <2>1. Len(a) = e /\ Len(a) >= 1 /\ 0 + Len(a) <= Len(t) /\ 0 + Len(a) = e /\ 0 + 1 = 1
    BY <1>3, <1>5, <1>7 DEF e
  <2>2. \A i \in 1..Len(a) : t[0 + i] = a[i]
    BY <1>2, <1>3, <2>1
  <2>3. SubSeq(t, 0 + 1, 0 + Len(a)) = a
    BY <1>2, <1>3, <2>1, <2>2, PartIs
  <2>4. QED
    BY <2>1, <2>3
<1>16. e # 0
  BY <1>3
<1>17. ParseCallLogLine(t) = << [phone_raw |-> a, call_count |-> Value(c)] >>
  BY <1>9, <1>11, <1>13, <1>14, <1>15, <1>16 DEF ParseCallLogLine
<1>18. QED
  BY <1>17 DEF t, a, c

LEMMA LineReads ==
    ASSUME LineInv
    PROVE  LineReadAsWritten
<1> SUFFICES ASSUME Len(line) \in {1} \cup 3..MaxPieces
             PROVE  ParseCallLogLine(FlattenSeq(line)) =
                       << [phone_raw |-> line[1],
                           call_count |-> IF Len(line) = 1 THEN 1 ELSE Value(line[3])] >>
  BY DEF LineReadAsWritten
<1>1. CASE Len(line) = 1
  BY <1>1, NumberAlone
<1>2. CASE Len(line) # 1
  <2>1. Len(line) >= 3
    BY <1>2
  <2>2. QED
    BY <1>2, <2>1, NumberMarkCount
<1>3. QED
  BY <1>1, <1>2

-----------------------------------------------------------------------------
(* Recursion on numbers.                                                   *)

\* The values that a step function takes up to the n-th, from a first one.
StepsOf(k, V, x, G, n) ==
    k \in [0..n -> V] /\ k[0] = x /\ \A i \in 1..n : k[i] = G[<<i, k[i - 1]>>]

LEMMA RepeatedSteps ==
    ASSUME NEW V, NEW x \in V, NEW G \in [Nat \X V -> V], NEW m \in Nat
    PROVE  \E k : StepsOf(k, V, x, G, m)
<1> USE DEF StepsOf
<1> DEFINE Is(k, n) == StepsOf(k, V, x, G, n)
           Good == {n \in Nat : \E k : Is(k, n)}
<1>1. 0 \in Good
  <2>1. Is([i \in 0..0 |-> x], 0)
    OBVIOUS
  <2>2. QED
    BY <2>1
<1>2. ASSUME NEW n \in Nat, n \in Good PROVE n + 1 \in Good
  <2>1. PICK f : Is(f, n)
    BY <1>2
  <2> DEFINE e == G[<<n + 1, f[n]>>]
             g == [i \in 0..(n + 1) |-> IF i = n + 1 THEN e ELSE f[i]]
  <2>2. e \in V
    BY <2>1
  <2>3. g \in [0..(n + 1) -> V] /\ g[0] = x
    <3> HIDE DEF e
    <3>1. QED
      BY <2>1, <2>2
  <2>4. ASSUME NEW i \in 1..(n + 1) PROVE g[i] = G[<<i, g[i - 1]>>]
    <3>1. CASE i = n + 1
      <4>1. g[i] = e /\ g[n] = f[n] /\ i - 1 = n
        BY <3>1
      <4>2. QED
        BY <3>1, <4>1
    <3>2. CASE i \in 1..n
      <4>1. g[i] = f[i] /\ g[i - 1] = f[i - 1]
        BY <3>2
      <4>2. f[i] = G[<<i, f[i - 1]>>]
        BY <2>1, <3>2
      <4>3. QED
        BY <4>1, <4>2
    <3>3. QED
      BY <3>1, <3>2
  <2>5. \E h : Is(h, n + 1)
    <3> HIDE DEF g
    <3>1. QED
      BY <2>3, <2>4
  <2>6. QED
    <3> HIDE DEF Is
    <3>1. QED
      BY <2>5
<1>3. m \in Good
  <2> HIDE DEF Good
  <2>1. Nat \subseteq Good
    BY <1>1, <1>2, AllNumbers
  <2>2. QED
    BY <2>1
<1>4. \E k : Is(k, m)
  <2> HIDE DEF Is
  <2>1. QED
    BY <1>3
<1>5. QED
  BY <1>4

-----------------------------------------------------------------------------
(* Where a match ends.                                                     *)

LEMMA AfterUnitIs ==
    ASSUME NEW t \in Seq(Nat), NEW p \in Nat
    PROVE  AfterUnit(t, p) = 0 \/ AfterUnit(t, p) \in (p + 1)..(Len(t) + 1)
<1>1. DOMAIN t = 1..Len(t) /\ Len(t) \in Nat
  BY LenProperties
<1>2. QED
  BY <1>1 DEF AfterUnit

\* Where each of the units ends, and which end is the match's.
UnitEnds(end, t, p, least, most) ==
    /\ end \in [0..most -> Nat]
    /\ end[0] = p
    /\ \A n \in 1..most : end[n] = IF end[n - 1] = 0 THEN 0 ELSE AfterUnit(t, end[n - 1])
    /\ LET reached == { n \in least..most : end[n] # 0 }
       IN AfterUnits(t, p, least, most) = IF reached = {} THEN 0 ELSE end[Max(reached)]

LEMMA AfterUnitsIs ==
    ASSUME NEW t \in Seq(Nat), NEW p \in Nat, NEW least \in Nat, NEW most \in Nat
    PROVE  \E end : UnitEnds(end, t, p, least, most)
<1> DEFINE G == [a \in Nat \X Nat |-> IF a[2] = 0 THEN 0 ELSE AfterUnit(t, a[2])]
           Is(k) == k = [n \in 0..most |-> IF n = 0 THEN p
                                           ELSE IF k[n - 1] = 0 THEN 0
                                           ELSE AfterUnit(t, k[n - 1])]
           c == CHOOSE k : Is(k)
<1>0. Len(t) \in Nat /\ \A k \in Nat : AfterUnit(t, k) \in Nat
  BY AfterUnitIs, LenProperties
<1>1. G \in [Nat \X Nat -> Nat]
  BY <1>0
<1>2. PICK f \in [0..most -> Nat] :
         f[0] = p /\ \A n \in 1..most : f[n] = G[<<n, f[n - 1]>>]
  <2> HIDE DEF G
  <2>1. \E f : StepsOf(f, Nat, p, G, most)
    BY <1>1, RepeatedSteps
  <2>2. QED
    BY <2>1 DEF StepsOf
<1>4. Is(f)
  <2>1. ASSUME NEW n \in 0..most
        PROVE  f[n] = IF n = 0 THEN p
                      ELSE IF f[n - 1] = 0 THEN 0 ELSE AfterUnit(t, f[n - 1])
    <3>1. CASE n = 0
      BY <1>2, <3>1
    <3>2. CASE n # 0
      <4>1. n \in 1..most /\ n \in Nat /\ f[n - 1] \in Nat
        BY <3>2
      <4>2. f[n] = G[<<n, f[n - 1]>>]
        BY <1>2, <4>1
      <4>3. QED
        BY <3>2, <4>1, <4>2
    <3>3. QED
      BY <3>1, <3>2
  <2>2. f = [n \in 0..most |-> f[n]]
    OBVIOUS
  <2>3. QED
    BY <2>1, <2>2
<1>5. Is(c)
  <2>1. \E k : Is(k)
    <3> HIDE DEF Is
    <3>1. QED
      BY <1>4
  <2> HIDE DEF Is
  <2>2. QED
    BY <2>1
<1>6. LET reached == { n \in least..most : c[n] # 0 }
      IN AfterUnits(t, p, least, most) = IF reached = {} THEN 0 ELSE c[Max(reached)]
  BY Zenon DEF AfterUnits
<1> HIDE DEF c
<1>7. /\ c[0] = p
      /\ \A n \in 1..most : c[n] = IF c[n - 1] = 0 THEN 0 ELSE AfterUnit(t, c[n - 1])
  BY <1>5
<1>8. \A n \in 0..most : c[n] \in Nat
  <2> DEFINE Good == {n \in Nat : n \in 0..most => c[n] \in Nat}
  <2>1. 0 \in Good
    BY <1>7
  <2>2. ASSUME NEW n \in Nat, n \in Good PROVE n + 1 \in Good
    <3>1. SUFFICES ASSUME n + 1 \in 1..most PROVE c[n + 1] \in Nat
      OBVIOUS
    <3>2. c[n] \in Nat /\ (n + 1) - 1 = n
      BY <2>2, <3>1
    <3>3. c[n + 1] = IF c[n] = 0 THEN 0 ELSE AfterUnit(t, c[n])
      BY <1>7, <3>1, <3>2
    <3>4. QED
      BY <1>0, <3>2, <3>3
  <2>3. Nat \subseteq Good
    <3> HIDE DEF Good
    <3>1. QED
      BY <2>1, <2>2, AllNumbers
  <2>4. QED
    BY <2>3
<1>9. c \in [0..most -> Nat]
  BY <1>5, <1>8
<1>10. UnitEnds(c, t, p, least, most)
  BY <1>6, <1>7, <1>9 DEF UnitEnds
<1>11. QED
  BY <1>10

LEMMA Greatest ==
    ASSUME NEW m \in Nat, NEW S \in SUBSET (0..m), S # {}
    PROVE  \E g \in S : \A k \in S : k <= g
<1> DEFINE B == {b \in Nat : \A k \in S : k <= b}
<1>1. m \in B
  OBVIOUS
<1>2. PICK b \in B : \A k \in B : b <= k
  <2>1. B \in SUBSET Nat /\ B # {}
    BY <1>1
  <2> HIDE DEF B
  <2>2. QED
    BY <2>1, Least
<1>3. b \in S
  <2> SUFFICES ASSUME b \notin S PROVE FALSE
    OBVIOUS
  <2>1. \A k \in S : k \in Nat /\ k < b
    BY <1>2
  <2>2. b - 1 \in B
    <3>1. PICK k \in S : k \in Nat /\ k < b
      BY <2>1
    <3>2. b \in Nat /\ b - 1 \in Nat
      BY <3>1
    <3>3. \A n \in Nat : n < b => n <= b - 1
      BY <3>2
    <3>4. QED
      BY <2>1, <3>2, <3>3
  <2>3. QED
    BY <1>2, <2>2
<1>4. QED
  BY <1>2, <1>3

LEMMA AfterUnitsBounds ==
    ASSUME NEW t \in Seq(Nat), NEW p \in Nat, NEW least \in Nat \ {0}, NEW most \in Nat
    PROVE  AfterUnits(t, p, least, most) = 0 \/ AfterUnits(t, p, least, most) \in (p + least)..(Len(t) + 1)
<1>0. Len(t) \in Nat
  BY LenProperties
<1>a. PICK end : UnitEnds(end, t, p, least, most)
  BY AfterUnitsIs
<1>1. /\ end \in [0..most -> Nat]
      /\ end[0] = p
      /\ \A n \in 1..most : end[n] = IF end[n - 1] = 0 THEN 0 ELSE AfterUnit(t, end[n - 1])
      /\ LET reached == { n \in least..most : end[n] # 0 }
         IN AfterUnits(t, p, least, most) = IF reached = {} THEN 0 ELSE end[Max(reached)]
  BY <1>a DEF UnitEnds
<1> DEFINE Good == {n \in Nat : n + 1 \in 1..most /\ end[n + 1] # 0 =>
                                end[n + 1] \in (p + (n + 1))..(Len(t) + 1)}
<1>2. 0 \in Good
  <2> SUFFICES ASSUME 1 \in 1..most, end[1] # 0 PROVE end[1] \in (p + 1)..(Len(t) + 1)
    OBVIOUS
  <2>1. end[1] = IF end[0] = 0 THEN 0 ELSE AfterUnit(t, end[0])
    BY <1>1
  <2>2. QED
    BY <1>1, <2>1, AfterUnitIs
<1>3. ASSUME NEW n \in Nat, n \in Good PROVE n + 1 \in Good
  <2>0. (n + 1) + 1 \in Nat /\ ((n + 1) + 1) - 1 = n + 1
    OBVIOUS
  <2> SUFFICES ASSUME (n + 1) + 1 \in 1..most, end[(n + 1) + 1] # 0
               PROVE  end[(n + 1) + 1] \in (p + ((n + 1) + 1))..(Len(t) + 1)
    OBVIOUS
  <2>1. end[(n + 1) + 1] = IF end[n + 1] = 0 THEN 0 ELSE AfterUnit(t, end[n + 1])
    BY <1>1, <2>0
  <2>2. end[n + 1] # 0 /\ n + 1 \in 1..most
    BY <2>1
  <2>3. end[n + 1] \in (p + (n + 1))..(Len(t) + 1)
    BY <1>3, <2>2
  <2>4. AfterUnit(t, end[n + 1]) \in (end[n + 1] + 1)..(Len(t) + 1)
    BY <2>1, <2>2, <2>3, AfterUnitIs
  <2> DEFINE a == end[n + 1]
             b == end[(n + 1) + 1]
  <2>5. a \in (p + (n + 1))..(Len(t) + 1) /\ b \in (a + 1)..(Len(t) + 1)
    BY <2>1, <2>2, <2>3, <2>4
  <2> HIDE DEF a, b
  <2>6. b \in (p + ((n + 1) + 1))..(Len(t) + 1)
    BY <1>0, <2>5
  <2>7. QED
    BY <2>6 DEF b
<1>4. Nat \subseteq Good
  <2> HIDE DEF Good
  <2>1. QED
    BY <1>2, <1>3, AllNumbers
<1> DEFINE reached == { n \in least..most : end[n] # 0 }
<1>5. CASE reached = {}
  BY <1>1, <1>5
<1>6. CASE reached # {}
  <2>1. reached \in SUBSET (0..most) /\ reached \in SUBSET Nat
    OBVIOUS
  <2>2. PICK g \in reached : \A k \in reached : k <= g
    <3> HIDE DEF reached
    <3>1. QED
      BY <1>6, <2>1, Greatest
  <2>3. Max(reached) = g
    <3> HIDE DEF reached
    <3>1. QED
      BY <2>1, <2>2, MaxIs
  <2>4. AfterUnits(t, p, least, most) = end[g]
    BY <1>1, <1>6, <2>3
  <2>5. g \in Nat /\ g - 1 \in Nat /\ (g - 1) + 1 = g /\ g \in 1..most /\ end[g] # 0
    BY <2>2
  <2>6. g - 1 \in Good
    BY <1>4, <2>5
  <2>7. end[g] \in (p + g)..(Len(t) + 1)
    BY <2>5, <2>6
  <2>8. g >= least
    BY <2>2
  <2>9. end[g] \in (p + least)..(Len(t) + 1)
    BY <1>0, <2>5, <2>7, <2>8
  <2>10. QED
    BY <2>4, <2>9
<1>7. QED
  BY <1>5, <1>6

\* A match has eight characters or more and ends within the text.
LEMMA MatchIsLong ==
    ASSUME NEW t \in Seq(Nat), NEW p \in 1..Len(t), MatchEnd(t, p) # 0
    PROVE  MatchEnd(t, p) \in (p + 8)..(Len(t) + 1)
<1>0. Len(t) \in Nat
  BY LenProperties
<1>1. ASSUME NEW q \in Nat, NEW least \in Nat \ {0}, NEW most \in Nat, p + 8 <= q + least,
             MatchEnd(t, p) = AfterUnits(t, q, least, most)
      PROVE  MatchEnd(t, p) \in (p + 8)..(Len(t) + 1)
  <2>1. MatchEnd(t, p) \in (q + least)..(Len(t) + 1)
    BY <1>1, AfterUnitsBounds
  <2>2. QED
    BY <1>0, <1>1, <2>1
<1>2. CASE t[p] = 0
  <2>1. MatchEnd(t, p) = AfterUnits(t, p + 1, 8, 10)
    BY <1>2 DEF MatchEnd
  <2>2. QED
    BY <1>1, <2>1
<1>3. CASE /\ t[p] # 0
           /\ \E s \in {<<Plus, 8, 4>>, <<8, 4>>} : p + Len(s) - 1 <= Len(t) /\ HasAt(t, p, s)
  <2> DEFINE q == p + (IF t[p] = Plus THEN 3 ELSE 2)
  <2>1. MatchEnd(t, p) = AfterUnits(t, q, 8, 10)
    BY <1>3, Zenon DEF MatchEnd
  <2>2. q \in Nat /\ p + 8 <= q + 8
    OBVIOUS
  <2> HIDE DEF q
  <2>3. QED
    BY <1>1, <2>1, <2>2
<1>4. CASE /\ t[p] # 0
           /\ ~ \E s \in {<<Plus, 8, 4>>, <<8, 4>>} : p + Len(s) - 1 <= Len(t) /\ HasAt(t, p, s)
  <2>1. MatchEnd(t, p) = AfterUnits(t, p + 4, 4, 7)
    BY <1>4, Zenon DEF MatchEnd
  <2>2. QED
    BY <1>1, <2>1
<1>5. QED
  BY <1>2, <1>3, <1>4

LEMMA MatchEndIs ==
    ASSUME NEW t \in Seq(Nat), NEW p \in 1..Len(t), MatchEnd(t, p) # 0
    PROVE  MatchEnd(t, p) \in (p + 1)..(Len(t) + 1)
<1>1. MatchEnd(t, p) \in (p + 8)..(Len(t) + 1) /\ Len(t) \in Nat
  BY MatchIsLong, LenProperties
<1>2. QED
  BY <1>1

-----------------------------------------------------------------------------
(* The text of a page.                                                     *)

LEMMA SqueezeIs ==
    ASSUME NEW t \in Seq(Nat), NEW c \in Nat
    PROVE  Squeeze(t, c) \in Seq(Nat)
<1>1. Append(t, c) \in Seq(Nat) /\ Break \in Nat
  BY AppendProperties DEF Break
<1>2. ASSUME t # <<>> PROVE Append(Front(t), Break) \in Seq(Nat)
  <2>1. Len(t) \in Nat /\ Len(t) # 0 /\ \A i \in 1..Len(t) : t[i] \in Nat
    BY <1>2, LenProperties, EmptySeq, ElementOfSeq
  <2>2. Front(t) \in Seq(Nat)
    BY <2>1, SubSeqProperties DEF Front
  <2>3. QED
    BY <1>1, <2>2, AppendProperties
<1>3. QED
  BY <1>1, <1>2 DEF Squeeze

\* k is what the first characters of s are squeezed to, one after the other.
IsSqueezing(k, s) ==
    /\ k \in [0..Len(s) -> Seq(Nat)] /\ k[0] = <<>>
    /\ \A n \in 1..Len(s) : k[n] = Squeeze(k[n - 1], s[n])

LEMMA SqueezingExists ==
    ASSUME NEW s \in Seq(Nat)
    PROVE  \E k : IsSqueezing(k, s) /\ Squeezed(s) = k[Len(s)]
<1> DEFINE m == Len(s)
           G == [a \in Nat \X Seq(Nat) |-> IF a[1] \in 1..m THEN Squeeze(a[2], s[a[1]]) ELSE a[2]]
           Is(k) == k = [n \in 0..m |-> IF n = 0 THEN <<>> ELSE Squeeze(k[n - 1], s[n])]
           c == CHOOSE k : Is(k)
<1>0. m \in Nat /\ <<>> \in Seq(Nat) /\ \A i \in 1..m : s[i] \in Nat
  BY LenProperties, ElementOfSeq, EmptySeq
<1>1. G \in [Nat \X Seq(Nat) -> Seq(Nat)]
  BY <1>0, SqueezeIs
<1>2. PICK f : StepsOf(f, Seq(Nat), <<>>, G, m)
  <2> HIDE DEF G, m
  <2>1. QED
    BY <1>0, <1>1, RepeatedSteps
<1>3. /\ f \in [0..m -> Seq(Nat)] /\ f[0] = <<>>
      /\ \A i \in 1..m : f[i] = G[<<i, f[i - 1]>>]
  BY <1>2 DEF StepsOf
<1>4. Is(f)
  <2>1. ASSUME NEW n \in 0..m
        PROVE  f[n] = IF n = 0 THEN <<>> ELSE Squeeze(f[n - 1], s[n])
    <3>1. CASE n = 0
      BY <1>3, <3>1
    <3>2. CASE n # 0
      <4>1. n \in 1..m /\ n \in Nat /\ n - 1 \in 0..m
        BY <1>0, <3>2
      <4>2. f[n - 1] \in Seq(Nat)
        BY <1>3, <4>1
      <4>3. f[n] = G[<<n, f[n - 1]>>]
        BY <1>3, <4>1
      <4>4. G[<<n, f[n - 1]>>] = Squeeze(f[n - 1], s[n])
        BY <4>1, <4>2
      <4>5. QED
        BY <3>2, <4>3, <4>4, Zenon
    <3>3. QED
      BY <3>1, <3>2
  <2>2. f = [n \in 0..m |-> f[n]]
    BY <1>3
  <2>3. QED
    BY <2>1, <2>2, Zenon
<1>5. Is(c)
  <2>1. \E k : Is(k)
    <3> HIDE DEF Is
    <3>1. QED
      BY <1>4
  <2> HIDE DEF Is
  <2>2. QED
    BY <2>1
<1>6. Squeezed(s) = c[m]
  BY Zenon DEF Squeezed
<1> HIDE DEF c
<1>7. c = [n \in 0..m |-> c[n]] /\ \A n \in 0..m : c[n] = IF n = 0 THEN <<>> ELSE Squeeze(c[n - 1], s[n])
  <2>1. DOMAIN c = 0..m
    BY <1>5, Zenon
  <2>2. c = [n \in 0..m |-> c[n]]
    BY <1>5, <2>1
  <2>3. QED
    BY <1>5, <2>2, Zenon
<1> DEFINE Good == {n \in Nat : n \in 0..m => c[n] \in Seq(Nat)}
<1>8. 0 \in Good
  BY <1>0, <1>7
<1>9. ASSUME NEW n \in Nat, n \in Good PROVE n + 1 \in Good
  <2>1. SUFFICES ASSUME n + 1 \in 0..m PROVE c[n + 1] \in Seq(Nat)
    OBVIOUS
  <2>2. n \in 0..m /\ n + 1 # 0 /\ (n + 1) - 1 = n /\ n + 1 \in 1..m
    BY <1>0, <2>1
  <2>3. c[n] \in Seq(Nat) /\ s[n + 1] \in Nat
    BY <1>0, <1>9, <2>2
  <2>4. c[n + 1] = Squeeze(c[n], s[n + 1])
    BY <1>7, <2>1, <2>2
  <2>5. QED
    BY <2>3, <2>4, SqueezeIs
<1>10. Nat \subseteq Good
  <2> HIDE DEF Good
  <2>1. QED
    BY <1>8, <1>9, AllNumbers
<1>11. \A n \in 0..m : c[n] \in Seq(Nat)
  BY <1>0, <1>10
<1>12. c \in [0..m -> Seq(Nat)]
  <2>1. [n \in 0..m |-> c[n]] \in [0..m -> Seq(Nat)]
    BY <1>11
  <2>2. QED
    BY <1>7, <2>1, Zenon
<1>13. c[0] = <<>> /\ \A n \in 1..m : c[n] = Squeeze(c[n - 1], s[n])
  BY <1>0, <1>7
<1>14. IsSqueezing(c, s)
  BY <1>12, <1>13 DEF IsSqueezing
<1>15. QED
  BY <1>6, <1>14

LEMMA SqueezedIs ==
    ASSUME NEW s \in Seq(Nat)
    PROVE  Squeezed(s) \in Seq(Nat)
<1>1. PICK k : IsSqueezing(k, s) /\ Squeezed(s) = k[Len(s)]
  BY SqueezingExists
<1>2. Len(s) \in 0..Len(s)
  BY LenProperties
<1>3. QED
  BY <1>1, <1>2 DEF IsSqueezing

LEMMA FlatText ==
    ASSUME NEW q \in Seq(Seq(Nat))
    PROVE  FlattenSeq(q) \in Seq(Nat)
<1>0. Len(q) \in Nat /\ \A i \in 1..Len(q) : q[i] \in Seq(Nat)
  BY LenProperties, ElementOfSeq
<1>1. CASE q = <<>>
  <2>1. FlattenSeq(q) = <<>>
    BY <1>1 DEF FlattenSeq
  <2>2. QED
    BY <2>1, EmptySeq
<1>2. CASE q # <<>>
  <2>1. PICK f : /\ FlattenSeq(q) = f[Len(q)] /\ f[1] = q[1]
                 /\ \A i \in 2..Len(q) : f[i] = f[i - 1] \o q[i]
    BY <1>2, FlattenIs
  <2> DEFINE Good == {n \in Nat : n + 1 \in 1..Len(q) => f[n + 1] \in Seq(Nat)}
  <2>2. 0 \in Good
    BY <1>0, <2>1
  <2>3. ASSUME NEW n \in Nat, n \in Good PROVE n + 1 \in Good
    <3>1. SUFFICES ASSUME (n + 1) + 1 \in 1..Len(q) PROVE f[(n + 1) + 1] \in Seq(Nat)
      OBVIOUS
    <3>2. (n + 1) + 1 \in 2..Len(q) /\ n + 1 \in 1..Len(q) /\ ((n + 1) + 1) - 1 = n + 1
      BY <1>0, <3>1
    <3>3. f[(n + 1) + 1] = f[n + 1] \o q[(n + 1) + 1]
      BY <2>1, <3>2
    <3>4. f[n + 1] \in Seq(Nat) /\ q[(n + 1) + 1] \in Seq(Nat)
      BY <1>0, <2>3, <3>1, <3>2
    <3>5. QED
      BY <3>3, <3>4, ConcatProperties
  <2>4. Nat \subseteq Good
    <3> HIDE DEF Good
    <3>1. QED
      BY <2>2, <2>3, AllNumbers
  <2>5. Len(q) # 0 /\ Len(q) - 1 \in Nat /\ (Len(q) - 1) + 1 = Len(q)
    BY <1>0, <1>2, EmptySeq
  <2>6. Len(q) - 1 \in Good
    BY <2>4, <2>5
  <2>7. QED
    BY <1>0, <2>1, <2>5, <2>6
<1>3. QED
  BY <1>1, <1>2

PageInv == page \in Seq(Pieces)

LEMMA TextIs ==
    ASSUME NEW piece \in Pieces
    PROVE  TextOf(piece) \in Seq(Nat)
<1>1. <<Break>> \in Seq(Nat) /\ <<Space>> \in Seq(Nat)
  BY DEF Break, Space
<1>2. piece.kind = "text" => piece.chars \in Shown \cup Gaps
  BY DEF Pieces
<1>3. piece.kind = "title" => piece.chars \in Tagged
  BY DEF Pieces
<1>4. Tagged \subseteq Shown
  BY InputConstantsOK DEF InputsOK
<1>5. piece.kind \in {"text", "title"} => piece.chars \in Seq(Nat)
  BY <1>2, <1>3, <1>4, PiecesAreTexts
<1>6. piece.kind = "title" => <<Space>> \o piece.chars \o <<Space>> \in Seq(Nat)
  BY <1>1, <1>5, ConcatProperties
<1>7. QED
  BY <1>1, <1>5, <1>6, Zenon DEF TextOf

LEMMA PageText ==
    ASSUME PageInv
    PROVE  StripHtmlToVisibleText(page) \in Seq(Nat)
<1> DEFINE q == [i \in DOMAIN page |-> TextOf(page[i])]
           t == Squeezed(FlattenSeq(q))
<1>1. Len(page) \in Nat /\ DOMAIN page = 1..Len(page) /\ \A i \in 1..Len(page) : page[i] \in Pieces
  BY LenProperties, ElementOfSeq DEF PageInv
<1>2. q \in [1..Len(page) -> Seq(Nat)]
  BY <1>1, TextIs
<1>3. q \in Seq(Seq(Nat))
  BY <1>1, <1>2, SeqDef
<1> HIDE DEF q
<1>4. t \in Seq(Nat)
  BY <1>3, FlatText, SqueezedIs
<1> HIDE DEF t
<1>5. t # <<>> => Front(t) \in Seq(Nat)
  <2>1. Len(t) \in Nat /\ (t # <<>> => Len(t) # 0) /\ \A i \in 1..Len(t) : t[i] \in Nat
    BY <1>4, LenProperties, EmptySeq, ElementOfSeq
  <2>2. QED
    BY <1>4, <2>1, SubSeqProperties DEF Front
<1>6. QED
  BY <1>4, <1>5 DEF StripHtmlToVisibleText, t, q

-----------------------------------------------------------------------------
(* The candidates of a text.                                               *)

FoundIn(t) == { Candidate(t, p, MatchEnd(t, p)) : p \in {p \in 1..Len(t) : MatchEnd(t, p) # 0} }

\* What is found from p on, given what is found from the later positions on.
FromOn(f, t, p) ==
    IF p = Len(t) + 1 THEN <<>>
    ELSE LET end == MatchEnd(t, p)
         IN IF end = 0 THEN f[p + 1] ELSE <<Candidate(t, p, end)>> \o f[end]

IsScan(f, t, first) ==
    /\ f \in [first..(Len(t) + 1) -> Seq(FoundIn(t))]
    /\ \A p \in first..(Len(t) + 1) : f[p] = FromOn(f, t, p)

LEMMA FromOnIs ==
    ASSUME NEW t \in Seq(Nat), NEW p \in 1..(Len(t) + 1), NEW f, NEW g,
           \A i \in (p + 1)..(Len(t) + 1) : f[i] \in Seq(FoundIn(t)) /\ g[i] = f[i]
    PROVE  FromOn(f, t, p) \in Seq(FoundIn(t)) /\ FromOn(g, t, p) = FromOn(f, t, p)
<1>0. Len(t) \in Nat /\ <<>> \in Seq(FoundIn(t))
  BY LenProperties, EmptySeq
<1>1. CASE p = Len(t) + 1
  BY <1>0, <1>1 DEF FromOn
<1>2. CASE p # Len(t) + 1 /\ MatchEnd(t, p) = 0
  <2>1. p + 1 \in (p + 1)..(Len(t) + 1)
    BY <1>0, <1>2
  <2>2. QED
    BY <1>2, <2>1 DEF FromOn
<1>3. CASE p # Len(t) + 1 /\ MatchEnd(t, p) # 0
  <2> DEFINE e == MatchEnd(t, p)
             c == Candidate(t, p, e)
  <2>1. p \in 1..Len(t)
    BY <1>0, <1>3
  <2>2. e \in (p + 1)..(Len(t) + 1)
    BY <1>3, <2>1, MatchEndIs
  <2>3. c \in FoundIn(t)
    BY <1>3, <2>1 DEF FoundIn
  <2>4. FromOn(f, t, p) = <<c>> \o f[e] /\ FromOn(g, t, p) = <<c>> \o g[e]
    BY <1>3 DEF FromOn
  <2> HIDE DEF e, c
  <2>5. f[e] \in Seq(FoundIn(t)) /\ g[e] = f[e]
    BY <2>2
  <2>6. <<c>> \in Seq(FoundIn(t))
    BY <2>3
  <2>7. <<c>> \o f[e] \in Seq(FoundIn(t))
    BY <2>5, <2>6, ConcatProperties
  <2>8. QED
    BY <2>4, <2>5, <2>7
<1>4. QED
  BY <1>1, <1>2, <1>3

LEMMA ScanExists ==
    ASSUME NEW t \in Seq(Nat)
    PROVE  \E f : IsScan(f, t, 1)
<1> DEFINE L == Len(t)
           Good == {m \in Nat : m <= L => \E f : IsScan(f, t, (L + 1) - m)}
<1>0. L \in Nat
  BY LenProperties
<1>1. 0 \in Good
  <2> DEFINE f == [p \in (L + 1)..(L + 1) |-> <<>>]
  <2>1. f \in [(L + 1)..(L + 1) -> Seq(FoundIn(t))]
    BY EmptySeq
  <2>2. \A p \in (L + 1)..(L + 1) : f[p] = FromOn(f, t, p)
    BY <1>0 DEF FromOn
  <2>3. IsScan(f, t, L + 1) /\ (L + 1) - 0 = L + 1
    <3> HIDE DEF f
    <3>1. QED
      BY <1>0, <2>1, <2>2 DEF IsScan
  <2>4. QED
    BY <2>3
<1>2. ASSUME NEW m \in Nat, m \in Good PROVE m + 1 \in Good
  <2> SUFFICES ASSUME m + 1 <= L PROVE \E f : IsScan(f, t, (L + 1) - (m + 1))
    OBVIOUS
  <2>1. m <= L
    BY <1>0
  <2>2. PICK f : IsScan(f, t, (L + 1) - m)
    BY <1>2, <2>1
  <2>b. (L + 1) - (m + 1) \in 1..L /\ ((L + 1) - (m + 1)) + 1 = (L + 1) - m
    BY <1>0
  <2>a. PICK p \in 1..L : p = (L + 1) - (m + 1) /\ p + 1 = (L + 1) - m
    <3> HIDE DEF L
    <3>1. QED
      BY <2>b, Zenon
  <2>3. /\ f \in [(p + 1)..(L + 1) -> Seq(FoundIn(t))]
        /\ \A i \in (p + 1)..(L + 1) : f[i] = FromOn(f, t, i)
    BY <2>2, <2>a DEF IsScan
  <2> DEFINE e == FromOn(f, t, p)
             g == [i \in p..(L + 1) |-> IF i = p THEN e ELSE f[i]]
  <2>4. p \in 1..(L + 1) /\ \A i \in p..(L + 1) : i \in 1..(L + 1) /\ (i # p => i \in (p + 1)..(L + 1))
    BY <1>0
  <2>5. e \in Seq(FoundIn(t))
    BY <2>3, <2>4, FromOnIs
  <2>6. g[p] = e /\ \A i \in (p + 1)..(L + 1) : g[i] = f[i]
    BY <1>0
  <2>7. g \in [p..(L + 1) -> Seq(FoundIn(t))]
    <3> HIDE DEF e
    <3>1. QED
      BY <2>3, <2>4, <2>5
  <2> HIDE DEF g
  <2>8. ASSUME NEW i \in p..(L + 1) PROVE g[i] = FromOn(g, t, i)
    <3>1. FromOn(g, t, i) = FromOn(f, t, i)
      <4>1. \A j \in (i + 1)..(L + 1) : j \in (p + 1)..(L + 1)
        BY <1>0
      <4>2. \A j \in (i + 1)..(L + 1) : f[j] \in Seq(FoundIn(t)) /\ g[j] = f[j]
        BY <2>3, <2>6, <4>1
      <4>3. i \in 1..(L + 1)
        BY <2>4
      <4>4. QED
        BY <4>2, <4>3, FromOnIs
    <3>2. g[i] = FromOn(f, t, i)
      <4>1. CASE i = p
        BY <2>6, <4>1
      <4>2. CASE i # p
        <5>1. i \in (p + 1)..(L + 1)
          BY <2>4, <4>2
        <5>2. QED
          BY <2>3, <2>6, <5>1
      <4>3. QED
        BY <4>1, <4>2
    <3>3. QED
      BY <3>1, <3>2
  <2>9. IsScan(g, t, p)
    BY <2>7, <2>8 DEF IsScan
  <2>10. QED
    BY <2>9, <2>a
<1>3. Nat \subseteq Good
  <2> HIDE DEF Good
  <2>1. QED
    BY <1>1, <1>2, AllNumbers
<1>4. L \in Good /\ L <= L /\ (L + 1) - L = 1
  BY <1>0, <1>3
<1>5. QED
  BY <1>4

LEMMA ExtractionScans ==
    ASSUME NEW t \in Seq(Nat)
    PROVE  \E f : IsScan(f, t, 1) /\ ExtractFromText(t) = f[1]
<1> DEFINE L == Len(t)
           Is(f) == f = [p \in 1..(L + 1) |->
                           IF p = L + 1 THEN <<>>
                           ELSE LET end == MatchEnd(t, p)
                                IN IF end = 0 THEN f[p + 1]
                                   ELSE <<Candidate(t, p, end)>> \o f[end]]
           c == CHOOSE f : Is(f)
<1>0. L \in Nat
  BY LenProperties
<1>1. PICK f : IsScan(f, t, 1)
  BY ScanExists
<1>2. Is(f)
  <2>1. f = [p \in 1..(L + 1) |-> f[p]]
    BY <1>1 DEF IsScan
  <2>2. \A p \in 1..(L + 1) : f[p] = FromOn(f, t, p)
    BY <1>1 DEF IsScan
  <2>3. f = [p \in 1..(L + 1) |-> FromOn(f, t, p)]
    BY <2>1, <2>2, Zenon
  <2>4. QED
    BY <2>3, Zenon DEF FromOn
<1>3. Is(c)
  <2>1. \E k : Is(k)
    <3> HIDE DEF Is
    <3>1. QED
      BY <1>2
  <2> HIDE DEF Is
  <2>2. QED
    BY <2>1
<1>4. ExtractFromText(t) = c[1]
  BY Zenon DEF ExtractFromText
<1> HIDE DEF c
<1>5. c = [p \in 1..(L + 1) |-> FromOn(c, t, p)]
  BY <1>3, Zenon DEF FromOn
<1>6. \A p \in 1..(L + 1) : c[p] = FromOn(c, t, p)
  BY <1>5, Zenon
<1> HIDE DEF Is
<1> DEFINE Good == {m \in Nat : m <= L => \A p \in ((L + 1) - m)..(L + 1) : c[p] \in Seq(FoundIn(t))}
<1>7. 0 \in Good
  <2>1. \A p \in ((L + 1) - 0)..(L + 1) : p = L + 1 /\ p \in 1..(L + 1)
    BY <1>0
  <2>2. FromOn(c, t, L + 1) = <<>>
    BY DEF FromOn
  <2>3. <<>> \in Seq(FoundIn(t))
    BY EmptySeq
  <2>4. QED
    BY <1>6, <2>1, <2>2, <2>3
<1>8. ASSUME NEW m \in Nat, m \in Good PROVE m + 1 \in Good
  <2> SUFFICES ASSUME m + 1 <= L, NEW p \in ((L + 1) - (m + 1))..(L + 1)
               PROVE  c[p] \in Seq(FoundIn(t))
    OBVIOUS
  <2>1. \A i \in (p + 1)..(L + 1) : i \in ((L + 1) - m)..(L + 1)
    BY <1>0
  <2>2. m <= L /\ p \in 1..(L + 1)
    BY <1>0
  <2>3. \A i \in (p + 1)..(L + 1) : c[i] \in Seq(FoundIn(t)) /\ c[i] = c[i]
    BY <1>8, <2>1, <2>2
  <2>4. FromOn(c, t, p) \in Seq(FoundIn(t))
    BY <2>2, <2>3, FromOnIs
  <2>5. QED
    BY <1>6, <2>2, <2>4
<1>9. Nat \subseteq Good
  <2> HIDE DEF Good
  <2>1. QED
    BY <1>7, <1>8, AllNumbers
<1>10. \A p \in 1..(L + 1) : c[p] \in Seq(FoundIn(t))
  <2>1. L \in Good /\ L <= L /\ (L + 1) - L = 1
    BY <1>0, <1>9
  <2>2. QED
    BY <2>1
<1>11. c = [p \in 1..(L + 1) |-> c[p]]
  BY <1>5, <1>6, Zenon
<1>12. IsScan(c, t, 1)
  BY <1>6, <1>10, <1>11 DEF IsScan
<1>13. QED
  BY <1>4, <1>12

\* Everything extracted is the candidate of a match.
LEMMA ExtractedAreFound ==
    ASSUME NEW t \in Seq(Nat)
    PROVE  ExtractFromText(t) \in Seq(FoundIn(t))
<1>1. PICK f : IsScan(f, t, 1) /\ ExtractFromText(t) = f[1]
  BY ExtractionScans
<1>2. 1 \in 1..(Len(t) + 1)
  BY LenProperties
<1>3. QED
  BY <1>1, <1>2 DEF IsScan

-----------------------------------------------------------------------------
(* The words around a candidate.                                           *)

\* c is the last part of s that holds no line break.
LEMMA ClampBeforeIs ==
    ASSUME NEW s \in Seq(Nat), s # <<>>
    PROVE  LET c == ClampBefore(s)
           IN /\ c \in Seq(Nat) /\ Len(c) <= Len(s)
              /\ c # <<>> => c = SubSeq(s, (Len(s) - Len(c)) + 1, Len(s))
              /\ Break \notin Range(c)
              /\ c = <<>> => s[Len(s)] = Break
<1> DEFINE n == Len(s)
           cut == { i \in DOMAIN s : s[i] = Break }
           c == ClampBefore(s)
<1>0. n \in Nat /\ n # 0 /\ DOMAIN s = 1..n /\ \A i \in 1..n : s[i] \in Nat
  BY LenProperties, EmptySeq, ElementOfSeq
<1>1. CASE cut = {}
  <2>1. c = s
    BY <1>1 DEF ClampBefore
  <2>2. Break \notin Range(s)
    BY <1>1 DEF Range
  <2>3. SubSeq(s, (n - n) + 1, n) = s
    <3>1. (n - n) + 1 = 1
      BY <1>0
    <3>2. QED
      BY <3>1, SubSeqFull
  <2>4. QED
    BY <1>0, <2>1, <2>2, <2>3
<1>2. CASE cut # {}
  <2>1. cut \in SUBSET (0..n) /\ cut \in SUBSET Nat
    BY <1>0
  <2>2. PICK g \in cut : \A k \in cut : k <= g
    <3> HIDE DEF cut
    <3>1. QED
      BY <1>0, <1>2, <2>1, Greatest
  <2>3. Max(cut) = g
    <3> HIDE DEF cut
    <3>1. QED
      BY <2>1, <2>2, MaxIs
  <2>4. c = SubSeq(s, g + 1, n)
    BY <1>2, <2>3 DEF ClampBefore
  <2>5. g \in 1..n /\ s[g] = Break
    BY <1>0, <2>2
  <2>6. /\ c \in Seq(Nat)
        /\ Len(c) = IF g + 1 <= n THEN n - (g + 1) + 1 ELSE 0
        /\ \A i \in 1..(n - (g + 1) + 1) : c[i] = s[g + 1 + i - 1]
    <3>1. \A i \in (g + 1)..n : s[i] \in Nat
      BY <1>0, <2>5
    <3>2. g + 1 \in Int /\ n \in Int
      BY <1>0, <2>5
    <3> HIDE DEF c, n
    <3>3. QED
      BY <2>4, <3>1, <3>2, SubSeqProperties
  <2> HIDE DEF c, n
  <2>7. Len(c) = n - g
    BY <1>0, <2>5, <2>6
  <2>8. Break \notin Range(c)
    <3> SUFFICES ASSUME NEW i \in 1..Len(c), c[i] = Break PROVE FALSE
      BY <2>6, LenProperties DEF Range
    <3>1. i \in 1..(n - (g + 1) + 1) /\ g + i \in 1..n /\ g + 1 + i - 1 = g + i /\ ~(g + i <= g)
      BY <1>0, <2>5, <2>7
    <3>2. s[g + i] = Break
      BY <2>6, <3>1
    <3>3. g + i \in cut
      BY <1>0, <3>1, <3>2
    <3>4. QED
      BY <2>2, <3>1, <3>3
  <2>9. (n - Len(c)) + 1 = g + 1
    BY <1>0, <2>5, <2>7
  <2>10. c = <<>> => s[n] = Break
    <3> SUFFICES ASSUME c = <<>> PROVE s[n] = Break
      OBVIOUS
    <3>1. Len(c) = 0
      OBVIOUS
    <3>2. g = n
      BY <1>0, <2>5, <2>7, <3>1
    <3>3. QED
      BY <2>5, <3>2
  <2>11. Len(c) <= n
    BY <1>0, <2>5, <2>7
  <2>12. QED
    BY <2>4, <2>6, <2>8, <2>9, <2>10, <2>11 DEF c, n
<1>3. QED
  BY <1>1, <1>2

LEMMA ClampAfterIs ==
    ASSUME NEW s \in Seq(Nat), s # <<>>
    PROVE  LET c == ClampAfter(s)
           IN /\ c \in Seq(Nat) /\ Len(c) <= Len(s)
              /\ c # <<>> => c = SubSeq(s, 1, Len(c))
              /\ Break \notin Range(c)
              /\ c = <<>> => s[1] = Break
<1> DEFINE n == Len(s)
           cut == { i \in DOMAIN s : s[i] = Break }
           c == ClampAfter(s)
<1>0. n \in Nat /\ n # 0 /\ DOMAIN s = 1..n /\ \A i \in 1..n : s[i] \in Nat
  BY LenProperties, EmptySeq, ElementOfSeq
<1>1. CASE cut = {}
  <2>1. c = s
    BY <1>1 DEF ClampAfter
  <2>2. Break \notin Range(s)
    BY <1>1 DEF Range
  <2>3. QED
    BY <1>0, <2>1, <2>2, SubSeqFull
<1>2. CASE cut # {}
  <2>1. cut \in SUBSET Nat
    BY <1>0
  <2>2. PICK g \in cut : \A k \in cut : g <= k
    <3> HIDE DEF cut
    <3>1. QED
      BY <1>2, <2>1, Least
  <2>3. Min(cut) = g
    <3> HIDE DEF cut
    <3>1. QED
      BY <2>1, <2>2, LeastIs
  <2>4. c = SubSeq(s, 1, g - 1)
    BY <1>2, <2>3 DEF ClampAfter
  <2>5. g \in 1..n /\ s[g] = Break
    BY <1>0, <2>2
  <2>6. /\ c \in Seq(Nat)
        /\ Len(c) = IF 1 <= g - 1 THEN g - 1 - 1 + 1 ELSE 0
        /\ \A i \in 1..(g - 1 - 1 + 1) : c[i] = s[1 + i - 1]
    <3>1. \A i \in 1..(g - 1) : s[i] \in Nat
      BY <1>0, <2>5
    <3>2. g - 1 \in Int /\ 1 \in Int
      BY <1>0, <2>5
    <3> HIDE DEF c, n
    <3>3. QED
      BY <2>4, <3>1, <3>2, SubSeqProperties
  <2> HIDE DEF c, n
  <2>7. Len(c) = g - 1
    BY <1>0, <2>5, <2>6
  <2>8. Break \notin Range(c)
    <3> SUFFICES ASSUME NEW i \in 1..Len(c), c[i] = Break PROVE FALSE
      BY <2>6, LenProperties DEF Range
    <3>1. i \in 1..(g - 1 - 1 + 1) /\ i \in 1..n /\ 1 + i - 1 = i /\ ~(g <= i)
      BY <1>0, <2>5, <2>7
    <3>2. s[i] = Break
      BY <2>6, <3>1
    <3>3. i \in cut
      BY <1>0, <3>1, <3>2
    <3>4. QED
      BY <2>2, <3>1, <3>3
  <2>10. c = <<>> => s[1] = Break
    <3> SUFFICES ASSUME c = <<>> PROVE s[1] = Break
      OBVIOUS
    <3>1. Len(c) = 0
      OBVIOUS
    <3>2. g = 1
      BY <1>0, <2>5, <2>7, <3>1
    <3>3. QED
      BY <2>5, <3>2
  <2>11. Len(c) <= n
    BY <1>0, <2>5, <2>7
  <2>12. QED
    BY <2>4, <2>6, <2>7, <2>8, <2>10, <2>11 DEF c, n
<1>3. QED
  BY <1>1, <1>2

LEMMA PartOfText ==
    ASSUME NEW t \in Seq(Nat), NEW a \in 1..Len(t), NEW b \in a..Len(t)
    PROVE  /\ SubSeq(t, a, b) \in Seq(Nat) /\ SubSeq(t, a, b) # <<>>
           /\ Len(SubSeq(t, a, b)) = (b - a) + 1
           /\ \A i \in 1..((b - a) + 1) : SubSeq(t, a, b)[i] = t[(a + i) - 1]
<1>0. Len(t) \in Nat /\ \A i \in a..b : t[i] \in Nat
  <2>1. Len(t) \in Nat /\ \A i \in 1..Len(t) : t[i] \in Nat
    BY LenProperties, ElementOfSeq
  <2>2. \A i \in a..b : i \in 1..Len(t)
    BY <2>1
  <2>3. QED
    BY <2>1, <2>2
<1>1. a \in Int /\ b \in Int
  BY <1>0
<1> DEFINE s == SubSeq(t, a, b)
<1>2. /\ s \in Seq(Nat)
      /\ Len(s) = IF a <= b THEN b - a + 1 ELSE 0
      /\ \A i \in 1..(b - a + 1) : s[i] = t[a + i - 1]
  BY <1>0, <1>1, SubSeqProperties
<1> HIDE DEF s
<1>3. Len(s) = (b - a) + 1 /\ Len(s) # 0
  BY <1>0, <1>2
<1>4. s # <<>>
  BY <1>3
<1>5. ASSUME NEW i \in 1..((b - a) + 1) PROVE s[i] = t[(a + i) - 1]
  <2>1. b - a + 1 = (b - a) + 1 /\ a + i - 1 = (a + i) - 1
    BY <1>0
  <2>2. QED
    BY <1>2, <2>1
<1>6. QED
  BY <1>2, <1>3, <1>4, <1>5 DEF s

LEMMA ParagraphBefore ==
    ASSUME NEW t \in Seq(Nat), NEW a \in 1..Len(t), NEW j \in a..Len(t)
    PROVE  LET c == ClampBefore(SubSeq(t, a, j))
           IN /\ c \in Seq(Nat)
              /\ c # <<>> => c = SubSeq(t, (j + 1) - Len(c), j)
              /\ Break \notin Range(c)
              /\ c = <<>> => t[j] = Break
<1> DEFINE s == SubSeq(t, a, j)
           c == ClampBefore(s)
<1>0. Len(t) \in Nat
  BY LenProperties
<1>1. /\ s \in Seq(Nat) /\ s # <<>> /\ Len(s) = (j - a) + 1
      /\ \A i \in 1..((j - a) + 1) : s[i] = t[(a + i) - 1]
  BY PartOfText
<1> HIDE DEF s
<1>2. /\ c \in Seq(Nat) /\ Len(c) <= Len(s)
      /\ c # <<>> => c = SubSeq(s, (Len(s) - Len(c)) + 1, Len(s))
      /\ Break \notin Range(c)
      /\ c = <<>> => s[Len(s)] = Break
  BY <1>1, ClampBeforeIs
<1> HIDE DEF c
<1>3. c = <<>> => t[j] = Break
  <2>1. Len(s) \in 1..((j - a) + 1) /\ (a + Len(s)) - 1 = j
    BY <1>0, <1>1
  <2>2. QED
    BY <1>1, <1>2, <2>1
<1>4. ASSUME c # <<>> PROVE c = SubSeq(t, (j + 1) - Len(c), j)
  <2>1. Len(c) \in Nat /\ Len(c) # 0
    BY <1>2, <1>4, LenProperties, EmptySeq
  <2> DEFINE m == (Len(s) - Len(c)) + 1
             k == Len(s)
  <2>2. /\ m \in 1..j-a+1 /\ k \in 1..j-a+1
        /\ a + m - 1 = (j + 1) - Len(c) /\ a + k - 1 = j
        /\ j \in 1..Len(t)
    BY <1>0, <1>1, <1>2, <2>1, SMTT(30)
  <2>3. c = SubSeq(s, m, k)
    BY <1>2, <1>4
  <2> HIDE DEF m, k
  <2>4. SubSeq(SubSeq(t, a, j), m, k) = SubSeq(t, a + m - 1, a + k - 1)
    BY <2>2, SubSeqOfSubSeq
  <2>5. QED
    BY <2>2, <2>3, <2>4 DEF s
<1>5. QED
  BY <1>2, <1>3, <1>4 DEF c, s

LEMMA ParagraphAfter ==
    ASSUME NEW t \in Seq(Nat), NEW e \in 1..Len(t), NEW b \in e..Len(t)
    PROVE  LET c == ClampAfter(SubSeq(t, e, b))
           IN /\ c \in Seq(Nat)
              /\ c # <<>> => c = SubSeq(t, e, (e + Len(c)) - 1)
              /\ Break \notin Range(c)
              /\ c = <<>> => t[e] = Break
<1> DEFINE s == SubSeq(t, e, b)
           c == ClampAfter(s)
<1>0. Len(t) \in Nat
  BY LenProperties
<1>1. /\ s \in Seq(Nat) /\ s # <<>> /\ Len(s) = (b - e) + 1
      /\ \A i \in 1..((b - e) + 1) : s[i] = t[(e + i) - 1]
  BY PartOfText
<1> HIDE DEF s
<1>2. /\ c \in Seq(Nat) /\ Len(c) <= Len(s)
      /\ c # <<>> => c = SubSeq(s, 1, Len(c))
      /\ Break \notin Range(c)
      /\ c = <<>> => s[1] = Break
  BY <1>1, ClampAfterIs
<1> HIDE DEF c
<1>3. c = <<>> => t[e] = Break
  <2>1. 1 \in 1..((b - e) + 1) /\ (e + 1) - 1 = e
    BY <1>0
  <2>2. QED
    BY <1>1, <1>2, <2>1
<1>4. ASSUME c # <<>> PROVE c = SubSeq(t, e, (e + Len(c)) - 1)
  <2>1. Len(c) \in Nat /\ Len(c) # 0
    BY <1>2, <1>4, LenProperties, EmptySeq
  <2> DEFINE k == Len(c)
  <2>2. /\ 1 \in 1..b-e+1 /\ k \in 1..b-e+1
        /\ e + 1 - 1 = e /\ e + k - 1 = (e + k) - 1
        /\ b \in 1..Len(t)
    BY <1>0, <1>1, <1>2, <2>1
  <2>3. c = SubSeq(s, 1, k)
    BY <1>2, <1>4
  <2> HIDE DEF k
  <2>4. SubSeq(SubSeq(t, e, b), 1, k) = SubSeq(t, e + 1 - 1, e + k - 1)
    BY <2>2, SubSeqOfSubSeq
  <2>5. QED
    BY <2>2, <2>3, <2>4 DEF s, k
<1>5. QED
  BY <1>2, <1>3, <1>4 DEF c, s

LEMMA NearestOf ==
    ASSUME NEW x \in Int, NEW y \in Int
    PROVE  /\ Max({x, y}) = IF x <= y THEN y ELSE x
           /\ Min({x, y}) = IF x <= y THEN x ELSE y
<1>1. ASSUME NEW S, S = {x, y}, NEW m \in S, \A k \in S : k <= m
      PROVE  Max(S) = m
  <2>1. S \subseteq Int
    BY <1>1
  <2>2. \A k \in S : m >= k
    BY <1>1, <2>1
  <2>3. \A n \in S : (\A k \in S : n >= k) => n = m
    BY <1>1, <2>1
  <2>4. QED
    BY <2>2, <2>3 DEF Max
<1>2. ASSUME NEW S, S = {x, y}, NEW m \in S, \A k \in S : m <= k
      PROVE  Min(S) = m
  <2>1. S \subseteq Int
    BY <1>2
  <2>3. \A n \in S : (\A k \in S : n <= k) => n = m
    BY <1>2, <2>1
  <2>4. QED
    BY <1>2, <2>3 DEF Min
<1>3. CASE x <= y
  <2>1. Max({x, y}) = y
    BY <1>1, <1>3
  <2>2. Min({x, y}) = x
    BY <1>2, <1>3
  <2>3. QED
    BY <1>3, <2>1, <2>2
<1>4. CASE ~(x <= y)
  <2>1. Max({x, y}) = x
    BY <1>1, <1>4
  <2>2. Min({x, y}) = y
    BY <1>2, <1>4
  <2>3. QED
    BY <1>4, <2>1, <2>2
<1>5. QED
  BY <1>3, <1>4

LEMMA BeforeIs ==
    ASSUME NEW t \in Seq(Nat), NEW p \in 1..Len(t)
    PROVE  LET b == Candidate(t, p, MatchEnd(t, p)).before
           IN /\ b # <<>> => b = SubSeq(t, p - Len(b), p - 1)
              /\ Break \notin Range(b)
              /\ b = <<>> /\ p > 1 => t[p - 1] = Break
<1> DEFINE a == Max({1, p - Window})
           b == ClampBefore(SubSeq(t, a, p - 1))
<1>0. Len(t) \in Nat /\ Window \in Nat \ {0}
  BY LenProperties, WindowOK
<1>1. Candidate(t, p, MatchEnd(t, p)).before = b
  BY DEF Candidate
<1>2. a = IF 1 <= p - Window THEN p - Window ELSE 1
  BY <1>0, NearestOf
<1> HIDE DEF a
<1>3. CASE p = 1
  <2>1. a = 1 /\ p - 1 = 0
    BY <1>0, <1>2, <1>3
  <2>2. SubSeq(t, a, p - 1) = <<>>
    BY <2>1, SubSeqEmpty
  <2>3. ClampBefore(<<>>) = <<>> /\ Range(<<>>) = {}
    BY DEF ClampBefore, Range
  <2>b. b = <<>> /\ Range(b) = {}
    BY <2>2, <2>3, Zenon
  <2>4. QED
    BY <1>1, <1>3, <2>b
<1>4. CASE p # 1
  <2>1. p - 1 \in 1..Len(t) /\ a \in 1..Len(t) /\ p - 1 \in a..Len(t) /\ (p - 1) + 1 = p
    BY <1>0, <1>2, <1>4
  <2>2. /\ b # <<>> => b = SubSeq(t, ((p - 1) + 1) - Len(b), p - 1)
        /\ Break \notin Range(b)
        /\ b = <<>> => t[p - 1] = Break
    <3> DEFINE j == p - 1
    <3>1. a \in 1..Len(t) /\ j \in a..Len(t)
      BY <2>1
    <3>2. b = ClampBefore(SubSeq(t, a, j))
      OBVIOUS
    <3> HIDE DEF b, j
    <3>3. /\ b # <<>> => b = SubSeq(t, (j + 1) - Len(b), j)
          /\ Break \notin Range(b)
          /\ b = <<>> => t[j] = Break
      BY <3>1, <3>2, ParagraphBefore
    <3>4. QED
      BY <3>3 DEF j
  <2> HIDE DEF b
  <2>3. QED
    BY <1>1, <2>1, <2>2
<1>5. QED
  BY <1>3, <1>4

LEMMA AfterIs ==
    ASSUME NEW t \in Seq(Nat), NEW p \in 1..Len(t), NEW e \in (p + 1)..(Len(t) + 1)
    PROVE  LET b == Candidate(t, p, e).after
           IN /\ b # <<>> => b = SubSeq(t, e, (e + Len(b)) - 1)
              /\ Break \notin Range(b)
              /\ b = <<>> /\ e <= Len(t) => t[e] = Break
<1> DEFINE a == Min({Len(t), e + Window - 1})
           b == ClampAfter(SubSeq(t, e, a))
<1>0. Len(t) \in Nat /\ Window \in Nat \ {0} /\ e \in Int
  BY LenProperties, WindowOK
<1>1. Candidate(t, p, e).after = b
  BY DEF Candidate
<1>2. a = IF Len(t) <= e + Window - 1 THEN Len(t) ELSE e + Window - 1
  <2>1. Len(t) \in Int /\ e + Window - 1 \in Int
    BY <1>0
  <2>2. QED
    BY <2>1, NearestOf
<1> HIDE DEF a
<1>3. CASE e = Len(t) + 1
  <2>1. a = Len(t) /\ a < e /\ a \in Int
    BY <1>0, <1>2, <1>3
  <2>2. SubSeq(t, e, a) = <<>>
    BY <1>0, <2>1, SubSeqEmpty
  <2>3. b = <<>> /\ Range(b) = {}
    BY <2>2 DEF ClampAfter, Range
  <2>4. QED
    BY <1>0, <1>1, <1>3, <2>3
<1>4. CASE e # Len(t) + 1
  <2>1. e \in 1..Len(t) /\ a \in e..Len(t)
    BY <1>0, <1>2, <1>4
  <2>2. /\ b # <<>> => b = SubSeq(t, e, (e + Len(b)) - 1)
        /\ Break \notin Range(b)
        /\ b = <<>> => t[e] = Break
    <3>1. b = ClampAfter(SubSeq(t, e, a))
      OBVIOUS
    <3> HIDE DEF b
    <3>2. QED
      BY <2>1, <3>1, ParagraphAfter
  <2> HIDE DEF b
  <2>3. QED
    BY <1>1, <2>2
<1>5. QED
  BY <1>3, <1>4

LEMMA ContextReads ==
    ASSUME PageInv
    PROVE  ContextOfParagraph
<1> DEFINE t == StripHtmlToVisibleText(page)
           found == FromBody(page)
<1>1. t \in Seq(Nat)
  BY PageText
<1>2. found = ExtractFromText(t)
  BY DEF FromBody
<1> HIDE DEF t
<1>3. found \in Seq(FoundIn(t))
  BY <1>1, <1>2, ExtractedAreFound
<1> HIDE DEF found
<1>4. ASSUME NEW k \in DOMAIN found
      PROVE  LET c == found[k]
                 inParagraph(s, i, j) == i <= j => s = SubSeq(t, i, j)
             IN /\ inParagraph(c.before, c.start - Len(c.before), c.start - 1)
                /\ inParagraph(c.after, c.end, c.end + Len(c.after) - 1)
                /\ Break \notin Range(c.before) \cup Range(c.after)
                /\ c.before = <<>> /\ c.start > 1 => t[c.start - 1] = Break
                /\ c.after = <<>> /\ c.end <= Len(t) => t[c.end] = Break
  <2>1. found[k] \in FoundIn(t)
    <3>1. k \in 1..Len(found)
      BY <1>3, LenProperties
    <3>2. QED
      BY <1>3, <3>1, ElementOfSeq
  <2>2. PICK p \in 1..Len(t) : MatchEnd(t, p) # 0 /\ found[k] = Candidate(t, p, MatchEnd(t, p))
    BY <2>1 DEF FoundIn
  <2>3. PICK e \in (p + 1)..(Len(t) + 1) : e = MatchEnd(t, p)
    BY <1>1, <2>2, MatchEndIs
  <2> DEFINE c == found[k]
             b == c.before
             d == c.after
  <2>4. c.start = p /\ c.end = e /\ c = Candidate(t, p, e)
    BY <2>2, <2>3 DEF Candidate
  <2>5. /\ b # <<>> => b = SubSeq(t, p - Len(b), p - 1)
        /\ Break \notin Range(b)
        /\ b = <<>> /\ p > 1 => t[p - 1] = Break
    BY <1>1, <2>2, BeforeIs
  <2>6. /\ d # <<>> => d = SubSeq(t, e, (e + Len(d)) - 1)
        /\ Break \notin Range(d)
        /\ d = <<>> /\ e <= Len(t) => t[e] = Break
    <3>1. d = Candidate(t, p, e).after
      BY <2>4
    <3> HIDE DEF d
    <3>2. QED
      BY <1>1, <3>1, AfterIs
  <2> HIDE DEF b, d
  <2>7. p - Len(b) <= p - 1 => b # <<>>
    <3> SUFFICES ASSUME b = <<>> PROVE ~(p - Len(b) <= p - 1)
      OBVIOUS
    <3>1. Len(b) = 0 /\ p \in Int
      BY <1>1, LenProperties
    <3>2. QED
      BY <3>1
  <2>8. e <= e + Len(d) - 1 => d # <<>>
    <3> SUFFICES ASSUME d = <<>> PROVE ~(e <= e + Len(d) - 1)
      OBVIOUS
    <3>1. Len(d) = 0 /\ e \in Int
      BY <1>1, LenProperties
    <3>2. QED
      BY <3>1
  <2>9. d # <<>> => e + Len(d) - 1 = (e + Len(d)) - 1
    <3>1. SUFFICES e + Len(d) - 1 = (e + Len(d)) - 1
      OBVIOUS
    <3>2. QED
      OBVIOUS
  <2>10. QED
    BY <2>4, <2>5, <2>6, <2>7, <2>8, <2>9 DEF b, d
<1>5. QED
  BY <1>4 DEF ContextOfParagraph, t, found

-----------------------------------------------------------------------------
(* Two texts with a common beginning after which no unit goes on.          *)

\* No unit of t begins within its first k characters and ends after them.
StopsAt(t, k) ==
    /\ k + 1 \in DOMAIN t => t[k + 1] \notin Digit
    /\ k + 2 \in DOMAIN t => ~(t[k + 1] \in Separators /\ t[k + 2] \in Digit)

AlikeUpTo(t, u, k) ==
    /\ k \in Nat /\ k <= Len(t) /\ k <= Len(u) /\ \A i \in 1..k : t[i] = u[i]
    /\ StopsAt(t, k) /\ StopsAt(u, k)

LEMMA SeparatorIsNoDigit == \A c \in Separators : c \notin Digit
BY DEF Separators, Digit, Space, Break, Dot, Dash

LEMMA AlikeBothWays ==
    ASSUME NEW t, NEW u, NEW k, AlikeUpTo(t, u, k)
    PROVE  AlikeUpTo(u, t, k)
BY DEF AlikeUpTo

LEMMA UnitsBegin ==
    ASSUME NEW t \in Seq(Nat), NEW u \in Seq(Nat), NEW k, AlikeUpTo(t, u, k),
           NEW p \in 1..(k + 1), AfterUnit(t, p) # 0
    PROVE  AfterUnit(u, p) = AfterUnit(t, p) /\ AfterUnit(t, p) \in 1..(k + 1)
<1>0. /\ Len(t) \in Nat /\ Len(u) \in Nat /\ DOMAIN t = 1..Len(t) /\ DOMAIN u = 1..Len(u)
      /\ k \in Nat /\ k <= Len(t) /\ k <= Len(u) /\ \A i \in 1..k : t[i] = u[i]
      /\ StopsAt(t, k)
  BY LenProperties DEF AlikeUpTo
<1>1. CASE p \in DOMAIN t /\ t[p] \in Digit
  <2>1. p # k + 1
    BY <1>0, <1>1 DEF StopsAt
  <2>2. p \in 1..k /\ p \in DOMAIN u
    BY <1>0, <2>1
  <2>3. u[p] = t[p]
    BY <1>0, <2>2
  <2>4. AfterUnit(t, p) = p + 1 /\ AfterUnit(u, p) = p + 1
    BY <1>1, <2>2, <2>3 DEF AfterUnit
  <2>5. QED
    BY <1>0, <2>2, <2>4
<1>2. CASE ~(p \in DOMAIN t /\ t[p] \in Digit)
  <2>1. /\ p + 1 \in DOMAIN t /\ t[p] \in Separators /\ t[p + 1] \in Digit
        /\ AfterUnit(t, p) = p + 2
    BY <1>2 DEF AfterUnit
  <2>2. p # k + 1
    <3>1. SUFFICES ASSUME p = k + 1 PROVE FALSE
      OBVIOUS
    <3>2. p + 1 = k + 2
      BY <1>0, <3>1
    <3>3. QED
      BY <1>0, <2>1, <3>1, <3>2 DEF StopsAt
  <2>3. p # k
    BY <1>0, <2>1 DEF StopsAt
  <2>4. p \in 1..k /\ p + 1 \in 1..k /\ p + 1 \in DOMAIN u
    BY <1>0, <2>2, <2>3
  <2>5. u[p] = t[p] /\ u[p + 1] = t[p + 1]
    BY <1>0, <2>4
  <2>6. t[p] \notin Digit
    BY <2>1, SeparatorIsNoDigit
  <2>7. AfterUnit(u, p) = p + 2
    BY <2>1, <2>4, <2>5, <2>6 DEF AfterUnit
  <2>8. QED
    BY <1>0, <2>1, <2>4, <2>7
<1>3. QED
  BY <1>1, <1>2

LEMMA UnitAlike ==
    ASSUME NEW t \in Seq(Nat), NEW u \in Seq(Nat), NEW k, AlikeUpTo(t, u, k), NEW p \in 1..(k + 1)
    PROVE  AfterUnit(u, p) = AfterUnit(t, p) /\ AfterUnit(t, p) \in 0..(k + 1)
<1>0. k \in Nat
  BY DEF AlikeUpTo
<1>1. CASE AfterUnit(t, p) # 0
  <2>1. AfterUnit(u, p) = AfterUnit(t, p) /\ AfterUnit(t, p) \in 1..(k + 1)
    BY <1>1, UnitsBegin
  <2>2. QED
    BY <1>0, <2>1
<1>2. CASE AfterUnit(t, p) = 0
  <2>1. AfterUnit(u, p) = 0
    <3>1. SUFFICES ASSUME AfterUnit(u, p) # 0 PROVE FALSE
      OBVIOUS
    <3>2. AlikeUpTo(u, t, k)
      BY AlikeBothWays
    <3>3. AfterUnit(t, p) = AfterUnit(u, p)
      BY <3>1, <3>2, UnitsBegin
    <3>4. QED
      BY <1>2, <3>1, <3>3
  <2>2. QED
    BY <1>0, <1>2, <2>1
<1>3. QED
  BY <1>1, <1>2

LEMMA UnitsAlike ==
    ASSUME NEW t \in Seq(Nat), NEW u \in Seq(Nat), NEW k, AlikeUpTo(t, u, k), NEW p \in 1..(k + 1),
           NEW least \in Nat, NEW most \in Nat
    PROVE  AfterUnits(u, p, least, most) = AfterUnits(t, p, least, most)
<1>0. k \in Nat /\ p \in Nat
  BY DEF AlikeUpTo
<1>1. PICK e : UnitEnds(e, t, p, least, most)
  BY <1>0, AfterUnitsIs
<1>2. PICK d : UnitEnds(d, u, p, least, most)
  BY <1>0, AfterUnitsIs
<1>3. /\ e \in [0..most -> Nat] /\ e[0] = p
      /\ \A n \in 1..most : e[n] = IF e[n - 1] = 0 THEN 0 ELSE AfterUnit(t, e[n - 1])
      /\ LET reached == { n \in least..most : e[n] # 0 }
         IN AfterUnits(t, p, least, most) = IF reached = {} THEN 0 ELSE e[Max(reached)]
  BY <1>1 DEF UnitEnds
<1>4. /\ d \in [0..most -> Nat] /\ d[0] = p
      /\ \A n \in 1..most : d[n] = IF d[n - 1] = 0 THEN 0 ELSE AfterUnit(u, d[n - 1])
      /\ LET reached == { n \in least..most : d[n] # 0 }
         IN AfterUnits(u, p, least, most) = IF reached = {} THEN 0 ELSE d[Max(reached)]
  BY <1>2 DEF UnitEnds
<1> DEFINE Good == {n \in Nat : n \in 0..most => d[n] = e[n] /\ e[n] \in 0..(k + 1)}
<1>5. 0 \in Good
  BY <1>0, <1>3, <1>4
<1>6. ASSUME NEW n \in Nat, n \in Good PROVE n + 1 \in Good
  <2> SUFFICES ASSUME n + 1 \in 0..most PROVE d[n + 1] = e[n + 1] /\ e[n + 1] \in 0..(k + 1)
    OBVIOUS
  <2>1. PICK m \in 1..most : m = n + 1 /\ m - 1 = n
    OBVIOUS
  <2>2. d[n] = e[n] /\ e[n] \in 0..(k + 1)
    BY <1>6
  <2>3. /\ e[m] = IF e[n] = 0 THEN 0 ELSE AfterUnit(t, e[n])
        /\ d[m] = IF d[n] = 0 THEN 0 ELSE AfterUnit(u, d[n])
    BY <1>3, <1>4, <2>1
  <2>4. e[n] # 0 => AfterUnit(u, e[n]) = AfterUnit(t, e[n]) /\ AfterUnit(t, e[n]) \in 0..(k + 1)
    <3>1. SUFFICES ASSUME e[n] # 0
                   PROVE AfterUnit(u, e[n]) = AfterUnit(t, e[n]) /\ AfterUnit(t, e[n]) \in 0..(k + 1)
      OBVIOUS
    <3>2. PICK q \in 1..(k + 1) : q = e[n]
      BY <1>0, <2>2, <3>1
    <3>3. QED
      BY <3>2, UnitAlike
  <2>5. d[m] = e[m] /\ e[m] \in 0..(k + 1)
    BY <1>0, <2>2, <2>3, <2>4
  <2>6. QED
    BY <2>1, <2>5
<1>7. Nat \subseteq Good
  <2> HIDE DEF Good
  <2>1. QED
    BY <1>5, <1>6, AllNumbers
<1>8. \A n \in 0..most : d[n] = e[n]
  BY <1>7
<1>9. d = e
  BY <1>3, <1>4, <1>8
<1>10. QED
  BY <1>3, <1>4, <1>9

-----------------------------------------------------------------------------
(* Beginnings of a match.                                                  *)

\* The characters of s stand at p.
StandsAt(t, p, s) == p + Len(s) - 1 <= Len(t) /\ \A i \in 1..Len(s) : t[(p + i) - 1] = s[i]

LEMMA HasAtIs ==
    ASSUME NEW t \in Seq(Nat), NEW p \in 1..Len(t), NEW s \in Seq(Nat), s # <<>>
    PROVE  (p + Len(s) - 1 <= Len(t) /\ HasAt(t, p, s)) <=> StandsAt(t, p, s)
<1>0. Len(t) \in Nat /\ Len(s) \in Nat /\ Len(s) # 0
  BY LenProperties, EmptySeq
<1>1. SUFFICES ASSUME p + Len(s) - 1 <= Len(t)
               PROVE  HasAt(t, p, s) <=> \A i \in 1..Len(s) : t[(p + i) - 1] = s[i]
  BY DEF StandsAt
<1> DEFINE b == p + Len(s) - 1
           c == SubSeq(t, p, b)
<1>2. b \in p..Len(t) /\ (b - p) + 1 = Len(s)
  BY <1>0, <1>1
<1>3. HasAt(t, p, s) <=> c = s
  BY DEF HasAt
<1> HIDE DEF b
<1>4. c \in Seq(Nat) /\ Len(c) = Len(s) /\ \A i \in 1..Len(s) : c[i] = t[(p + i) - 1]
  BY <1>2, PartOfText
<1> HIDE DEF c
<1>5. c = s <=> \A i \in 1..Len(s) : c[i] = s[i]
  BY <1>4, SeqEqual
<1>6. QED
  BY <1>3, <1>4, <1>5

LEMMA StandsInBoth ==
    ASSUME NEW t \in Seq(Nat), NEW u \in Seq(Nat), NEW k, AlikeUpTo(t, u, k), NEW p \in 1..k,
           NEW s \in Seq(Nat), s # <<>>, \A i \in 2..Len(s) : s[i] \in Digit, StandsAt(t, p, s)
    PROVE  StandsAt(u, p, s) /\ p + Len(s) <= k + 1
<1>0. /\ Len(t) \in Nat /\ Len(u) \in Nat /\ Len(s) \in Nat /\ Len(s) # 0 /\ DOMAIN t = 1..Len(t)
      /\ k \in Nat /\ k <= Len(t) /\ k <= Len(u) /\ \A i \in 1..k : t[i] = u[i]
      /\ StopsAt(t, k)
  BY LenProperties, EmptySeq DEF AlikeUpTo
<1>1. p + Len(s) - 1 <= Len(t) /\ \A i \in 1..Len(s) : t[(p + i) - 1] = s[i]
  BY DEF StandsAt
<1>2. p + Len(s) <= k + 1
  <2>1. SUFFICES ASSUME ~(p + Len(s) <= k + 1) PROVE FALSE
    OBVIOUS
  <2>a. (k + 2) - p \in 2..Len(s) /\ (p + ((k + 2) - p)) - 1 = k + 1
    <3>1. k \in Nat /\ Len(s) \in Nat /\ p <= k /\ p \in Nat /\ ~(p + Len(s) <= k + 1)
      BY <1>0, <2>1
    <3>2. QED
      BY <3>1
  <2>2. PICK i \in 2..Len(s) : i = (k + 2) - p /\ (p + i) - 1 = k + 1
    BY <2>a, Zenon
  <2>3. i \in 1..Len(s) /\ k + 1 \in DOMAIN t
    BY <1>0, <1>1, <2>1
  <2>4. t[k + 1] = s[i]
    BY <1>1, <2>2, <2>3
  <2>5. QED
    BY <1>0, <2>3, <2>4 DEF StopsAt
<1>3. \A i \in 1..Len(s) : u[(p + i) - 1] = s[i]
  <2> TAKE i \in 1..Len(s)
  <2>1. (p + i) - 1 \in 1..k
    BY <1>0, <1>2
  <2>2. QED
    BY <1>0, <1>1, <2>1
<1>4. p + Len(s) - 1 <= Len(u)
  BY <1>0, <1>2
<1>5. QED
  BY <1>2, <1>3, <1>4 DEF StandsAt

Openings == {<<Plus, 8, 4>>, <<8, 4>>, <<1, 8, 0, 0>>, <<1, 9, 0, 0>>}

LEMMA BeginningsAre ==
    \A s \in Openings : s \in Seq(Nat) /\ s # <<>> /\ \A i \in 2..Len(s) : s[i] \in Digit
<1>1. ASSUME NEW s \in Seq(Nat), NEW n \in {2, 3, 4}, Len(s) = n, \A i \in {2, 3, 4} : i <= n => s[i] \in Digit
      PROVE  s \in Seq(Nat) /\ s # <<>> /\ \A i \in 2..Len(s) : s[i] \in Digit
  <2>1. \A i \in 2..n : i \in {2, 3, 4} /\ i <= n
    BY <1>1
  <2>2. s # <<>>
    BY <1>1
  <2>3. QED
    BY <1>1, <2>1, <2>2
<1>2. 8 \in Digit /\ 4 \in Digit /\ 9 \in Digit /\ 0 \in Digit
  BY DEF Digit
<1>3. /\ <<Plus, 8, 4>> \in Seq(Nat)
      /\ Len(<<Plus, 8, 4>>) = 3
      /\ <<Plus, 8, 4>>[2] = 8
      /\ <<Plus, 8, 4>>[3] = 4
  BY DEF Plus
<1>4. /\ <<8, 4>> \in Seq(Nat)
      /\ Len(<<8, 4>>) = 2
      /\ <<8, 4>>[2] = 4
  OBVIOUS
<1>5. /\ <<1, 8, 0, 0>> \in Seq(Nat)
      /\ Len(<<1, 8, 0, 0>>) = 4
      /\ <<1, 8, 0, 0>>[2] = 8
      /\ <<1, 8, 0, 0>>[3] = 0
      /\ <<1, 8, 0, 0>>[4] = 0
  OBVIOUS
<1>6. /\ <<1, 9, 0, 0>> \in Seq(Nat)
      /\ Len(<<1, 9, 0, 0>>) = 4
      /\ <<1, 9, 0, 0>>[2] = 9
      /\ <<1, 9, 0, 0>>[3] = 0
      /\ <<1, 9, 0, 0>>[4] = 0
  OBVIOUS
<1>7. ASSUME NEW s \in Openings
      PROVE  s \in Seq(Nat) /\ s # <<>> /\ \A i \in 2..Len(s) : s[i] \in Digit
  <2>1. CASE s = <<Plus, 8, 4>>
    BY <1>1, <1>2, <1>3, <2>1
  <2>2. CASE s = <<8, 4>>
    BY <1>1, <1>2, <1>4, <2>2
  <2>3. CASE s = <<1, 8, 0, 0>>
    BY <1>1, <1>2, <1>5, <2>3
  <2>4. CASE s = <<1, 9, 0, 0>>
    BY <1>1, <1>2, <1>6, <2>4
  <2>5. QED
    BY <2>1, <2>2, <2>3, <2>4, Zenon DEF Openings
<1>8. QED
  BY <1>7

\* A match's beginnings, and what is left to read after each.
LEMMA MatchBegins ==
    ASSUME NEW t \in Seq(Nat), NEW p \in 1..Len(t)
    PROVE  MatchEnd(t, p) =
              IF t[p] = 0 THEN AfterUnits(t, p + 1, 8, 10)
              ELSE IF StandsAt(t, p, <<Plus, 8, 4>>) THEN AfterUnits(t, p + 3, 8, 10)
              ELSE IF StandsAt(t, p, <<8, 4>>) THEN AfterUnits(t, p + 2, 8, 10)
              ELSE IF StandsAt(t, p, <<1, 8, 0, 0>>) \/ StandsAt(t, p, <<1, 9, 0, 0>>)
                   THEN AfterUnits(t, p + 4, 4, 7)
              ELSE 0
<1>0. Len(t) \in Nat
  BY LenProperties
<1>1. \A s \in Openings : s \in Seq(Nat) /\ s # <<>>
  BY BeginningsAre
<1>2. \A s \in {<<Plus, 8, 4>>, <<8, 4>>, <<1, 8, 0, 0>>, <<1, 9, 0, 0>>} :
         (p + Len(s) - 1 <= Len(t) /\ HasAt(t, p, s)) <=> StandsAt(t, p, s)
  <2> TAKE s \in {<<Plus, 8, 4>>, <<8, 4>>, <<1, 8, 0, 0>>, <<1, 9, 0, 0>>}
  <2>1. s \in Seq(Nat) /\ s # <<>>
    BY <1>1 DEF Openings
  <2>2. QED
    BY <2>1, HasAtIs
<1>3. (\E s \in {<<Plus, 8, 4>>, <<8, 4>>} : p + Len(s) - 1 <= Len(t) /\ HasAt(t, p, s))
         <=> StandsAt(t, p, <<Plus, 8, 4>>) \/ StandsAt(t, p, <<8, 4>>)
  BY <1>2, Zenon
<1>4. (\E d \in {8, 9} : p + 3 <= Len(t) /\ HasAt(t, p, <<1, d, 0, 0>>))
         <=> StandsAt(t, p, <<1, 8, 0, 0>>) \/ StandsAt(t, p, <<1, 9, 0, 0>>)
  <2>1. \A s \in {<<1, 8, 0, 0>>, <<1, 9, 0, 0>>} : p + Len(s) - 1 <= Len(t) <=> p + 3 <= Len(t)
    <3>1. Len(<<1, 8, 0, 0>>) = 4 /\ Len(<<1, 9, 0, 0>>) = 4 /\ p + 4 - 1 = p + 3
      OBVIOUS
    <3>2. QED
      BY <3>1, Zenon
  <2>2. \A s \in {<<1, 8, 0, 0>>, <<1, 9, 0, 0>>} :
           (p + 3 <= Len(t) /\ HasAt(t, p, s)) <=> StandsAt(t, p, s)
    BY <1>2, <2>1, Zenon
  <2>3. QED
    BY <2>2, Zenon
<1>5. StandsAt(t, p, <<Plus, 8, 4>>) => t[p] = Plus
  <2>1. StandsAt(t, p, <<Plus, 8, 4>>) => t[(p + 1) - 1] = Plus
    BY DEF StandsAt
  <2>2. QED
    BY <2>1
<1>6. StandsAt(t, p, <<8, 4>>) => t[p] # Plus
  <2>1. StandsAt(t, p, <<8, 4>>) => t[(p + 1) - 1] = 8
    BY DEF StandsAt
  <2>2. QED
    BY <2>1 DEF Plus
<1>7. QED
  <2>1. CASE t[p] = 0
    BY <2>1, Zenon DEF MatchEnd
  <2>2. CASE t[p] # 0 /\ StandsAt(t, p, <<Plus, 8, 4>>)
    BY <1>3, <1>5, <2>2, Zenon DEF MatchEnd
  <2>3. CASE t[p] # 0 /\ ~StandsAt(t, p, <<Plus, 8, 4>>) /\ StandsAt(t, p, <<8, 4>>)
    BY <1>3, <1>6, <2>3, Zenon DEF MatchEnd
  <2>4. CASE t[p] # 0 /\ ~StandsAt(t, p, <<Plus, 8, 4>>) /\ ~StandsAt(t, p, <<8, 4>>)
    BY <1>3, <1>4, <2>4, Zenon DEF MatchEnd
  <2>5. QED
    BY <2>1, <2>2, <2>3, <2>4

LEMMA MatchAlike ==
    ASSUME NEW t \in Seq(Nat), NEW u \in Seq(Nat), NEW k, AlikeUpTo(t, u, k), NEW p \in 1..k
    PROVE  MatchEnd(u, p) = MatchEnd(t, p)
<1>0. /\ Len(t) \in Nat /\ Len(u) \in Nat /\ k \in Nat /\ k <= Len(t) /\ k <= Len(u) /\ t[p] = u[p]
      /\ p \in 1..Len(t) /\ p \in 1..Len(u) /\ AlikeUpTo(u, t, k)
  BY LenProperties, AlikeBothWays DEF AlikeUpTo
<1>1. \A s \in Openings : s \in Seq(Nat) /\ s # <<>> /\ \A i \in 2..Len(s) : s[i] \in Digit
  BY BeginningsAre
<1>2. ASSUME NEW s \in Openings
      PROVE  /\ StandsAt(u, p, s) <=> StandsAt(t, p, s)
             /\ StandsAt(t, p, s) => p + Len(s) <= k + 1
  <2>1. s \in Seq(Nat) /\ s # <<>> /\ \A i \in 2..Len(s) : s[i] \in Digit
    BY <1>1
  <2>2. StandsAt(t, p, s) => StandsAt(u, p, s) /\ p + Len(s) <= k + 1
    BY <2>1, StandsInBoth
  <2>3. StandsAt(u, p, s) => StandsAt(t, p, s)
    BY <1>0, <2>1, StandsInBoth
  <2>4. QED
    BY <2>2, <2>3
<1>3. ASSUME NEW q \in 1..(k + 1), NEW least \in Nat, NEW most \in Nat
      PROVE  AfterUnits(u, q, least, most) = AfterUnits(t, q, least, most)
  BY <1>3, UnitsAlike
<1>4. /\ StandsAt(t, p, <<Plus, 8, 4>>) => p + 3 \in 1..(k + 1)
      /\ StandsAt(t, p, <<8, 4>>) => p + 2 \in 1..(k + 1)
      /\ StandsAt(t, p, <<1, 8, 0, 0>>) => p + 4 \in 1..(k + 1)
      /\ StandsAt(t, p, <<1, 9, 0, 0>>) => p + 4 \in 1..(k + 1)
  <2>1. /\ Len(<<Plus, 8, 4>>) = 3 /\ Len(<<8, 4>>) = 2
        /\ Len(<<1, 8, 0, 0>>) = 4 /\ Len(<<1, 9, 0, 0>>) = 4
    OBVIOUS
  <2>2. /\ StandsAt(t, p, <<Plus, 8, 4>>) => p + 3 <= k + 1
        /\ StandsAt(t, p, <<8, 4>>) => p + 2 <= k + 1
        /\ StandsAt(t, p, <<1, 8, 0, 0>>) => p + 4 <= k + 1
        /\ StandsAt(t, p, <<1, 9, 0, 0>>) => p + 4 <= k + 1
    BY <1>2, <2>1, Zenon DEF Openings
  <2>3. QED
    BY <1>0, <2>2, SMTT(30)
<1>5. /\ StandsAt(u, p, <<Plus, 8, 4>>) <=> StandsAt(t, p, <<Plus, 8, 4>>)
      /\ StandsAt(u, p, <<8, 4>>) <=> StandsAt(t, p, <<8, 4>>)
      /\ StandsAt(u, p, <<1, 8, 0, 0>>) <=> StandsAt(t, p, <<1, 8, 0, 0>>)
      /\ StandsAt(u, p, <<1, 9, 0, 0>>) <=> StandsAt(t, p, <<1, 9, 0, 0>>)
  BY <1>2, Zenon DEF Openings
<1>6. p + 1 \in 1..(k + 1)
  BY <1>0
<1>7. /\ AfterUnits(u, p + 1, 8, 10) = AfterUnits(t, p + 1, 8, 10)
      /\ StandsAt(t, p, <<Plus, 8, 4>>) => AfterUnits(u, p + 3, 8, 10) = AfterUnits(t, p + 3, 8, 10)
      /\ StandsAt(t, p, <<8, 4>>) => AfterUnits(u, p + 2, 8, 10) = AfterUnits(t, p + 2, 8, 10)
      /\ StandsAt(t, p, <<1, 8, 0, 0>>) \/ StandsAt(t, p, <<1, 9, 0, 0>>)
            => AfterUnits(u, p + 4, 4, 7) = AfterUnits(t, p + 4, 4, 7)
  BY <1>3, <1>4, <1>6
<1>8. QED
  <2>1. MatchEnd(t, p) =
          IF t[p] = 0 THEN AfterUnits(t, p + 1, 8, 10)
          ELSE IF StandsAt(t, p, <<Plus, 8, 4>>) THEN AfterUnits(t, p + 3, 8, 10)
          ELSE IF StandsAt(t, p, <<8, 4>>) THEN AfterUnits(t, p + 2, 8, 10)
          ELSE IF StandsAt(t, p, <<1, 8, 0, 0>>) \/ StandsAt(t, p, <<1, 9, 0, 0>>)
               THEN AfterUnits(t, p + 4, 4, 7)
          ELSE 0
    BY <1>0, MatchBegins
  <2>2. MatchEnd(u, p) =
          IF u[p] = 0 THEN AfterUnits(u, p + 1, 8, 10)
          ELSE IF StandsAt(u, p, <<Plus, 8, 4>>) THEN AfterUnits(u, p + 3, 8, 10)
          ELSE IF StandsAt(u, p, <<8, 4>>) THEN AfterUnits(u, p + 2, 8, 10)
          ELSE IF StandsAt(u, p, <<1, 8, 0, 0>>) \/ StandsAt(u, p, <<1, 9, 0, 0>>)
               THEN AfterUnits(u, p + 4, 4, 7)
          ELSE 0
    BY <1>0, MatchBegins
  <2>3. t[p] = u[p]
    BY <1>0
  <2>4. QED
    BY <1>5, <1>7, <2>1, <2>2, <2>3, SMTT(30)

-----------------------------------------------------------------------------
(* A number is matched whole, wherever it stands at the end of a text.     *)

\* Where the digits of s are that come after the first a characters.
DigitsAfter(s, a, b) == { i \in (a + 1)..b : s[i] \in Digit }

\* After its first a characters s is made of whole units.
InUnits(s, a) ==
    \A i \in (a + 1)..Len(s) :
       s[i] \in Digit \/ (s[i] \in Separators /\ i < Len(s) /\ s[i + 1] \in Digit)

LEMMA DigitsAfterFinite ==
    ASSUME NEW s, NEW a \in Nat, NEW b \in Nat
    PROVE  IsFiniteSet(DigitsAfter(s, a, b)) /\ Cardinality(DigitsAfter(s, a, b)) \in Nat
<1>1. IsFiniteSet((a + 1)..b) /\ DigitsAfter(s, a, b) \in SUBSET ((a + 1)..b)
  BY FS_Interval DEF DigitsAfter
<1>2. QED
  BY <1>1, FS_Subset, FS_CardinalityType

LEMMA OneMoreDigit ==
    ASSUME NEW s, NEW a \in Nat, NEW b \in Nat, NEW c \in Nat, a <= b, b < c, s[c] \in Digit,
           \A i \in (b + 1)..(c - 1) : s[i] \notin Digit
    PROVE  Cardinality(DigitsAfter(s, a, c)) = Cardinality(DigitsAfter(s, a, b)) + 1
<1>1. DigitsAfter(s, a, c) = DigitsAfter(s, a, b) \cup {c}
  <2>1. ASSUME NEW i \in DigitsAfter(s, a, c) PROVE i \in DigitsAfter(s, a, b) \cup {c}
    <3>1. i \in (a + 1)..c /\ s[i] \in Digit
      BY <2>1 DEF DigitsAfter
    <3>2. i = c \/ i \in (b + 1)..(c - 1) \/ i \in (a + 1)..b
      BY <3>1
    <3>3. QED
      BY <3>1, <3>2 DEF DigitsAfter
  <2>2. ASSUME NEW i \in DigitsAfter(s, a, b) \cup {c} PROVE i \in DigitsAfter(s, a, c)
    <3>1. i = c \/ (i \in (a + 1)..b /\ s[i] \in Digit)
      BY <2>2 DEF DigitsAfter
    <3>2. i \in (a + 1)..c /\ s[i] \in Digit
      BY <3>1
    <3>3. QED
      BY <3>2 DEF DigitsAfter
  <2>3. QED
    BY <2>1, <2>2
<1>2. c \notin DigitsAfter(s, a, b)
  BY DEF DigitsAfter
<1>3. QED
  BY <1>1, <1>2, DigitsAfterFinite, FS_AddElement

LEMMA UnitOfNumber ==
    ASSUME NEW q \in Seq(Nat), NEW s \in Seq(Nat), NEW a \in 0..Len(s), InUnits(s, a),
           NEW i \in a..Len(s)
    PROVE  LET p == (Len(q) + i) + 1
           IN /\ i = Len(s) => AfterUnit(q \o s, p) = 0
              /\ i < Len(s) /\ s[i + 1] \in Digit => AfterUnit(q \o s, p) = p + 1
              /\ i < Len(s) /\ s[i + 1] \notin Digit =>
                    i + 1 < Len(s) /\ s[i + 2] \in Digit /\ AfterUnit(q \o s, p) = p + 2
<1> DEFINE t == q \o s
           p == (Len(q) + i) + 1
<1>0. Len(q) \in Nat /\ Len(s) \in Nat /\ i \in Nat
  BY LenProperties
<1>1. /\ t \in Seq(Nat) /\ Len(t) = Len(q) + Len(s)
      /\ \A k \in 1..Len(s) : t[Len(q) + k] = s[k]
  BY <1>0, ConcatProperties
<1> HIDE DEF t
<1>2. DOMAIN t = 1..(Len(q) + Len(s))
  BY <1>0, <1>1, LenProperties
<1>3. CASE i = Len(s)
  <2>1. p \notin DOMAIN t /\ p + 1 \notin DOMAIN t
    BY <1>0, <1>2, <1>3
  <2>2. AfterUnit(t, p) = 0
    <3> HIDE DEF p
    <3>1. QED
      BY <2>1 DEF AfterUnit
  <2>3. QED
    BY <1>0, <1>3, <2>2 DEF t
<1>4. CASE i < Len(s)
  <2>1. i + 1 \in 1..Len(s) /\ i + 1 \in (a + 1)..Len(s) /\ Len(q) + (i + 1) = p
    BY <1>0, <1>4
  <2>2. p \in DOMAIN t /\ t[p] = s[i + 1]
    BY <1>0, <1>1, <1>2, <2>1
  <2>3. CASE s[i + 1] \in Digit
    <3>1. AfterUnit(t, p) = p + 1
      <4> HIDE DEF p
      <4>1. QED
        BY <2>2, <2>3 DEF AfterUnit
    <3>2. QED
      BY <1>0, <1>4, <2>3, <3>1 DEF t
  <2>4. CASE s[i + 1] \notin Digit
    <3>1. s[i + 1] \in Separators /\ i + 1 < Len(s) /\ s[(i + 1) + 1] \in Digit
      BY <2>1, <2>4 DEF InUnits
    <3>2. (i + 1) + 1 = i + 2 /\ i + 2 \in 1..Len(s) /\ Len(q) + (i + 2) = p + 1
      BY <1>0, <3>1
    <3>3. p + 1 \in DOMAIN t /\ t[p + 1] = s[i + 2]
      BY <1>0, <1>1, <1>2, <3>2
    <3>4. AfterUnit(t, p) = p + 2
      <4> HIDE DEF p
      <4>1. QED
        BY <2>2, <2>4, <3>1, <3>2, <3>3 DEF AfterUnit
    <3>5. QED
      BY <1>0, <1>4, <2>4, <3>1, <3>2, <3>4 DEF t
  <2>5. QED
    BY <2>3, <2>4
<1>5. QED
  BY <1>0, <1>3, <1>4

\* As many units are read as s has digits left, and then there are no more.
LEMMA NumberInUnits ==
    ASSUME NEW q \in Seq(Nat), NEW s \in Seq(Nat), NEW a \in 0..Len(s), InUnits(s, a),
           NEW least \in Nat, NEW most \in Nat,
           Cardinality(DigitsAfter(s, a, Len(s))) \in least..most
    PROVE  AfterUnits(q \o s, (Len(q) + a) + 1, least, most) = (Len(q) + Len(s)) + 1
<1> DEFINE t == q \o s
           L == Len(s)
           p == (Len(q) + a) + 1
           N == Cardinality(DigitsAfter(s, a, L))
           At(i) == (Len(q) + i) + 1
<1>0. Len(q) \in Nat /\ L \in Nat /\ a \in Nat /\ p \in Nat /\ N \in Nat /\ N \in least..most
  BY LenProperties, DigitsAfterFinite
<1>1. t \in Seq(Nat)
  BY ConcatProperties
<1>2. PICK e : UnitEnds(e, t, p, least, most)
  <2> HIDE DEF t, p
  <2>1. QED
    BY <1>0, <1>1, AfterUnitsIs
<1>3. /\ e \in [0..most -> Nat] /\ e[0] = p
      /\ \A n \in 1..most : e[n] = IF e[n - 1] = 0 THEN 0 ELSE AfterUnit(t, e[n - 1])
      /\ LET reached == { n \in least..most : e[n] # 0 }
         IN AfterUnits(t, p, least, most) = IF reached = {} THEN 0 ELSE e[Max(reached)]
  BY <1>2 DEF UnitEnds
<1>4. ASSUME NEW i \in a..L
      PROVE  /\ At(i) \in Nat \ {0}
             /\ i = L => AfterUnit(t, At(i)) = 0
             /\ i < L /\ s[i + 1] \in Digit => AfterUnit(t, At(i)) = At(i) + 1
             /\ i < L /\ s[i + 1] \notin Digit =>
                   i + 1 < L /\ s[i + 2] \in Digit /\ AfterUnit(t, At(i)) = At(i) + 2
  BY <1>0, <1>4, UnitOfNumber, SMTT(30)
<1> HIDE DEF t
<1> DEFINE Count(i) == Cardinality(DigitsAfter(s, a, i))
           Reached(n) == \E i \in a..L : e[n] = At(i) /\ Count(i) = n
           Good == {n \in Nat : n <= N => Reached(n)}
<1>5. 0 \in Good
  <2>1. DigitsAfter(s, a, a) = {}
    BY <1>0 DEF DigitsAfter
  <2>2. Count(a) = 0
    BY <2>1, FS_EmptySet
  <2>3. a \in a..L /\ e[0] = At(a)
    BY <1>0, <1>3
  <2>4. Reached(0)
    <3> HIDE DEF At, Count
    <3>1. QED
      BY <2>2, <2>3
  <2>5. QED
    BY <2>4
<1>6. ASSUME NEW n \in Nat, n \in Good PROVE n + 1 \in Good
  <2> SUFFICES ASSUME n + 1 <= N PROVE Reached(n + 1)
    OBVIOUS
  <2>1. n <= N
    BY <1>0
  <2>2. PICK i \in a..L : e[n] = At(i) /\ Count(i) = n
    <3> HIDE DEF At, Count
    <3>1. QED
      BY <1>6, <2>1
  <2>3. i # L
    BY <1>0, <2>2
  <2>4. i \in Nat /\ i < L /\ a <= i
    BY <1>0, <2>3
  <2>5. PICK m \in 1..most : m = n + 1 /\ m - 1 = n
    BY <1>0
  <2>6. e[n + 1] = AfterUnit(t, At(i))
    <3>1. e[m] = IF e[m - 1] = 0 THEN 0 ELSE AfterUnit(t, e[m - 1])
      BY <1>3
    <3>2. At(i) # 0
      BY <1>4
    <3> HIDE DEF At
    <3>3. QED
      BY <2>2, <2>5, <3>1, <3>2
  <2>7. CASE s[i + 1] \in Digit
    <3>1. Count(i + 1) = Count(i) + 1
      <4>1. \A k \in (i + 1)..((i + 1) - 1) : s[k] \notin Digit
        BY <2>4
      <4>2. QED
        BY <1>0, <2>4, <2>7, <4>1, OneMoreDigit
    <3>2. i + 1 \in a..L /\ At(i + 1) = At(i) + 1
      BY <1>0, <2>4
    <3>3. e[n + 1] = At(i + 1)
      BY <1>4, <2>4, <2>6, <2>7, <3>2
    <3>4. QED
      <4> HIDE DEF At, Count
      <4>1. QED
        BY <2>2, <3>1, <3>2, <3>3
  <2>8. CASE s[i + 1] \notin Digit
    <3>0. i + 1 < L /\ s[i + 2] \in Digit /\ AfterUnit(t, At(i)) = At(i) + 2
      BY <1>4, <2>4, <2>8
    <3>1. Count(i + 2) = Count(i) + 1
      <4>1. \A k \in (i + 1)..((i + 2) - 1) : k = i + 1
        BY <2>4
      <4>2. \A k \in (i + 1)..((i + 2) - 1) : s[k] \notin Digit
        BY <2>8, <4>1
      <4>3. PICK c \in Nat : c = i + 2
        BY <2>4
      <4>4. i < c /\ s[c] \in Digit /\ \A k \in (i + 1)..(c - 1) : s[k] \notin Digit
        BY <2>4, <3>0, <4>2, <4>3
      <4>5. Cardinality(DigitsAfter(s, a, c)) = Cardinality(DigitsAfter(s, a, i)) + 1
        BY <1>0, <2>4, <4>4, OneMoreDigit
      <4>6. QED
        BY <4>3, <4>5
    <3>2. i + 2 \in a..L /\ At(i + 2) = At(i) + 2
      BY <1>0, <2>4, <3>0
    <3>3. e[n + 1] = At(i + 2)
      BY <2>6, <3>0, <3>2
    <3>4. QED
      <4> HIDE DEF At, Count
      <4>1. QED
        BY <2>2, <3>1, <3>2, <3>3
  <2>9. QED
    BY <2>7, <2>8
<1>7. Nat \subseteq Good
  <2> HIDE DEF Good
  <2>1. QED
    BY <1>5, <1>6, AllNumbers
<1>8. e[N] = At(L)
  <2>1. PICK i \in a..L : e[N] = At(i) /\ Count(i) = N
    <3>1. N \in Good /\ N <= N
      <4> HIDE DEF Good, N
      <4>1. QED
        BY <1>0, <1>7
    <3>2. Reached(N)
      <4> HIDE DEF Reached, N
      <4>1. QED
        BY <3>1
    <3> HIDE DEF At, Count, N
    <3>3. QED
      BY <3>2
  <2>2. i = L
    <3>1. SUFFICES ASSUME i # L PROVE FALSE
      OBVIOUS
    <3>2. i \in Nat /\ i < L /\ a <= i
      BY <1>0, <3>1
    <3>3. PICK k \in DigitsAfter(s, a, L) : i < k
      <4>1. CASE s[i + 1] \in Digit
        <5>1. i + 1 \in DigitsAfter(s, a, L) /\ i < i + 1
          BY <1>0, <3>2, <4>1 DEF DigitsAfter
        <5>2. QED
          BY <5>1
      <4>2. CASE s[i + 1] \notin Digit
        <5>1. i + 1 < L /\ s[i + 2] \in Digit
          BY <1>4, <3>2, <4>2
        <5>2. i + 2 \in DigitsAfter(s, a, L) /\ i < i + 2
          BY <1>0, <3>2, <5>1 DEF DigitsAfter
        <5>3. QED
          BY <5>2
      <4>3. QED
        BY <4>1, <4>2
    <3>4. DigitsAfter(s, a, i) \in SUBSET DigitsAfter(s, a, L)
      BY <1>0, <3>2 DEF DigitsAfter
    <3>5. DigitsAfter(s, a, L) = DigitsAfter(s, a, i)
      BY <1>0, <2>1, <3>4, DigitsAfterFinite, FS_Subset
    <3>6. k \in (a + 1)..i
      BY <3>3, <3>5 DEF DigitsAfter
    <3>7. QED
      BY <3>2, <3>3, <3>6
  <2>3. QED
    BY <2>1, <2>2
<1> HIDE DEF Good
<1> DEFINE Over == {n \in Nat : (N + n) + 1 <= most => e[(N + n) + 1] = 0}
<1>9. 0 \in Over
  <2> SUFFICES ASSUME (N + 0) + 1 <= most PROVE e[(N + 0) + 1] = 0
    OBVIOUS
  <2>1. PICK m \in 1..most : m = (N + 0) + 1 /\ m - 1 = N
    BY <1>0
  <2>2. e[m] = IF e[m - 1] = 0 THEN 0 ELSE AfterUnit(t, e[m - 1])
    BY <1>3
  <2>3. AfterUnit(t, At(L)) = 0
    <3>1. L \in a..L
      BY <1>0
    <3>2. QED
      BY <1>4, <3>1
  <2> HIDE DEF At
  <2>4. QED
    BY <1>8, <2>1, <2>2, <2>3
<1>10. ASSUME NEW n \in Nat, n \in Over PROVE n + 1 \in Over
  <2> SUFFICES ASSUME (N + (n + 1)) + 1 <= most PROVE e[(N + (n + 1)) + 1] = 0
    OBVIOUS
  <2>1. PICK m \in 1..most : m = (N + (n + 1)) + 1 /\ m - 1 = (N + n) + 1
    BY <1>0
  <2>2. e[m] = IF e[m - 1] = 0 THEN 0 ELSE AfterUnit(t, e[m - 1])
    BY <1>3
  <2>3. e[(N + n) + 1] = 0
    BY <1>0, <1>10
  <2>4. QED
    BY <2>1, <2>2, <2>3
<1>11. Nat \subseteq Over
  <2> HIDE DEF Over
  <2>1. QED
    BY <1>9, <1>10, AllNumbers
<1> DEFINE reached == { n \in least..most : e[n] # 0 }
<1>12. N \in reached /\ \A n \in reached : n <= N
  <2>1. At(L) # 0
    BY <1>0
  <2>2. N \in reached
    <3> HIDE DEF At
    <3>1. QED
      BY <1>0, <1>8, <2>1
  <2>3. ASSUME NEW n \in reached PROVE n <= N
    <3>1. SUFFICES ASSUME ~(n <= N) PROVE FALSE
      OBVIOUS
    <3>2. n \in Nat /\ n <= most /\ e[n] # 0
      BY <2>3
    <3>3. (n - N) - 1 \in Nat /\ (N + ((n - N) - 1)) + 1 = n
      BY <1>0, <3>1, <3>2
    <3>4. (n - N) - 1 \in Over
      BY <1>11, <3>3
    <3>5. QED
      BY <3>2, <3>3, <3>4
  <2>4. QED
    BY <2>2, <2>3
<1>13. Max(reached) = N
  <2>1. reached \in SUBSET Nat
    OBVIOUS
  <2> HIDE DEF reached
  <2>2. QED
    BY <1>12, <2>1, MaxIs
<1>14. AfterUnits(t, p, least, most) = e[N]
  <2>1. reached # {}
    BY <1>12
  <2>2. QED
    BY <1>3, <1>13, <2>1
<1>15. QED
  BY <1>8, <1>14 DEF t

LEMMA FirstOfDigits ==
    ASSUME NEW s, NEW a \in Nat, NEW b \in Nat, a < b
    PROVE  Cardinality(DigitsAfter(s, a, b)) =
              Cardinality(DigitsAfter(s, a + 1, b)) + (IF s[a + 1] \in Digit THEN 1 ELSE 0)
<1>1. a + 1 \in Nat /\ a + 1 \notin DigitsAfter(s, a + 1, b)
  BY DEF DigitsAfter
<1>2. IsFiniteSet(DigitsAfter(s, a + 1, b)) /\ Cardinality(DigitsAfter(s, a + 1, b)) \in Nat
  BY <1>1, DigitsAfterFinite
<1>3. \A i : i \in (a + 1)..b <=> i = a + 1 \/ i \in ((a + 1) + 1)..b
  OBVIOUS
<1>4. CASE s[a + 1] \in Digit
  <2>1. DigitsAfter(s, a, b) = DigitsAfter(s, a + 1, b) \cup {a + 1}
    BY <1>3, <1>4 DEF DigitsAfter
  <2>2. Cardinality(DigitsAfter(s, a, b)) = Cardinality(DigitsAfter(s, a + 1, b)) + 1
    BY <1>1, <1>2, <2>1, FS_AddElement
  <2>3. QED
    BY <1>4, <2>2
<1>5. CASE s[a + 1] \notin Digit
  <2>1. DigitsAfter(s, a, b) = DigitsAfter(s, a + 1, b)
    BY <1>3, <1>5 DEF DigitsAfter
  <2>2. QED
    BY <1>2, <1>5, <2>1
<1>6. QED
  BY <1>4, <1>5

\* What begins s stands where s does.
LEMMA BeginningStands ==
    ASSUME NEW q \in Seq(Nat), NEW s \in Seq(Nat), NEW x \in Seq(Nat), IsPrefix(x, s)
    PROVE  /\ StandsAt(q \o s, Len(q) + 1, x)
           /\ Len(x) <= Len(s) /\ \A i \in 1..Len(x) : s[i] = x[i]
<1>0. Len(q) \in Nat /\ Len(s) \in Nat /\ Len(x) \in Nat
  BY LenProperties
<1>1. Len(x) <= Len(s) /\ \A i \in 1..Len(x) : s[i] = x[i]
  BY PrefixIs
<1> DEFINE t == q \o s
<1>2. /\ Len(t) = Len(q) + Len(s)
      /\ \A k \in 1..Len(s) : t[Len(q) + k] = s[k]
  BY <1>0, ConcatProperties
<1> HIDE DEF t
<1>3. \A i \in 1..Len(x) : t[((Len(q) + 1) + i) - 1] = x[i]
  <2> TAKE i \in 1..Len(x)
  <2>1. i \in 1..Len(s) /\ ((Len(q) + 1) + i) - 1 = Len(q) + i
    BY <1>0, <1>1
  <2>2. QED
    BY <1>1, <1>2, <2>1
<1>4. (Len(q) + 1) + Len(x) - 1 <= Len(t)
  BY <1>0, <1>1, <1>2
<1>5. QED
  BY <1>1, <1>3, <1>4 DEF StandsAt, t

LEMMA SpellingInUnits ==
    ASSUME NEW s \in Shown
    PROVE  /\ s \in Seq(Nat) /\ Len(s) \in Nat /\ Len(s) >= 2 /\ s[1] \in PhoneChar
           /\ \A a \in 1..Len(s) : InUnits(s, a)
           /\ \A i \in 1..Len(s) : s[i] \in PhoneChar \cup {Space, Dot, Dash}
           /\ \A i \in 1..Len(s) : s[i] \in Digit \/ (i < Len(s) /\ s[i + 1] \in Digit)
<1>1. /\ s \in Seq(PhoneChar \cup {Space, Dot, Dash}) /\ Len(s) >= 2
      /\ s[1] \in PhoneChar /\ s[Len(s)] \in Digit
      /\ \A i \in 2..Len(s) : s[i] # Plus
      /\ \A i \in 1..Len(s) : s[i] \in Digit \/ s[i + 1] \in Digit
  BY InputConstantsOK, Zenon DEF InputsOK
<1>2. s \in Seq(Nat) /\ Len(s) \in Nat /\ \A i \in 1..Len(s) : s[i] \in PhoneChar \cup {Space, Dot, Dash}
  BY <1>1, LenProperties, ElementOfSeq, PiecesAreTexts
<1>3. ASSUME NEW i \in 1..Len(s) PROVE s[i] \in Digit \/ (i < Len(s) /\ s[i + 1] \in Digit)
  <2>1. i # Len(s) => i < Len(s)
    BY <1>2
  <2>2. QED
    BY <1>1, <2>1
<1>4. ASSUME NEW i \in 2..Len(s) PROVE s[i] \in Digit \/ s[i] \in Separators
  <2>1. i \in 1..Len(s)
    BY <1>2
  <2>2. QED
    BY <1>1, <1>2, <2>1 DEF PhoneChar, Separators
<1>5. ASSUME NEW a \in 1..Len(s) PROVE InUnits(s, a)
  <2>1. ASSUME NEW i \in (a + 1)..Len(s)
        PROVE  s[i] \in Digit \/ (s[i] \in Separators /\ i < Len(s) /\ s[i + 1] \in Digit)
    <3>1. i \in 2..Len(s) /\ i \in 1..Len(s)
      BY <1>2
    <3>2. QED
      BY <1>3, <1>4, <3>1
  <2>2. QED
    BY <2>1 DEF InUnits
<1>6. QED
  BY <1>1, <1>2, <1>3, <1>5

LEMMA NumberMatched ==
    ASSUME NEW q \in Seq(Nat), NEW s \in Shown, Len(s) > 6
    PROVE  MatchEnd(q \o s, Len(q) + 1) = (Len(q) + Len(s)) + 1
<1> DEFINE t == q \o s
           p == Len(q) + 1
           L == Len(s)
           C(a) == Cardinality(DigitsAfter(s, a, L))
<1>0. /\ Len(q) \in Nat /\ s \in Seq(Nat) /\ L \in Nat /\ L > 6
      /\ \A a \in 1..L : InUnits(s, a)
  BY SpellingInUnits, LenProperties
<1>1. /\ t \in Seq(Nat) /\ p \in 1..Len(t) /\ t[p] = s[1]
  <2>1. /\ t \in Seq(Nat) /\ Len(t) = Len(q) + Len(s)
        /\ \A k \in 1..Len(s) : t[Len(q) + k] = s[k]
    BY <1>0, ConcatProperties
  <2>2. QED
    BY <1>0, <2>1
<1>2. C(0) \in Nat /\ C(1) \in Nat /\ C(2) \in Nat /\ C(3) \in Nat /\ C(4) \in Nat
  BY <1>0, DigitsAfterFinite
<1>3. /\ C(0) = C(1) + (IF s[1] \in Digit THEN 1 ELSE 0)
      /\ C(1) = C(2) + (IF s[2] \in Digit THEN 1 ELSE 0)
      /\ C(2) = C(3) + (IF s[3] \in Digit THEN 1 ELSE 0)
      /\ C(3) = C(4) + (IF s[4] \in Digit THEN 1 ELSE 0)
  <2>1. ASSUME NEW a \in 0..3, NEW b, b = a + 1
        PROVE C(a) = C(b) + (IF s[b] \in Digit THEN 1 ELSE 0)
    BY <1>0, <2>1, FirstOfDigits
  <2> HIDE DEF C
  <2>2. QED
    BY <2>1
<1>counts. /\ \A x, y \in Nat : x = y + 1 /\ x \in 9..11 => y \in 8..10
          /\ \A x, y \in Nat : x = y + 2 /\ x \in 10..12 => y \in 8..10
  OBVIOUS
<1>sums. /\ \A x, y \in Nat : x = y + 0 => x = y
        /\ \A x, y, z \in Nat : x = y + 1 /\ y = z + 1 => x = z + 2
  OBVIOUS
<1>4. ASSUME NEW a \in 1..4, NEW least \in Nat, NEW most \in Nat, C(a) \in least..most
      PROVE  AfterUnits(t, p + a, least, most) = (Len(q) + L) + 1
  <2>1. a \in 0..L /\ InUnits(s, a) /\ (Len(q) + a) + 1 = p + a
    BY <1>0
  <2>2. AfterUnits(q \o s, (Len(q) + a) + 1, least, most) = (Len(q) + L) + 1
    BY <1>0, <1>4, <2>1, NumberInUnits
  <2>3. QED
    BY <2>1, <2>2
<1>5. \/ s[1] = 0 /\ C(0) \in 9..11
      \/ (IsPrefix(<<Plus, 8, 4>>, s) \/ IsPrefix(<<8, 4>>, s)) /\ C(0) \in 10..12
      \/ (IsPrefix(<<1, 9, 0, 0>>, s) \/ IsPrefix(<<1, 8, 0, 0>>, s)) /\ C(0) \in 8..11
  <2>1. Dialable(s)
    BY InputConstantsOK, Zenon DEF InputsOK
  <2>2. { i \in DOMAIN s : s[i] \in Digit } = DigitsAfter(s, 0, L)
    BY <1>0, LenProperties DEF DigitsAfter
  <2>3. QED
    BY <2>1, <2>2, Zenon DEF Dialable
<1>6. MatchEnd(t, p) =
         IF t[p] = 0 THEN AfterUnits(t, p + 1, 8, 10)
         ELSE IF StandsAt(t, p, <<Plus, 8, 4>>) THEN AfterUnits(t, p + 3, 8, 10)
         ELSE IF StandsAt(t, p, <<8, 4>>) THEN AfterUnits(t, p + 2, 8, 10)
         ELSE IF StandsAt(t, p, <<1, 8, 0, 0>>) \/ StandsAt(t, p, <<1, 9, 0, 0>>)
              THEN AfterUnits(t, p + 4, 4, 7)
         ELSE 0
  BY <1>1, MatchBegins
<1>7. /\ StandsAt(t, p, <<Plus, 8, 4>>) => t[p] = Plus
      /\ StandsAt(t, p, <<8, 4>>) => t[p] = 8
  <2>1. /\ StandsAt(t, p, <<Plus, 8, 4>>) => t[(p + 1) - 1] = Plus
        /\ StandsAt(t, p, <<8, 4>>) => t[(p + 1) - 1] = 8
    <3> HIDE DEF t, p
    <3>1. /\ 1 \in 1..Len(<<Plus, 8, 4>>) /\ <<Plus, 8, 4>>[1] = Plus
          /\ 1 \in 1..Len(<<8, 4>>) /\ <<8, 4>>[1] = 8
      OBVIOUS
    <3>2. QED
      BY <3>1, Zenon DEF StandsAt
  <2>2. (p + 1) - 1 = p
    BY <1>0
  <2>3. QED
    BY <2>1, <2>2
<1>8. 0 \in Digit /\ 1 \in Digit /\ 8 \in Digit /\ 9 \in Digit /\ 4 \in Digit /\ Plus \notin Digit
  BY DEF Digit, Plus
<1>9. /\ IsPrefix(<<Plus, 8, 4>>, s) => /\ StandsAt(t, p, <<Plus, 8, 4>>)
                                       /\ s[1] = Plus /\ s[2] = 8 /\ s[3] = 4
      /\ IsPrefix(<<8, 4>>, s) => StandsAt(t, p, <<8, 4>>) /\ s[1] = 8 /\ s[2] = 4
  <2>1. <<Plus, 8, 4>> \in Seq(Nat) /\ <<8, 4>> \in Seq(Nat)
    BY DEF Plus
  <2>2. IsPrefix(<<Plus, 8, 4>>, s) =>
           StandsAt(t, p, <<Plus, 8, 4>>) /\ \A i \in 1..3 : s[i] = <<Plus, 8, 4>>[i]
    <3>1. Len(<<Plus, 8, 4>>) = 3
      OBVIOUS
    <3>2. QED
      BY <1>0, <2>1, <3>1, BeginningStands
  <2>3. IsPrefix(<<8, 4>>, s) => StandsAt(t, p, <<8, 4>>) /\ \A i \in 1..2 : s[i] = <<8, 4>>[i]
    <3>1. Len(<<8, 4>>) = 2
      OBVIOUS
    <3>2. QED
      BY <1>0, <2>1, <3>1, BeginningStands
  <2>4. QED
    BY <2>2, <2>3
<1>10. ASSUME NEW d \in {8, 9}, IsPrefix(<<1, d, 0, 0>>, s)
       PROVE  StandsAt(t, p, <<1, d, 0, 0>>) /\ s[1] = 1 /\ s[2] = d /\ s[3] = 0 /\ s[4] = 0
  <2>1. <<1, d, 0, 0>> \in Seq(Nat) /\ Len(<<1, d, 0, 0>>) = 4
    OBVIOUS
  <2>2. StandsAt(t, p, <<1, d, 0, 0>>) /\ \A i \in 1..4 : s[i] = <<1, d, 0, 0>>[i]
    BY <1>0, <1>10, <2>1, BeginningStands
  <2>3. QED
    BY <2>2
<1> HIDE DEF t, p, L, C
<1>11. CASE s[1] = 0 /\ C(0) \in 9..11
  <2>1. C(1) \in 8..10
    <3>1. s[1] \in Digit /\ C(0) \in 9..11
      BY <1>8, <1>11
    <3>2. C(0) = C(1) + 1
      BY <1>3, <3>1, Zenon
    <3>3. QED
      BY <1>2, <1>counts, <3>1, <3>2, Zenon
  <2>2. AfterUnits(t, p + 1, 8, 10) = (Len(q) + L) + 1
    BY <1>4, <2>1
  <2>3. QED
    BY <1>1, <1>6, <1>11, <2>2 DEF t, p, L
<1>12. CASE IsPrefix(<<Plus, 8, 4>>, s) /\ C(0) \in 10..12
  <2>1. C(3) \in 8..10
    <3>1. s[1] \notin Digit /\ s[2] \in Digit /\ s[3] \in Digit
      BY <1>8, <1>9, <1>12
    <3>2. C(0) = C(1) + 0 /\ C(1) = C(2) + 1 /\ C(2) = C(3) + 1
      BY <1>3, <3>1, Zenon
    <3>3. C(0) = C(1) /\ C(1) = C(3) + 2
      BY <1>2, <1>sums, <3>2, Zenon
    <3>4. QED
      BY <1>2, <1>12, <1>counts, <3>3, Zenon
  <2>2. AfterUnits(t, p + 3, 8, 10) = (Len(q) + L) + 1
    BY <1>4, <2>1
  <2>3. t[p] # 0 /\ StandsAt(t, p, <<Plus, 8, 4>>)
    BY <1>1, <1>9, <1>12 DEF Plus
  <2>4. QED
    BY <1>6, <2>2, <2>3 DEF t, p, L
<1>13. CASE IsPrefix(<<8, 4>>, s) /\ C(0) \in 10..12
  <2>1. C(2) \in 8..10
    <3>1. s[1] \in Digit /\ s[2] \in Digit
      BY <1>8, <1>9, <1>13
    <3>2. C(0) = C(1) + 1 /\ C(1) = C(2) + 1
      BY <1>3, <3>1, Zenon
    <3>3. C(0) = C(2) + 2
      BY <1>2, <1>sums, <3>2, Zenon
    <3>4. QED
      BY <1>2, <1>13, <1>counts, <3>3, Zenon
  <2>2. AfterUnits(t, p + 2, 8, 10) = (Len(q) + L) + 1
    BY <1>4, <2>1
  <2>3. t[p] = 8 /\ StandsAt(t, p, <<8, 4>>) /\ ~StandsAt(t, p, <<Plus, 8, 4>>)
    BY <1>1, <1>7, <1>9, <1>13 DEF Plus
  <2>4. QED
    BY <1>6, <2>2, <2>3 DEF t, p, L
<1>14. ASSUME NEW d \in {8, 9}, IsPrefix(<<1, d, 0, 0>>, s), C(0) \in 8..11
       PROVE  MatchEnd(t, p) = (Len(q) + L) + 1
  <2>0. StandsAt(t, p, <<1, d, 0, 0>>) /\ s[1] = 1 /\ s[2] = d /\ s[3] = 0 /\ s[4] = 0
    BY <1>10, <1>14
  <2>1. C(4) \in 4..7
    <3>1. s[1] \in Digit /\ s[2] \in Digit /\ s[3] \in Digit /\ s[4] \in Digit
      BY <1>8, <2>0
    <3>2. C(0) = C(1) + 1 /\ C(1) = C(2) + 1 /\ C(2) = C(3) + 1 /\ C(3) = C(4) + 1
      BY <1>3, <3>1, Zenon
    <3>3. C(0) = C(2) + 2
      <4>1. C(0) = C(1) + 1 /\ C(1) = C(2) + 1 /\ C(0) \in Nat /\ C(1) \in Nat /\ C(2) \in Nat
        BY <1>2, <3>2
      <4>2. QED
        BY <1>sums, <4>1, Zenon
    <3>4. C(2) = C(4) + 2
      <4>1. C(2) = C(3) + 1 /\ C(3) = C(4) + 1 /\ C(2) \in Nat /\ C(3) \in Nat /\ C(4) \in Nat
        BY <1>2, <3>2
      <4>2. QED
        BY <1>sums, <4>1, Zenon
    <3>5. C(0) = C(4) + 4
      <4>1. C(0) \in Nat /\ C(2) \in Nat /\ C(4) \in Nat
        BY <1>2
      <4>2. QED
        <5>1. \A x, y, z \in Nat : x = y + 2 /\ y = z + 2 => x = z + 4
          OBVIOUS
        <5>2. QED
          BY <3>3, <3>4, <4>1, <5>1, Zenon
    <3>6. C(0) \in Nat /\ C(4) \in Nat /\ C(0) \in 8..11
      BY <1>2, <1>14
    <3>7. QED
      <4>1. \A x, y \in Nat : x = y + 4 /\ x \in 8..11 => y \in 4..7
        OBVIOUS
      <4>2. QED
        BY <3>5, <3>6, <4>1, Zenon
  <2>2. AfterUnits(t, p + 4, 4, 7) = (Len(q) + L) + 1
    BY <1>4, <2>1
  <2>3. t[p] = 1 /\ ~StandsAt(t, p, <<8, 4>>) /\ ~StandsAt(t, p, <<Plus, 8, 4>>)
    BY <1>1, <1>7, <2>0 DEF Plus
  <2>4. StandsAt(t, p, <<1, 8, 0, 0>>) \/ StandsAt(t, p, <<1, 9, 0, 0>>)
    BY <2>0
  <2>5. QED
    BY <1>6, <2>2, <2>3, <2>4
<1>15. QED
  BY <1>5, <1>11, <1>12, <1>13, <1>14 DEF t, p, L

-----------------------------------------------------------------------------
(* The numbers read from a text, without their contexts.                   *)

PhonesOf(found) == [i \in DOMAIN found |-> found[i].phone]

NumbersOf(t) == PhonesOf(ExtractFromText(t))

\* h is what is read from each position of t on.
IsReading(h, t) ==
    /\ h \in [1..(Len(t) + 1) -> Seq(Seq(Nat))]
    /\ h[Len(t) + 1] = <<>>
    /\ \A p \in 1..Len(t) :
          h[p] = IF MatchEnd(t, p) = 0 THEN h[p + 1]
                 ELSE <<SubSeq(t, p, MatchEnd(t, p) - 1)>> \o h[MatchEnd(t, p)]

LEMMA TextsGroup ==
    ASSUME NEW S, NEW a \in Seq(S), NEW b \in Seq(S), NEW c \in Seq(S)
    PROVE  a \o (b \o c) = (a \o b) \o c
BY ConcatAssociative, SMTT(30)

LEMMA ConcatGroups ==
    ASSUME NEW s \in Seq(Seq(Nat)), NEW t \in Seq(Seq(Nat)), NEW u \in Seq(Seq(Nat))
    PROVE  s \o (t \o u) = (s \o t) \o u
BY TextsGroup, SMTT(30)

LEMMA PhonesOfIs ==
    ASSUME NEW F, \A x \in F : x.phone \in Seq(Nat), NEW found \in Seq(F)
    PROVE  /\ PhonesOf(found) \in Seq(Seq(Nat)) /\ Len(PhonesOf(found)) = Len(found)
           /\ \A i \in 1..Len(found) : PhonesOf(found)[i] = found[i].phone
<1>1. Len(found) \in Nat /\ DOMAIN found = 1..Len(found) /\ \A i \in 1..Len(found) : found[i] \in F
  BY LenProperties, ElementOfSeq
<1>2. PhonesOf(found) \in [1..Len(found) -> Seq(Nat)]
  BY <1>1 DEF PhonesOf
<1>3. \A i \in 1..Len(found) : PhonesOf(found)[i] = found[i].phone
  BY <1>1 DEF PhonesOf
<1>4. PhonesOf(found) \in Seq(Seq(Nat)) /\ Len(PhonesOf(found)) = Len(found)
  BY <1>1, <1>2, SeqDef, LenProperties
<1>5. QED
  BY <1>3, <1>4

LEMMA PhonesOfConcat ==
    ASSUME NEW F, \A x \in F : x.phone \in Seq(Nat), NEW c \in F, NEW found \in Seq(F)
    PROVE  PhonesOf(<<c>> \o found) = <<c.phone>> \o PhonesOf(found)
<1> DEFINE a == <<c>> \o found
           b == <<c.phone>> \o PhonesOf(found)
<1>1. <<c>> \in Seq(F) /\ Len(<<c>>) = 1 /\ <<c>>[1] = c
  OBVIOUS
<1>2. Len(found) \in Nat
  BY LenProperties
<1>3. /\ a \in Seq(F) /\ Len(a) = 1 + Len(found)
      /\ \A i \in 1..(1 + Len(found)) : a[i] = IF i <= 1 THEN <<c>>[i] ELSE found[i - 1]
  BY <1>1, <1>2, ConcatProperties
<1>4. /\ <<c.phone>> \in Seq(Seq(Nat)) /\ Len(<<c.phone>>) = 1 /\ <<c.phone>>[1] = c.phone
  OBVIOUS
<1>5. /\ PhonesOf(found) \in Seq(Seq(Nat)) /\ Len(PhonesOf(found)) = Len(found)
      /\ \A i \in 1..Len(found) : PhonesOf(found)[i] = found[i].phone
  BY PhonesOfIs
<1>6. /\ b \in Seq(Seq(Nat)) /\ Len(b) = 1 + Len(found)
      /\ \A i \in 1..(1 + Len(found)) : b[i] = IF i <= 1 THEN <<c.phone>>[i] ELSE PhonesOf(found)[i - 1]
  BY <1>2, <1>4, <1>5, ConcatProperties
<1> HIDE DEF a, b
<1>7. /\ PhonesOf(a) \in Seq(Seq(Nat)) /\ Len(PhonesOf(a)) = Len(a)
      /\ \A i \in 1..Len(a) : PhonesOf(a)[i] = a[i].phone
  BY <1>3, PhonesOfIs
<1>8. ASSUME NEW i \in 1..Len(b) PROVE PhonesOf(a)[i] = b[i]
  <2>1. CASE i = 1
    BY <1>1, <1>2, <1>3, <1>4, <1>6, <1>7, <2>1
  <2>2. CASE i # 1
    <3>1. i \in 1..(1 + Len(found)) /\ ~(i <= 1) /\ i - 1 \in 1..Len(found) /\ i \in 1..Len(a)
      BY <1>2, <1>3, <1>6, <2>2
    <3>2. a[i] = found[i - 1] /\ b[i] = PhonesOf(found)[i - 1]
      BY <1>3, <1>6, <3>1
    <3>3. QED
      BY <1>5, <1>7, <3>1, <3>2
  <2>3. QED
    BY <2>1, <2>2
<1>9. PhonesOf(a) = b
  BY <1>3, <1>6, <1>7, <1>8, SeqEqual
<1>10. QED
  BY <1>9 DEF a, b

LEMMA ReadingExists ==
    ASSUME NEW t \in Seq(Nat)
    PROVE  \E h : IsReading(h, t) /\ NumbersOf(t) = h[1]
<1> DEFINE L == Len(t)
           F == FoundIn(t)
<1>0. L \in Nat
  BY LenProperties
<1>1. PICK f : IsScan(f, t, 1) /\ ExtractFromText(t) = f[1]
  BY ExtractionScans
<1>2. /\ f \in [1..(L + 1) -> Seq(F)]
      /\ \A p \in 1..(L + 1) : f[p] = FromOn(f, t, p)
  BY <1>1 DEF IsScan
<1>3. ASSUME NEW x \in F PROVE x.phone \in Seq(Nat)
  <2>1. PICK p \in 1..L : MatchEnd(t, p) # 0 /\ x = Candidate(t, p, MatchEnd(t, p))
    BY <1>3 DEF FoundIn
  <2>2. PICK e \in (p + 1)..(L + 1) : e = MatchEnd(t, p)
    BY <2>1, MatchEndIs
  <2>3. x.phone = SubSeq(t, p, e - 1) /\ e - 1 \in p..L
    BY <1>0, <2>1, <2>2, SMTT(30) DEF Candidate
  <2>4. QED
    BY <2>3, PartOfText
<1> HIDE DEF F
<1> DEFINE h == [p \in 1..(L + 1) |-> PhonesOf(f[p])]
<1>4. \A p \in 1..(L + 1) : h[p] = PhonesOf(f[p])
  OBVIOUS
<1>5. h \in [1..(L + 1) -> Seq(Seq(Nat))]
  <2>1. \A p \in 1..(L + 1) : PhonesOf(f[p]) \in Seq(Seq(Nat))
    BY <1>2, <1>3, PhonesOfIs
  <2>2. QED
    BY <2>1
<1> HIDE DEF h
<1>6. h[L + 1] = <<>>
  <2>1. L + 1 \in 1..(L + 1)
    BY <1>0
  <2>2. f[L + 1] = <<>>
    BY <1>2, <2>1 DEF FromOn
  <2>3. PhonesOf(<<>>) = <<>>
    BY DEF PhonesOf
  <2>4. QED
    BY <1>4, <2>1, <2>2, <2>3
<1>7. ASSUME NEW p \in 1..L
      PROVE  h[p] = IF MatchEnd(t, p) = 0 THEN h[p + 1]
                    ELSE <<SubSeq(t, p, MatchEnd(t, p) - 1)>> \o h[MatchEnd(t, p)]
  <2>1. p \in 1..(L + 1) /\ p + 1 \in 1..(L + 1) /\ p # L + 1
    BY <1>0
  <2>2. CASE MatchEnd(t, p) = 0
    <3>1. f[p] = f[p + 1]
      BY <1>2, <2>1, <2>2 DEF FromOn
    <3>2. QED
      BY <1>4, <2>1, <2>2, <3>1
  <2>3. CASE MatchEnd(t, p) # 0
    <3>1. PICK e \in (p + 1)..(L + 1) : e = MatchEnd(t, p)
      BY <2>3, MatchEndIs
    <3> DEFINE c == Candidate(t, p, e)
    <3>2. f[p] = <<c>> \o f[e]
      BY <1>2, <2>1, <2>3, <3>1 DEF FromOn
    <3>3. c \in F /\ c.phone = SubSeq(t, p, e - 1)
      <4>1. c \in F
        BY <2>3, <3>1 DEF F, FoundIn
      <4>2. QED
        BY <4>1 DEF Candidate
    <3>4. e \in 1..(L + 1) /\ f[e] \in Seq(F)
      BY <1>0, <1>2
    <3> HIDE DEF c
    <3>5. PhonesOf(<<c>> \o f[e]) = <<c.phone>> \o PhonesOf(f[e])
      BY <1>3, <3>3, <3>4, PhonesOfConcat
    <3>6. h[p] = <<SubSeq(t, p, e - 1)>> \o h[e]
      BY <1>4, <2>1, <3>2, <3>3, <3>4, <3>5
    <3>7. QED
      BY <2>3, <3>1, <3>6
  <2>4. QED
    BY <2>2, <2>3
<1>8. NumbersOf(t) = h[1]
  <2>1. 1 \in 1..(L + 1)
    BY <1>0
  <2>2. QED
    BY <1>1, <1>4, <2>1 DEF NumbersOf
<1>9. IsReading(h, t)
  BY <1>5, <1>6, <1>7 DEF IsReading
<1>10. QED
  BY <1>8, <1>9

\* Nothing is read where no match begins.
LEMMA NothingRead ==
    ASSUME NEW t \in Seq(Nat), NEW h, IsReading(h, t), NEW k \in 1..(Len(t) + 1),
           \A p \in k..Len(t) : MatchEnd(t, p) = 0
    PROVE  h[k] = <<>>
<1> DEFINE L == Len(t)
           Good == {m \in Nat : \A p \in k..(L + 1) : p = (L + 1) - m => h[p] = <<>>}
<1>0. L \in Nat
  BY LenProperties
<1>1. /\ h[L + 1] = <<>>
      /\ \A p \in 1..L : MatchEnd(t, p) = 0 => h[p] = h[p + 1]
  BY DEF IsReading
<1>2. 0 \in Good
  BY <1>0, <1>1
<1>3. ASSUME NEW m \in Nat, m \in Good PROVE m + 1 \in Good
  <2> SUFFICES ASSUME NEW p \in k..(L + 1), p = (L + 1) - (m + 1) PROVE h[p] = <<>>
    OBVIOUS
  <2>1. p + 1 \in k..(L + 1) /\ p + 1 = (L + 1) - m /\ p \in k..L /\ p \in 1..L
    BY <1>0
  <2>2. h[p + 1] = <<>>
    BY <1>3, <2>1
  <2>3. QED
    BY <1>1, <2>1, <2>2
<1>4. Nat \subseteq Good
  <2> HIDE DEF Good
  <2>1. QED
    BY <1>2, <1>3, AllNumbers
<1>5. (L + 1) - k \in Nat /\ k \in k..(L + 1) /\ k = (L + 1) - ((L + 1) - k)
  BY <1>0
<1>6. (L + 1) - k \in Good
  BY <1>4, <1>5
<1>7. QED
  BY <1>5, <1>6

\* The text x that is added to q changes no earlier match.
Harmless(q, x) == \A p \in 1..Len(q) : MatchEnd(q \o x, p) = MatchEnd(q, p)

\* What is then read from the longer text comes after what was read before.
LEMMA ReadingGoesOn ==
    ASSUME NEW q \in Seq(Nat), NEW x \in Seq(Nat), Harmless(q, x)
    PROVE  \A g, h : IsReading(g, q) /\ IsReading(h, q \o x) => h[1] = g[1] \o h[Len(q) + 1]
<1> SUFFICES ASSUME NEW g, NEW h, IsReading(g, q), IsReading(h, q \o x)
             PROVE  h[1] = g[1] \o h[Len(q) + 1]
  OBVIOUS
<1> DEFINE t == q \o x
           L == Len(q)
           r == h[L + 1]
           Good == {m \in Nat : m <= L => \A p \in ((L + 1) - m)..(L + 1) : h[p] = g[p] \o r}
<1>0. /\ L \in Nat /\ t \in Seq(Nat) /\ Len(t) \in Nat /\ L <= Len(t)
      /\ \A i \in 1..L : t[i] = q[i]
  <2>1. L \in Nat /\ Len(x) \in Nat
    BY LenProperties
  <2>2. QED
    BY <2>1, ConcatProperties
<1> HIDE DEF t
<1>1. /\ g \in [1..(L + 1) -> Seq(Seq(Nat))] /\ g[L + 1] = <<>>
      /\ \A p \in 1..L :
           g[p] = IF MatchEnd(q, p) = 0 THEN g[p + 1]
                  ELSE <<SubSeq(q, p, MatchEnd(q, p) - 1)>> \o g[MatchEnd(q, p)]
  BY DEF IsReading
<1>2. /\ h \in [1..(Len(t) + 1) -> Seq(Seq(Nat))]
      /\ \A p \in 1..Len(t) :
           h[p] = IF MatchEnd(t, p) = 0 THEN h[p + 1]
                  ELSE <<SubSeq(t, p, MatchEnd(t, p) - 1)>> \o h[MatchEnd(t, p)]
  BY DEF IsReading, t
<1>3. r \in Seq(Seq(Nat)) /\ \A p \in 1..(L + 1) : g[p] \in Seq(Seq(Nat))
  <2>1. L + 1 \in 1..(Len(t) + 1) /\ 1..(L + 1) \subseteq 1..(L + 1)
    BY <1>0
  <2>2. QED
    BY <1>1, <1>2, <2>1
<1>4. h[L + 1] = g[L + 1] \o r
  BY <1>1, <1>3, ConcatEmptySeq
<1> HIDE DEF r
<1>5. 0 \in Good
  <2>1. \A p \in ((L + 1) - 0)..(L + 1) : p = L + 1
    BY <1>0
  <2>2. QED
    BY <1>4, <2>1
<1>6. ASSUME NEW m \in Nat, m \in Good PROVE m + 1 \in Good
  <2> SUFFICES ASSUME m + 1 <= L, NEW p \in ((L + 1) - (m + 1))..(L + 1)
               PROVE  h[p] = g[p] \o r
    OBVIOUS
  <2>1. \A i \in ((L + 1) - m)..(L + 1) : h[i] = g[i] \o r
    BY <1>0, <1>6, SMTT(30)
  <2>2. CASE p \in ((L + 1) - m)..(L + 1)
    BY <2>1, <2>2
  <2>3. CASE p \notin ((L + 1) - m)..(L + 1)
    <3>1. p \in 1..L /\ p \in 1..Len(t) /\ p + 1 \in ((L + 1) - m)..(L + 1)
      BY <1>0, <2>3, SMTT(30)
    <3>2. MatchEnd(t, p) = MatchEnd(q, p)
      BY <3>1 DEF t, Harmless
    <3>3. CASE MatchEnd(q, p) = 0
      <4>1. h[p] = h[p + 1] /\ g[p] = g[p + 1]
        BY <1>1, <1>2, <3>1, <3>2, <3>3
      <4>2. QED
        BY <2>1, <3>1, <4>1
    <3>4. CASE MatchEnd(q, p) # 0
      <4>1. PICK e \in (p + 1)..(L + 1) : e = MatchEnd(q, p)
        BY <3>1, <3>4, MatchEndIs
      <4>2. /\ h[p] = <<SubSeq(t, p, e - 1)>> \o h[e]
            /\ g[p] = <<SubSeq(q, p, e - 1)>> \o g[e]
        BY <1>1, <1>2, <3>1, <3>2, <3>4, <4>1
      <4>3. /\ e \in ((L + 1) - m)..(L + 1) /\ e \in 1..(L + 1)
            /\ e - 1 \in p..L /\ e - 1 \in p..Len(t)
        <5>1. /\ e \in Int /\ p + 1 <= e /\ e <= L + 1
              /\ p \in Int /\ 1 <= p /\ (L + 1) - m <= p + 1
          BY <1>0, <3>1
        <5>2. L \in Nat /\ Len(t) \in Nat /\ L <= Len(t) /\ m \in Nat
          BY <1>0
        <5> HIDE DEF L
        <5>3. QED
          BY <5>1, <5>2
      <4>4. SubSeq(t, p, e - 1) = SubSeq(q, p, e - 1)
        <5> DEFINE b == e - 1
                   n == (b - p) + 1
        <5>1. /\ SubSeq(t, p, b) \in Seq(Nat) /\ Len(SubSeq(t, p, b)) = n
              /\ \A i \in 1..n : SubSeq(t, p, b)[i] = t[(p + i) - 1]
          BY <1>0, <3>1, <4>3, PartOfText
        <5>2. /\ SubSeq(q, p, b) \in Seq(Nat) /\ Len(SubSeq(q, p, b)) = n
              /\ \A i \in 1..n : SubSeq(q, p, b)[i] = q[(p + i) - 1]
          BY <3>1, <4>3, PartOfText
        <5>3. \A i \in 1..n : (p + i) - 1 \in 1..L
          <6>1. p \in Int /\ 1 <= p /\ b \in Int /\ p <= b /\ b <= L /\ L \in Nat
            BY <1>0, <3>1, <4>3
          <6> HIDE DEF b, L
          <6>2. QED
            BY <6>1
        <5>4. \A i \in 1..n : SubSeq(t, p, b)[i] = SubSeq(q, p, b)[i]
          BY <1>0, <5>1, <5>2, <5>3
        <5> HIDE DEF b, n
        <5>5. SubSeq(t, p, b) = SubSeq(q, p, b)
          BY <5>1, <5>2, <5>4, SeqEqual
        <5>6. QED
          BY <5>5 DEF b
      <4> DEFINE y == SubSeq(q, p, e - 1)
      <4>5. y \in Seq(Nat)
        BY <3>1, <4>3, PartOfText
      <4> HIDE DEF y
      <4>6. <<y>> \in Seq(Seq(Nat)) /\ g[e] \in Seq(Seq(Nat))
        BY <1>3, <4>3, <4>5
      <4>7. h[e] = g[e] \o r
        BY <2>1, <4>3
      <4>8. <<y>> \o (g[e] \o r) = (<<y>> \o g[e]) \o r
        <5> DEFINE z == <<y>>
                   w == g[e]
        <5>1. z \in Seq(Seq(Nat)) /\ w \in Seq(Seq(Nat)) /\ r \in Seq(Seq(Nat))
          BY <1>3, <4>6
        <5> HIDE DEF z, w
        <5>2. z \o (w \o r) = (z \o w) \o r
          BY <5>1, ConcatGroups
        <5>3. QED
          BY <5>2 DEF z, w
      <4>9. QED
        BY <4>2, <4>4, <4>7, <4>8 DEF y
    <3>5. QED
      BY <3>3, <3>4
  <2>4. QED
    BY <2>2, <2>3
<1>7. Nat \subseteq Good
  <2> HIDE DEF Good
  <2>1. QED
    BY <1>5, <1>6, AllNumbers
<1>8. L \in Good /\ L <= L /\ 1 \in ((L + 1) - L)..(L + 1)
  <2> HIDE DEF Good
  <2>1. QED
    BY <1>0, <1>7
<1>9. h[1] = g[1] \o r
  BY <1>8
<1>10. QED
  BY <1>9 DEF r

LEMMA NumbersGoOn ==
    ASSUME NEW q \in Seq(Nat), NEW x \in Seq(Nat), Harmless(q, x)
    PROVE  \E h : /\ IsReading(h, q \o x)
                  /\ NumbersOf(q \o x) = NumbersOf(q) \o h[Len(q) + 1]
                  /\ NumbersOf(q) \in Seq(Seq(Nat))
<1>1. PICK g : IsReading(g, q) /\ NumbersOf(q) = g[1]
  BY ReadingExists
<1>2. q \o x \in Seq(Nat)
  BY ConcatProperties
<1>3. PICK h : IsReading(h, q \o x) /\ NumbersOf(q \o x) = h[1]
  BY <1>2, ReadingExists
<1>4. \A a, b : IsReading(a, q) /\ IsReading(b, q \o x) => b[1] = a[1] \o b[Len(q) + 1]
  BY ReadingGoesOn
<1>5. h[1] = g[1] \o h[Len(q) + 1]
  BY <1>1, <1>3, <1>4, Zenon
<1>6. g[1] \in Seq(Seq(Nat))
  <2>1. 1 \in 1..(Len(q) + 1)
    BY LenProperties
  <2>2. QED
    BY <1>1, <2>1 DEF IsReading
<1>7. QED
  BY <1>1, <1>3, <1>5, <1>6, Zenon

LEMMA NoMatchWithoutDigit ==
    ASSUME NEW t \in Seq(Nat), NEW p \in 1..Len(t), t[p] \notin PhoneChar
    PROVE  MatchEnd(t, p) = 0
<1>1. /\ 1 \in 1..Len(<<Plus, 8, 4>>) /\ <<Plus, 8, 4>>[1] = Plus
      /\ 1 \in 1..Len(<<8, 4>>) /\ <<8, 4>>[1] = 8
      /\ 1 \in 1..Len(<<1, 8, 0, 0>>) /\ <<1, 8, 0, 0>>[1] = 1
      /\ 1 \in 1..Len(<<1, 9, 0, 0>>) /\ <<1, 9, 0, 0>>[1] = 1
  OBVIOUS
<1>2. t[(p + 1) - 1] = t[p]
  BY LenProperties
<1>3. t[p] # Plus /\ t[p] # 8 /\ t[p] # 1 /\ t[p] # 0
  BY DEF PhoneChar, Digit
<1>4. /\ ~StandsAt(t, p, <<Plus, 8, 4>>) /\ ~StandsAt(t, p, <<8, 4>>)
      /\ ~StandsAt(t, p, <<1, 8, 0, 0>>) /\ ~StandsAt(t, p, <<1, 9, 0, 0>>)
  BY <1>1, <1>2, <1>3, Zenon DEF StandsAt
<1>5. QED
  BY <1>3, <1>4, MatchBegins

\* A character that no number has, added to a text, changes no number of it.
LEMMA NoNumberAdded ==
    ASSUME NEW q \in Seq(Nat), NEW c \in Nat, c \notin PhoneChar
    PROVE  NumbersOf(Append(q, c)) = NumbersOf(q)
<1> DEFINE x == <<c>>
           t == q \o x
           L == Len(q)
<1>0. /\ L \in Nat /\ x \in Seq(Nat) /\ t \in Seq(Nat) /\ Len(t) = L + 1
      /\ t[L + 1] = c /\ \A i \in 1..L : t[i] = q[i]
  <2>1. x \in Seq(Nat) /\ Len(x) = 1 /\ x[1] = c /\ L \in Nat
    BY LenProperties
  <2> HIDE DEF x
  <2>2. /\ t \in Seq(Nat) /\ Len(t) = L + 1
        /\ \A i \in 1..(L + 1) : t[i] = IF i <= L THEN q[i] ELSE x[i - L]
    <3>1. /\ t \in Seq(Nat) /\ Len(t) = L + Len(x)
          /\ \A i \in 1..(L + Len(x)) : t[i] = IF i <= L THEN q[i] ELSE x[i - L]
      BY <2>1, ConcatProperties
    <3>2. Len(x) = 1
      BY <2>1
    <3>3. QED
      BY <3>1, <3>2, Zenon
  <2>3. L + 1 \in 1..(L + 1) /\ ~(L + 1 <= L) /\ (L + 1) - L = 1
        /\ \A i \in 1..L : i \in 1..(L + 1) /\ i <= L
    BY <2>1
  <2>4. QED
    BY <2>1, <2>2, <2>3
<1>1. Append(q, c) = t
  BY AppendIsConcat
<1> HIDE DEF t, x
<1>2. AlikeUpTo(q, t, L)
  <2>1. DOMAIN q = 1..L /\ DOMAIN t = 1..(L + 1)
    BY <1>0, LenProperties
  <2>2. StopsAt(q, L)
    BY <1>0, <2>1 DEF StopsAt
  <2>3. StopsAt(t, L)
    BY <1>0, <2>1 DEF StopsAt, PhoneChar
  <2>4. QED
    BY <1>0, <2>2, <2>3 DEF AlikeUpTo
<1>3. Harmless(q, x)
  <2>1. \A p \in 1..L : MatchEnd(t, p) = MatchEnd(q, p)
    BY <1>0, <1>2, MatchAlike
  <2>2. QED
    BY <2>1 DEF Harmless, t
<1>4. PICK h : /\ IsReading(h, t) /\ NumbersOf(t) = NumbersOf(q) \o h[L + 1]
               /\ NumbersOf(q) \in Seq(Seq(Nat))
  BY <1>0, <1>3, NumbersGoOn DEF t
<1>5. h[L + 1] = <<>>
  <2>1. MatchEnd(t, L + 1) = 0
    BY <1>0, NoMatchWithoutDigit, SMTT(30)
  <2>2. L + 1 \in 1..(Len(t) + 1) /\ \A p \in (L + 1)..Len(t) : p = L + 1
    BY <1>0
  <2>3. \A p \in (L + 1)..Len(t) : MatchEnd(t, p) = 0
    BY <2>1, <2>2
  <2>4. QED
    BY <1>0, <1>4, <2>2, <2>3, NothingRead
<1>6. NumbersOf(t) = NumbersOf(q)
  BY <1>4, <1>5, ConcatEmptySeq
<1>7. QED
  BY <1>1, <1>6

-----------------------------------------------------------------------------
(* A number that comes after something no number is written with.          *)

CleanTail(q) ==
    \E b \in 0..Len(q) :
       /\ b = 0 \/ q[b] \notin PhoneChar \cup Separators
       /\ \A i \in (b + 1)..Len(q) : q[i] \notin PhoneChar

LEMMA OldMatchesStay ==
    ASSUME NEW q \in Seq(Nat), NEW s \in Seq(Nat), CleanTail(q), NEW p \in 1..Len(q)
    PROVE  MatchEnd(q \o s, p) = MatchEnd(q, p)
<1> DEFINE t == q \o s
           L == Len(q)
<1>0. /\ L \in Nat /\ t \in Seq(Nat) /\ Len(t) \in Nat /\ Len(t) >= L
      /\ \A i \in 1..L : t[i] = q[i]
  <2>1. L \in Nat /\ Len(s) \in Nat
    BY LenProperties
  <2>2. QED
    BY <2>1, ConcatProperties
<1>1. PICK b \in 0..L : /\ b = 0 \/ q[b] \notin PhoneChar \cup Separators
                        /\ \A i \in (b + 1)..L : q[i] \notin PhoneChar
  BY DEF CleanTail
<1> HIDE DEF t
<1>2. CASE p < b
  <2>1. PICK k \in Nat : k = b - 1 /\ k + 1 = b
    BY <1>0, <1>2
  <2>2. k <= L /\ k <= Len(t) /\ p \in 1..k /\ b \in 1..L /\ \A i \in 1..k : q[i] = t[i]
    BY <1>0, <1>2, <2>1
  <2>3. q[k + 1] \notin Digit /\ q[k + 1] \notin Separators /\ t[k + 1] = q[k + 1]
    BY <1>0, <1>1, <2>1, <2>2 DEF PhoneChar
  <2>4. StopsAt(q, k) /\ StopsAt(t, k)
    BY <2>3 DEF StopsAt
  <2>5. AlikeUpTo(q, t, k)
    BY <2>2, <2>4 DEF AlikeUpTo
  <2>6. MatchEnd(t, p) = MatchEnd(q, p)
    BY <1>0, <2>2, <2>5, MatchAlike
  <2>7. QED
    BY <2>6 DEF t
<1>3. CASE ~(p < b)
  <2>1. q[p] \notin PhoneChar
    <3>1. CASE p = b
      BY <1>0, <1>1, <3>1
    <3>2. CASE p # b
      <4>1. p \in (b + 1)..L
        BY <1>0, <1>3, <3>2
      <4>2. QED
        BY <1>1, <4>1
    <3>3. QED
      BY <3>1, <3>2
  <2>2. MatchEnd(q, p) = 0
    BY <2>1, NoMatchWithoutDigit
  <2>3. p \in 1..Len(t) /\ t[p] = q[p]
    BY <1>0
  <2>4. MatchEnd(t, p) = 0
    BY <1>0, <2>1, <2>3, NoMatchWithoutDigit
  <2>5. QED
    BY <2>2, <2>4 DEF t
<1>4. QED
  BY <1>2, <1>3

LEMMA NumberAdded ==
    ASSUME NEW q \in Seq(Nat), CleanTail(q), NEW s \in Shown
    PROVE  /\ NumbersOf(q \o s) = IF Len(s) > 6 THEN Append(NumbersOf(q), s) ELSE NumbersOf(q)
           /\ NumbersOf(q) \in Seq(Seq(Nat))
<1> DEFINE t == q \o s
           L == Len(q)
           M == Len(s)
<1>0. /\ L \in Nat /\ M \in Nat /\ M >= 2 /\ s \in Seq(Nat)
      /\ t \in Seq(Nat) /\ Len(t) = L + M
      /\ \A i \in 1..M : t[L + i] = s[i]
  <2>1. L \in Nat /\ M \in Nat /\ M >= 2 /\ s \in Seq(Nat)
    BY LenProperties, SpellingInUnits
  <2>2. t \in Seq(Nat) /\ Len(t) = L + M /\ \A i \in 1..M : t[L + i] = s[i]
    BY <2>1, ConcatProperties
  <2>3. QED
    BY <2>1, <2>2
<1> HIDE DEF t
<1>1. Harmless(q, s)
  <2>1. \A p \in 1..L : MatchEnd(q \o s, p) = MatchEnd(q, p)
    BY <1>0, OldMatchesStay
  <2>2. QED
    BY <2>1 DEF Harmless
<1>2. PICK h : /\ IsReading(h, t) /\ NumbersOf(t) = NumbersOf(q) \o h[L + 1]
               /\ NumbersOf(q) \in Seq(Seq(Nat))
  BY <1>0, <1>1, NumbersGoOn DEF t
<1>5. CASE M > 6
  <2>1. MatchEnd(t, L + 1) = (L + M) + 1
    BY <1>5, NumberMatched DEF t
  <2>2. L + 1 \in 1..Len(t) /\ (L + M) + 1 = Len(t) + 1 /\ (L + M) + 1 # 0
    BY <1>0
  <2>3. h[L + 1] = <<SubSeq(t, L + 1, ((L + M) + 1) - 1)>> \o h[Len(t) + 1]
    BY <1>2, <2>1, <2>2 DEF IsReading
  <2>4. SubSeq(t, L + 1, ((L + M) + 1) - 1) = s
    <3> DEFINE a == L + 1
               b == ((L + M) + 1) - 1
               c == SubSeq(t, a, b)
    <3>1. a \in 1..Len(t) /\ b \in a..Len(t) /\ (b - a) + 1 = M
      BY <1>0, <1>5
    <3>2. \A i \in 1..M : (a + i) - 1 = L + i
      BY <1>0
    <3> HIDE DEF a, b
    <3>3. c \in Seq(Nat) /\ Len(c) = M /\ \A i \in 1..M : c[i] = t[(a + i) - 1]
      BY <1>0, <3>1, PartOfText, SMTT(30)
    <3>4. \A i \in 1..M : c[i] = s[i]
      BY <1>0, <3>2, <3>3
    <3> HIDE DEF c
    <3>5. c = s
      BY <1>0, <3>3, <3>4, SeqEqual
    <3>6. QED
      BY <3>5 DEF a, b, c
  <2>5. h[L + 1] = <<s>> \o <<>>
    BY <1>2, <2>3, <2>4 DEF IsReading
  <2>6. <<s>> \in Seq(Seq(Nat))
    BY <1>0
  <2>7. h[L + 1] = <<s>>
    BY <2>5, <2>6, ConcatEmptySeq
  <2>8. NumbersOf(q) \o <<s>> = Append(NumbersOf(q), s)
    BY <1>0, <1>2, AppendIsConcat
  <2>9. QED
    BY <1>2, <1>5, <2>7, <2>8 DEF t
<1>6. CASE ~(M > 6)
  <2>1. ASSUME NEW p \in (L + 1)..Len(t) PROVE MatchEnd(t, p) = 0
    <3>1. SUFFICES ASSUME MatchEnd(t, p) # 0 PROVE FALSE
      OBVIOUS
    <3>2. p \in 1..Len(t)
      BY <1>0
    <3>3. MatchEnd(t, p) \in (p + 8)..(Len(t) + 1)
      BY <1>0, <3>1, <3>2, MatchIsLong
    <3>4. QED
      BY <1>0, <1>6, <3>3
  <2>2. h[L + 1] = <<>>
    <3>1. L + 1 \in 1..(Len(t) + 1)
      BY <1>0
    <3>2. QED
      BY <1>0, <1>2, <2>1, <3>1, NothingRead
  <2>3. NumbersOf(t) = NumbersOf(q)
    BY <1>2, <2>2, ConcatEmptySeq
  <2>4. QED
    BY <1>2, <1>6, <2>3 DEF t
<1>7. QED
  BY <1>5, <1>6

-----------------------------------------------------------------------------
(* How a text is squeezed, character by character.                         *)

LEMMA NothingSqueezed == Squeezed(<<>>) = <<>>
<1>1. <<>> \in Seq(Nat) /\ Len(<<>>) = 0
  BY EmptySeq
<1>2. PICK k : IsSqueezing(k, <<>>) /\ Squeezed(<<>>) = k[Len(<<>>)]
  BY <1>1, SqueezingExists
<1>3. QED
  BY <1>1, <1>2 DEF IsSqueezing

\* One more character is squeezed into what the text before it became.
LEMMA SqueezedAppend ==
    ASSUME NEW u \in Seq(Nat), NEW x \in Nat
    PROVE  Squeezed(Append(u, x)) = Squeeze(Squeezed(u), x)
<1> DEFINE t == Append(u, x)
           L == Len(u)
<1>0. /\ L \in Nat /\ t \in Seq(Nat) /\ Len(t) = L + 1 /\ t[L + 1] = x
      /\ \A i \in 1..L : t[i] = u[i]
  BY LenProperties, AppendProperties
<1> HIDE DEF t
<1>1. PICK k : IsSqueezing(k, u) /\ Squeezed(u) = k[Len(u)]
  BY SqueezingExists
<1>2. PICK h : IsSqueezing(h, t) /\ Squeezed(t) = h[Len(t)]
  BY <1>0, SqueezingExists
<1>3. k[0] = <<>> /\ \A n \in 1..L : k[n] = Squeeze(k[n - 1], u[n])
  BY <1>1 DEF IsSqueezing
<1>4. h[0] = <<>> /\ \A n \in 1..(L + 1) : h[n] = Squeeze(h[n - 1], t[n])
  BY <1>0, <1>2 DEF IsSqueezing
<1> DEFINE Good == {n \in Nat : n \in 0..L => h[n] = k[n]}
<1>5. 0 \in Good
  BY <1>3, <1>4
<1>6. ASSUME NEW n \in Nat, n \in Good PROVE n + 1 \in Good
  <2>1. SUFFICES ASSUME n + 1 \in 0..L PROVE h[n + 1] = k[n + 1]
    OBVIOUS
  <2>2. n \in 0..L /\ n + 1 \in 1..L /\ n + 1 \in 1..(L + 1) /\ (n + 1) - 1 = n
    BY <1>0, <2>1
  <2>3. h[n] = k[n] /\ t[n + 1] = u[n + 1]
    BY <1>0, <1>6, <2>2
  <2>4. h[n + 1] = Squeeze(h[n], t[n + 1]) /\ k[n + 1] = Squeeze(k[n], u[n + 1])
    BY <1>3, <1>4, <2>2
  <2>5. QED
    BY <2>3, <2>4
<1>7. Nat \subseteq Good
  <2> HIDE DEF Good
  <2>1. QED
    BY <1>5, <1>6, AllNumbers
<1>8. L \in Good /\ L \in 0..L /\ L + 1 \in 1..(L + 1) /\ (L + 1) - 1 = L
  BY <1>0, <1>7
<1>9. h[L] = k[L] /\ h[L + 1] = Squeeze(h[L], x)
  BY <1>0, <1>4, <1>8
<1>10. QED
  BY <1>0, <1>1, <1>2, <1>9 DEF t

LEMMA OneMoreCharacter ==
    ASSUME NEW u \in Seq(Nat), NEW x \in Seq(Nat), NEW n \in Nat, n + 1 \in 1..Len(x)
    PROVE  /\ u \o SubSeq(x, 1, n + 1) = Append(u \o SubSeq(x, 1, n), x[n + 1])
           /\ SubSeq(x, 1, n) \in Seq(Nat) /\ u \o SubSeq(x, 1, n) \in Seq(Nat)
           /\ x[n + 1] \in Nat /\ Len(SubSeq(x, 1, n)) = n
           /\ Len(u \o SubSeq(x, 1, n)) = Len(u) + n
<1> DEFINE a == SubSeq(x, 1, n)
           b == SubSeq(x, 1, n + 1)
           c == x[n + 1]
<1>0. Len(x) \in Nat /\ Len(u) \in Nat /\ \A i \in 1..Len(x) : x[i] \in Nat
  BY LenProperties, ElementOfSeq
<1>1. \A i \in 1..(n + 1) : x[i] \in Nat
  BY <1>0
<1>2. /\ a \in Seq(Nat) /\ Len(a) = n
      /\ \A i \in 1..n : a[i] = x[i]
  <2>1. \A i \in 1..n : x[i] \in Nat
    BY <1>1
  <2>2. /\ a \in Seq(Nat) /\ Len(a) = IF 1 <= n THEN n - 1 + 1 ELSE 0
        /\ \A i \in 1..(n - 1 + 1) : a[i] = x[1 + i - 1]
    BY <2>1, SubSeqProperties
  <2> HIDE DEF a
  <2>3. QED
    BY <2>2
<1>3. /\ b \in Seq(Nat) /\ Len(b) = n + 1
      /\ \A i \in 1..(n + 1) : b[i] = x[i]
  <2> DEFINE m == n + 1
  <2>1. m \in Int /\ 1 <= m /\ \A i \in 1..m : x[i] \in Nat
    BY <1>1
  <2>2. b = SubSeq(x, 1, m)
    OBVIOUS
  <2> HIDE DEF b, m
  <2>3. /\ b \in Seq(Nat) /\ Len(b) = IF 1 <= m THEN m - 1 + 1 ELSE 0
        /\ \A i \in 1..(m - 1 + 1) : b[i] = x[1 + i - 1]
    BY <2>1, <2>2, SubSeqProperties
  <2>4. Len(b) = m /\ \A i \in 1..m : b[i] = x[i]
    BY <2>1, <2>3
  <2>5. QED
    BY <2>3, <2>4 DEF m
<1>4. c \in Nat
  BY <1>0
<1> HIDE DEF a, b, c
<1> DEFINE d == u \o a
<1>5. d \in Seq(Nat) /\ Len(d) = Len(u) + n
      /\ \A i \in 1..(Len(u) + n) : d[i] = IF i <= Len(u) THEN u[i] ELSE a[i - Len(u)]
  BY <1>0, <1>2, ConcatProperties
<1> HIDE DEF d
<1>6. /\ Append(d, c) \in Seq(Nat) /\ Len(Append(d, c)) = (Len(u) + n) + 1
      /\ Append(d, c)[(Len(u) + n) + 1] = c
      /\ \A i \in 1..(Len(u) + n) : Append(d, c)[i] = d[i]
  <2>1. Len(d) + 1 = (Len(u) + n) + 1
    BY <1>0, <1>5
  <2>2. QED
    BY <1>4, <1>5, <2>1, AppendProperties
<1>7. /\ u \o b \in Seq(Nat) /\ Len(u \o b) = Len(u) + (n + 1)
      /\ \A i \in 1..(Len(u) + (n + 1)) : (u \o b)[i] = IF i <= Len(u) THEN u[i] ELSE b[i - Len(u)]
  <2>1. /\ u \o b \in Seq(Nat) /\ Len(u \o b) = Len(u) + Len(b)
        /\ \A i \in 1..(Len(u) + Len(b)) : (u \o b)[i] = IF i <= Len(u) THEN u[i] ELSE b[i - Len(u)]
    BY <1>3, ConcatProperties
  <2>2. Len(b) = n + 1
    BY <1>3
  <2>3. QED
    BY <2>1, <2>2, Zenon
<1>8. ASSUME NEW i \in 1..(Len(u) + (n + 1)) PROVE (u \o b)[i] = Append(d, c)[i]
  <2>1. CASE i = (Len(u) + n) + 1
    <3>1. ~(i <= Len(u)) /\ i - Len(u) = n + 1 /\ n + 1 \in 1..(n + 1)
      BY <1>0, <2>1
    <3>2. b[n + 1] = c
      BY <1>3, <3>1 DEF c
    <3>3. QED
      BY <1>6, <1>7, <2>1, <3>1, <3>2
  <2>2. CASE i # (Len(u) + n) + 1
    <3>1. i \in 1..(Len(u) + n) /\ (~(i <= Len(u)) => i - Len(u) \in 1..n /\ i - Len(u) \in 1..(n + 1))
      BY <1>0, <2>2
    <3>2. ~(i <= Len(u)) => a[i - Len(u)] = b[i - Len(u)]
      BY <1>2, <1>3, <3>1
    <3>3. QED
      BY <1>5, <1>6, <1>7, <3>1, <3>2
  <2>3. QED
    BY <2>1, <2>2
<1>9. Len(u \o b) = Len(Append(d, c))
  BY <1>0, <1>6, <1>7
<1>10. u \o b = Append(d, c)
  BY <1>6, <1>7, <1>8, <1>9, SeqEqual
<1>11. QED
  BY <1>2, <1>4, <1>5, <1>10 DEF a, b, c, d

LEMMA FrontIs ==
    ASSUME NEW t \in Seq(Nat), t # <<>>
    PROVE  /\ Front(t) \in Seq(Nat) /\ Last(t) \in Nat /\ t = Append(Front(t), Last(t))
           /\ Len(t) \in Nat /\ Len(t) >= 1 /\ Last(t) = t[Len(t)]
           /\ Len(Front(t)) = Len(t) - 1 /\ \A i \in 1..(Len(t) - 1) : Front(t)[i] = t[i]
<1> DEFINE L == Len(t)
           f == Front(t)
<1>0. L \in Nat /\ L >= 1 /\ \A i \in 1..L : t[i] \in Nat
  BY LenProperties, EmptySeq, ElementOfSeq
<1>1. Last(t) = t[L] /\ t[L] \in Nat
  BY <1>0 DEF Last
<1>2. f \in Seq(Nat) /\ Len(f) = L - 1 /\ \A i \in 1..(L - 1) : f[i] = t[i]
  <2>1. f = SubSeq(t, 1, L - 1)
    BY DEF Front
  <2> DEFINE m == L - 1
  <2>2. m \in Nat /\ 1 \in Int /\ m \in Int /\ \A i \in 1..m : t[i] \in Nat
    BY <1>0
  <2> HIDE DEF f, m, L
  <2>3. /\ f \in Seq(Nat) /\ Len(f) = IF 1 <= m THEN m - 1 + 1 ELSE 0
        /\ \A i \in 1..(m - 1 + 1) : f[i] = t[1 + i - 1]
    BY <2>1, <2>2, SubSeqProperties DEF m
  <2>4. Len(f) = m /\ \A i \in 1..m : f[i] = t[i]
    BY <2>2, <2>3
  <2>5. QED
    BY <2>3, <2>4 DEF m
<1> HIDE DEF f
<1> DEFINE a == Append(f, t[L])
<1>3. /\ a \in Seq(Nat) /\ Len(a) = L /\ a[L] = t[L] /\ \A i \in 1..(L - 1) : a[i] = f[i]
  <2>1. /\ a \in Seq(Nat) /\ Len(a) = Len(f) + 1 /\ a[Len(f) + 1] = t[L]
        /\ \A i \in 1..Len(f) : a[i] = f[i]
    BY <1>1, <1>2, AppendProperties
  <2>2. Len(f) + 1 = L /\ Len(f) = L - 1
    BY <1>0, <1>2
  <2> HIDE DEF a
  <2>3. QED
    BY <2>1, <2>2
<1> HIDE DEF a
<1> HIDE DEF L
<1>4. \A i \in 1..L : a[i] = t[i]
  <2>1. \A i \in 1..L : i = L \/ i \in 1..(L - 1)
    BY <1>0
  <2>2. QED
    BY <1>2, <1>3, <2>1
<1>5. a = t
  BY <1>3, <1>4, SeqEqual DEF L
<1>6. QED
  BY <1>0, <1>1, <1>2, <1>5 DEF a, f, L

LEMMA CleanAppend ==
    ASSUME NEW q \in Seq(Nat), NEW c \in Nat, c \notin PhoneChar
    PROVE  /\ CleanTail(q) => CleanTail(Append(q, c))
           /\ c \notin Separators => CleanTail(Append(q, c))
<1> DEFINE t == Append(q, c)
           L == Len(q)
<1>0. /\ L \in Nat /\ t \in Seq(Nat) /\ Len(t) = L + 1 /\ t[L + 1] = c
      /\ \A i \in 1..L : t[i] = q[i]
  BY LenProperties, AppendProperties
<1> HIDE DEF t
<1>1. ASSUME CleanTail(q) PROVE CleanTail(t)
  <2>1. PICK b \in 0..L : /\ b = 0 \/ q[b] \notin PhoneChar \cup Separators
                          /\ \A i \in (b + 1)..L : q[i] \notin PhoneChar
    BY <1>1 DEF CleanTail
  <2>2. b \in 0..Len(t) /\ (b = 0 \/ t[b] \notin PhoneChar \cup Separators)
    BY <1>0, <2>1
  <2>3. ASSUME NEW i \in (b + 1)..Len(t) PROVE t[i] \notin PhoneChar
    <3>1. i = L + 1 \/ (i \in (b + 1)..L /\ i \in 1..L)
      BY <1>0
    <3>2. QED
      BY <1>0, <2>1, <3>1
  <2>4. QED
    BY <2>2, <2>3 DEF CleanTail
<1>2. ASSUME c \notin Separators PROVE CleanTail(t)
  <2>1. L + 1 \in 0..Len(t) /\ t[L + 1] \notin PhoneChar \cup Separators
    BY <1>0, <1>2
  <2>2. \A i \in ((L + 1) + 1)..Len(t) : t[i] \notin PhoneChar
    BY <1>0
  <2>3. QED
    BY <2>1, <2>2 DEF CleanTail
<1>3. QED
  BY <1>1, <1>2 DEF t

LEMMA CleanFront ==
    ASSUME NEW t \in Seq(Nat), t # <<>>, CleanTail(t), Last(t) \in Blanks
    PROVE  CleanTail(Front(t))
<1> DEFINE L == Len(t)
           f == Front(t)
<1>0. /\ L \in Nat /\ L >= 1 /\ Last(t) = t[L] /\ f \in Seq(Nat)
      /\ Len(f) = L - 1 /\ \A i \in 1..(L - 1) : f[i] = t[i]
  BY FrontIs
<1> HIDE DEF f
<1>1. PICK b \in 0..L : /\ b = 0 \/ t[b] \notin PhoneChar \cup Separators
                        /\ \A i \in (b + 1)..L : t[i] \notin PhoneChar
  BY DEF CleanTail
<1>2. t[L] \in Separators
  BY <1>0 DEF Blanks, Separators
<1>3. b # L
  BY <1>0, <1>1, <1>2
<1>4. b \in 0..Len(f) /\ (b = 0 \/ f[b] \notin PhoneChar \cup Separators)
  BY <1>0, <1>1, <1>3
<1>5. \A i \in (b + 1)..Len(f) : f[i] \notin PhoneChar
  BY <1>0, <1>1
<1>6. QED
  BY <1>4, <1>5 DEF CleanTail, f

LEMMA BlanksNoPhone ==
    /\ Blanks \cap PhoneChar = {} /\ Break \in Blanks /\ Blanks \subseteq Nat
    /\ Blanks \subseteq Separators /\ PhoneChar \subseteq Nat
BY DEF Blanks, PhoneChar, Digit, Plus, Space, Break, Separators

\* A character that no number has, squeezed into a text, changes no number of it.
LEMMA SqueezeKeeps ==
    ASSUME NEW t \in Seq(Nat), NEW c \in Nat, c \notin PhoneChar
    PROVE  /\ NumbersOf(Squeeze(t, c)) = NumbersOf(t)
           /\ CleanTail(t) => CleanTail(Squeeze(t, c))
           /\ c \notin Separators => CleanTail(Squeeze(t, c))
<1>1. CASE Squeeze(t, c) = Append(t, c)
  BY <1>1, NoNumberAdded, CleanAppend
<1>2. CASE Squeeze(t, c) # Append(t, c)
  <2>1. c \in Separators
    BY <1>2, BlanksNoPhone DEF Squeeze
  <2>2. CASE Squeeze(t, c) = t
    BY <2>1, <2>2
  <2>3. CASE Squeeze(t, c) # t
    <3>1. t # <<>> /\ Last(t) \in Blanks /\ Squeeze(t, c) = Append(Front(t), Break)
      BY <1>2, <2>3, Zenon DEF Squeeze
    <3>2. Front(t) \in Seq(Nat) /\ t = Append(Front(t), Last(t)) /\ Last(t) \in Nat
      BY <3>1, FrontIs
    <3>3. Last(t) \notin PhoneChar /\ Break \notin PhoneChar /\ Break \in Nat
      BY <3>1, BlanksNoPhone
    <3> DEFINE f == Front(t)
               l == Last(t)
    <3>4. f \in Seq(Nat) /\ l \in Nat /\ l \notin PhoneChar /\ t = Append(f, l)
      BY <3>2, <3>3
    <3>5. CleanTail(t) => CleanTail(f)
      BY <3>1, CleanFront
    <3> HIDE DEF f, l
    <3>6. NumbersOf(Append(f, l)) = NumbersOf(f)
      BY <3>4, NoNumberAdded
    <3>7. /\ NumbersOf(Append(f, Break)) = NumbersOf(f)
          /\ CleanTail(f) => CleanTail(Append(f, Break))
      BY <3>3, <3>4, NoNumberAdded, CleanAppend
    <3>8. Squeeze(t, c) = Append(f, Break)
      BY <3>1 DEF f
    <3>9. QED
      BY <2>1, <3>4, <3>5, <3>6, <3>7, <3>8
  <2>4. QED
    BY <2>2, <2>3
<1>3. QED
  BY <1>1, <1>2

\* What stands between numbers, written after a text, changes no number of it,
\* and keeps the next number apart if it has a character no number is written with.
LEMMA GapAdded ==
    ASSUME NEW u \in Seq(Nat), NEW x \in Seq(Nat), \A i \in 1..Len(x) : x[i] \notin PhoneChar
    PROVE  /\ NumbersOf(Squeezed(u \o x)) = NumbersOf(Squeezed(u))
           /\ CleanTail(Squeezed(u)) => CleanTail(Squeezed(u \o x))
           /\ (\E i \in 1..Len(x) : x[i] \notin Separators) => CleanTail(Squeezed(u \o x))
<1> DEFINE X(n) == u \o SubSeq(x, 1, n)
           T(n) == Squeezed(X(n))
           Fine(n) == /\ NumbersOf(T(n)) = NumbersOf(Squeezed(u))
                      /\ CleanTail(Squeezed(u)) => CleanTail(T(n))
                      /\ (\E i \in 1..n : x[i] \notin Separators) => CleanTail(T(n))
           Good == {n \in Nat : n \in 0..Len(x) => Fine(n)}
<1>0. Len(x) \in Nat
  BY LenProperties
<1>1. 0 \in Good
  <2>1. SubSeq(x, 1, 0) = <<>>
    BY SubSeqEmpty
  <2>2. u \o <<>> = u
    BY ConcatEmptySeq
  <2>3. X(0) = u
    BY <2>1, <2>2
  <2> HIDE DEF X
  <2>4. QED
    BY <2>3
<1>2. ASSUME NEW n \in Nat, n \in Good PROVE n + 1 \in Good
  <2> SUFFICES ASSUME n + 1 \in 0..Len(x) PROVE Fine(n + 1)
    OBVIOUS
  <2>1. n \in 0..Len(x) /\ n + 1 \in 1..Len(x)
    BY <1>0
  <2>2. /\ X(n + 1) = Append(X(n), x[n + 1]) /\ X(n) \in Seq(Nat) /\ x[n + 1] \in Nat
    BY <2>1, OneMoreCharacter
  <2>3. x[n + 1] \notin PhoneChar
    BY <2>1
  <2>4. Fine(n)
    BY <1>2, <2>1
  <2> HIDE DEF X
  <2>5. T(n + 1) = Squeeze(T(n), x[n + 1]) /\ T(n) \in Seq(Nat)
    BY <2>2, SqueezedAppend, SqueezedIs
  <2> HIDE DEF T
  <2>6. /\ NumbersOf(T(n + 1)) = NumbersOf(T(n))
        /\ CleanTail(T(n)) => CleanTail(T(n + 1))
        /\ x[n + 1] \notin Separators => CleanTail(T(n + 1))
    BY <2>2, <2>3, <2>5, SqueezeKeeps
  <2>7. \A i \in 1..(n + 1) : i \in 1..n \/ i = n + 1
    OBVIOUS
  <2>8. (\E i \in 1..(n + 1) : x[i] \notin Separators) => CleanTail(T(n + 1))
    BY <2>4, <2>6, <2>7
  <2>9. QED
    BY <2>4, <2>6, <2>8
<1>3. Nat \subseteq Good
  <2> HIDE DEF Good
  <2>1. QED
    BY <1>1, <1>2, AllNumbers
<1>4. Fine(Len(x))
  <2>1. Len(x) \in Good /\ Len(x) \in 0..Len(x)
    BY <1>0, <1>3
  <2>2. QED
    BY <2>1
<1>5. X(Len(x)) = u \o x
  BY SubSeqFull
<1> HIDE DEF X
<1>6. QED
  BY <1>4, <1>5

\* A number written after a text is not squeezed.
LEMMA NumberNotSqueezed ==
    ASSUME NEW u \in Seq(Nat), NEW s \in Shown
    PROVE  Squeezed(u \o s) = Squeezed(u) \o s
<1> DEFINE U == Squeezed(u)
           X(n) == u \o SubSeq(s, 1, n)
           Y(n) == U \o SubSeq(s, 1, n)
           Good == {n \in Nat : n \in 0..Len(s) => Squeezed(X(n)) = Y(n)}
<1>0. /\ s \in Seq(Nat) /\ Len(s) \in Nat /\ Len(s) >= 2 /\ s[1] \in PhoneChar
      /\ \A i \in 1..Len(s) : s[i] \in Digit \/ (i < Len(s) /\ s[i + 1] \in Digit)
  BY SpellingInUnits
<1>00. U \in Seq(Nat)
  BY SqueezedIs
<1> HIDE DEF U
<1>1. 0 \in Good
  <2>1. SubSeq(s, 1, 0) = <<>>
    BY SubSeqEmpty
  <2>2. u \o <<>> = u /\ U \o <<>> = U
    BY <1>00, ConcatEmptySeq
  <2>3. X(0) = u /\ Y(0) = U
    BY <2>1, <2>2
  <2> HIDE DEF X, Y
  <2>4. QED
    BY <2>3 DEF U
<1>2. ASSUME NEW n \in Nat, n \in Good PROVE n + 1 \in Good
  <2> SUFFICES ASSUME n + 1 \in 0..Len(s) PROVE Squeezed(X(n + 1)) = Y(n + 1)
    OBVIOUS
  <2>1. n \in 0..Len(s) /\ n + 1 \in 1..Len(s)
    BY <1>0
  <2>2. X(n + 1) = Append(X(n), s[n + 1]) /\ X(n) \in Seq(Nat) /\ s[n + 1] \in Nat
    BY <1>0, <2>1, OneMoreCharacter
  <2>3. Y(n + 1) = Append(Y(n), s[n + 1]) /\ Y(n) \in Seq(Nat) /\ Len(Y(n)) = Len(U) + n
    BY <1>0, <1>00, <2>1, OneMoreCharacter
  <2>4. Squeezed(X(n)) = Y(n)
    BY <1>2, <2>1
  <2>5. ASSUME s[n + 1] \in Blanks PROVE Y(n) # <<>> /\ Last(Y(n)) \notin Blanks
    <3>1. n # 0
      BY <1>0, <2>5, BlanksNoPhone
    <3>2. n \in 1..Len(s) /\ n \in Nat /\ n >= 1
      BY <2>1, <3>1
    <3>3. s[n + 1] \notin Digit
      BY <2>5, BlanksNoPhone DEF PhoneChar
    <3>4. s[n] \in Digit
      BY <1>0, <3>2, <3>3
    <3>5. Len(U) \in Nat
      BY <1>00, LenProperties
    <3>6. Y(n)[Len(U) + n] = s[n]
      <4> DEFINE a == SubSeq(s, 1, n)
      <4>1. a \in Seq(Nat) /\ Len(a) = n
        BY <1>0, <2>1, OneMoreCharacter
      <4>2. a[n] = s[n]
        <5>1. \A i \in 1..n : s[i] \in Nat
          BY <1>0, <3>2, ElementOfSeq
        <5>2. \A i \in 1..(n - 1 + 1) : a[i] = s[1 + i - 1]
          BY <5>1, <3>2, SubSeqProperties
        <5>3. n \in 1..(n - 1 + 1) /\ 1 + n - 1 = n
          BY <3>2
        <5> HIDE DEF a
        <5>4. QED
          BY <5>2, <5>3
      <4>3. Y(n) = U \o a
        OBVIOUS
      <4> HIDE DEF a, Y
      <4>4. \A i \in 1..Len(a) : (U \o a)[Len(U) + i] = a[i]
        BY <1>00, <4>1, Joined
      <4>5. QED
        BY <3>2, <4>1, <4>2, <4>3, <4>4
    <3> HIDE DEF Y
    <3>7. Y(n) # <<>> /\ Len(Y(n)) >= 1
      BY <2>3, <3>2, <3>5, EmptySeq
    <3>8. Last(Y(n)) = s[n]
      BY <2>3, <3>6, <3>7, FrontIs
    <3>9. QED
      BY <3>4, <3>7, <3>8, BlanksNoPhone DEF PhoneChar
  <2> HIDE DEF X, Y
  <2>6. Squeezed(X(n + 1)) = Squeeze(Y(n), s[n + 1])
    BY <2>2, <2>4, SqueezedAppend
  <2>7. Squeeze(Y(n), s[n + 1]) = Append(Y(n), s[n + 1])
    BY <2>5 DEF Squeeze
  <2>8. QED
    BY <2>3, <2>6, <2>7
<1>3. Nat \subseteq Good
  <2> HIDE DEF Good
  <2>1. QED
    BY <1>1, <1>2, AllNumbers
<1>4. Squeezed(X(Len(s))) = Y(Len(s))
  <2>1. Len(s) \in Good /\ Len(s) \in 0..Len(s)
    BY <1>0, <1>3
  <2>2. QED
    BY <2>1
<1>5. X(Len(s)) = u \o s /\ Y(Len(s)) = U \o s
  BY <1>0, SubSeqFull
<1> HIDE DEF X, Y
<1>6. QED
  BY <1>4, <1>5 DEF U

-----------------------------------------------------------------------------
(* The pieces of a page.                                                   *)

\* A piece that shows a number, and one that shows that two numbers are apart.
ShowsNumber(piece) == Visible(piece) /\ IsNumber(piece)

KeepsApart(piece) == piece.kind = "text" /\ \E c \in Range(piece.chars) : c >= Comma

LEMMA EmptyReads ==
    /\ NumbersOf(<<>>) = <<>> /\ CleanTail(<<>>)
    /\ <<>> \in Seq(Nat) /\ Len(<<>>) = 0
<1>1. <<>> \in Seq(Nat) /\ Len(<<>>) = 0
  BY EmptySeq
<1>2. PICK h : IsReading(h, <<>>) /\ NumbersOf(<<>>) = h[1]
  BY <1>1, ReadingExists
<1>3. h[1] = <<>>
  BY <1>1, <1>2 DEF IsReading
<1>4. CleanTail(<<>>)
  <2>1. 0 \in 0..Len(<<>>) /\ \A i \in (0 + 1)..Len(<<>>) : FALSE
    BY <1>1
  <2>2. QED
    BY <2>1 DEF CleanTail
<1>5. QED
  BY <1>1, <1>2, <1>3, <1>4

LEMMA PieceIs ==
    ASSUME NEW piece \in Pieces
    PROVE  /\ TextOf(piece) \in Seq(Nat)
           /\ ShowsNumber(piece) =>
                /\ piece.chars \in Shown /\ ~KeepsApart(piece)
                /\ \/ TextOf(piece) = piece.chars
                   \/ TextOf(piece) = <<Space>> \o piece.chars \o <<Space>>
           /\ ~ShowsNumber(piece) =>
                /\ \A i \in 1..Len(TextOf(piece)) : TextOf(piece)[i] \notin PhoneChar
                /\ KeepsApart(piece) =>
                     \E i \in 1..Len(TextOf(piece)) : TextOf(piece)[i] \notin Separators
<1>1. piece.kind \in {"text", "link", "script", "title", "meta", "block", "inline"}
  BY DEF Pieces
<1>2. /\ piece.kind = "text" => piece.chars \in Shown \cup Gaps
      /\ piece.kind = "title" => piece.chars \in Shown
  BY InputConstantsOK DEF Pieces, InputsOK
<1>3. TextOf(piece) \in Seq(Nat)
  BY TextIs
<1>4. ASSUME ShowsNumber(piece)
      PROVE  /\ piece.chars \in Shown /\ ~KeepsApart(piece)
             /\ \/ TextOf(piece) = piece.chars
                \/ TextOf(piece) = <<Space>> \o piece.chars \o <<Space>>
  <2>1. piece.chars \in Shown /\ piece.kind \in {"text", "title"}
    BY <1>4 DEF ShowsNumber, Visible, IsNumber
  <2>2. TextOf(piece) = piece.chars \/ TextOf(piece) = <<Space>> \o piece.chars \o <<Space>>
    BY <2>1 DEF TextOf
  <2>3. ~KeepsApart(piece)
    <3>1. SUFFICES ASSUME NEW c \in Range(piece.chars), c >= Comma PROVE FALSE
      BY DEF KeepsApart
    <3> DEFINE s == piece.chars
    <3>2. s \in Shown
      BY <2>1
    <3> HIDE DEF s
    <3>3. /\ s \in Seq(Nat) /\ Len(s) \in Nat
          /\ \A i \in 1..Len(s) : s[i] \in PhoneChar \cup {Space, Dot, Dash}
      BY <3>2, SpellingInUnits
    <3>4. PICK i \in 1..Len(s) : c = s[i]
      BY <3>1, <3>3, LenProperties DEF Range, s
    <3>5. c \in PhoneChar \cup {Space, Dot, Dash}
      BY <3>3, <3>4
    <3>6. QED
      BY <3>1, <3>5 DEF PhoneChar, Digit, Plus, Space, Dot, Dash, Comma
  <2>4. QED
    BY <2>1, <2>2, <2>3
<1>5. ASSUME ~ShowsNumber(piece), piece.kind = "text"
      PROVE  /\ \A i \in 1..Len(TextOf(piece)) : TextOf(piece)[i] \notin PhoneChar
             /\ KeepsApart(piece) =>
                  \E i \in 1..Len(TextOf(piece)) : TextOf(piece)[i] \notin Separators
  <2> DEFINE g == piece.chars
  <2>1. g \in Gaps /\ TextOf(piece) = g
    BY <1>2, <1>5 DEF ShowsNumber, Visible, IsNumber, TextOf
  <2>2. g \in Seq(Nat) /\ Range(g) \cap PhoneChar = {}
    BY <2>1, InputConstantsOK DEF InputsOK
  <2> HIDE DEF g
  <2>3. Len(g) \in Nat /\ DOMAIN g = 1..Len(g)
    BY <2>2, LenProperties
  <2>4. Range(g) = {g[i] : i \in 1..Len(g)}
    BY <2>3 DEF Range
  <2>5. \A i \in 1..Len(g) : g[i] \notin PhoneChar
    BY <2>2, <2>4
  <2>6. ASSUME KeepsApart(piece) PROVE \E i \in 1..Len(g) : g[i] \notin Separators
    <3>1. PICK c \in Range(g) : c >= Comma
      BY <2>6 DEF KeepsApart, g
    <3>2. PICK i \in 1..Len(g) : c = g[i]
      BY <2>4, <3>1
    <3>3. c \notin Separators
      BY <3>1 DEF Separators, Space, Break, Dot, Dash, Comma
    <3>4. QED
      BY <3>2, <3>3
  <2>7. QED
    BY <2>1, <2>5, <2>6
<1>6. ASSUME ~ShowsNumber(piece), piece.kind # "text"
      PROVE  /\ \A i \in 1..Len(TextOf(piece)) : TextOf(piece)[i] \notin PhoneChar
             /\ KeepsApart(piece) =>
                  \E i \in 1..Len(TextOf(piece)) : TextOf(piece)[i] \notin Separators
  <2>1. piece.kind # "title"
    BY <1>2, <1>6 DEF ShowsNumber, Visible, IsNumber
  <2>2. PICK c \in Blanks : TextOf(piece) = <<c>>
    BY <1>6, <2>1 DEF TextOf, Blanks
  <2>3. c \notin PhoneChar
    BY BlanksNoPhone
  <2>4. ~KeepsApart(piece)
    BY <1>6 DEF KeepsApart
  <2>5. Len(<<c>>) = 1 /\ <<c>>[1] = c
    OBVIOUS
  <2>6. \A i \in 1..Len(<<c>>) : <<c>>[i] = c
    BY <2>5
  <2>7. QED
    BY <2>2, <2>3, <2>4, <2>6
<1>7. QED
  BY <1>3, <1>4, <1>5, <1>6

\* What one more piece of the page adds to the numbers of its text.
LEMMA PieceAdded ==
    ASSUME NEW u \in Seq(Nat), NEW piece \in Pieces
    PROVE  LET t == Squeezed(u)
               v == Squeezed(u \o TextOf(piece))
           IN /\ ~ShowsNumber(piece) =>
                    /\ NumbersOf(v) = NumbersOf(t)
                    /\ CleanTail(t) \/ KeepsApart(piece) => CleanTail(v)
              /\ ShowsNumber(piece) /\ CleanTail(t) =>
                    /\ NumbersOf(v) = IF Len(piece.chars) > 6 THEN Append(NumbersOf(t), piece.chars)
                                      ELSE NumbersOf(t)
                    /\ NumbersOf(t) \in Seq(Seq(Nat)) /\ piece.chars \in Seq(Nat)
<1> DEFINE t == Squeezed(u)
           x == TextOf(piece)
           v == Squeezed(u \o x)
<1>1. x \in Seq(Nat) /\ t \in Seq(Nat)
  BY PieceIs, SqueezedIs
<1>2. ASSUME ~ShowsNumber(piece)
      PROVE  NumbersOf(v) = NumbersOf(t) /\ (CleanTail(t) \/ KeepsApart(piece) => CleanTail(v))
  <2>1. /\ \A i \in 1..Len(x) : x[i] \notin PhoneChar
        /\ KeepsApart(piece) => \E i \in 1..Len(x) : x[i] \notin Separators
    BY <1>2, PieceIs
  <2> HIDE DEF x
  <2>2. QED
    BY <1>1, <2>1, GapAdded
<1>3. ASSUME ShowsNumber(piece), CleanTail(t)
      PROVE  /\ NumbersOf(v) = IF Len(piece.chars) > 6 THEN Append(NumbersOf(t), piece.chars)
                               ELSE NumbersOf(t)
             /\ NumbersOf(t) \in Seq(Seq(Nat)) /\ piece.chars \in Seq(Nat)
  <2> DEFINE s == piece.chars
             b == <<Space>>
             w == u \o b
  <2>1. s \in Shown /\ (x = s \/ x = b \o s \o b)
    BY <1>3, PieceIs
  <2> HIDE DEF s, x
  <2>2. s \in Seq(Nat)
    BY <2>1, SpellingInUnits
  <2>3. CASE x = s
    <3>1. v = t \o s
      BY <2>1, <2>3, NumberNotSqueezed
    <3> HIDE DEF t, v
    <3>2. QED
      BY <1>1, <1>3, <2>1, <2>2, <3>1, NumberAdded DEF s
  <2>4. CASE x = b \o s \o b
    <3>1. b \in Seq(Nat) /\ Len(b) = 1 /\ b[1] = Space /\ Space \notin PhoneChar
      BY BlanksNoPhone DEF Blanks
    <3>2. \A i \in 1..Len(b) : b[i] \notin PhoneChar
      BY <3>1
    <3> HIDE DEF b
    <3>3. w \in Seq(Nat) /\ w \o s \in Seq(Nat) /\ b \o s \in Seq(Nat)
      BY <2>2, <3>1, ConcatProperties
    <3>4. u \o x = (w \o s) \o b
      <4>1. x = (b \o s) \o b
        BY <2>4
      <4> DEFINE y == b \o s
      <4>2. y \in Seq(Nat)
        BY <3>3
      <4>3. u \o y = (u \o b) \o s
        BY <2>2, <3>1, TextsGroup, SMTT(30)
      <4> HIDE DEF y
      <4>4. u \o (y \o b) = (u \o y) \o b
        <5>1. \A c, d, e \in Seq(Nat) : c \o (d \o e) = (c \o d) \o e
          BY TextsGroup, SMTT(30)
        <5>2. QED
          BY <3>1, <4>2, <5>1, Zenon
      <4>5. QED
        BY <4>1, <4>3, <4>4 DEF y
    <3>5. NumbersOf(Squeezed(w)) = NumbersOf(t) /\ CleanTail(Squeezed(w))
      BY <1>3, <3>1, <3>2, GapAdded
    <3> HIDE DEF w
    <3>6. Squeezed(w \o s) = Squeezed(w) \o s /\ Squeezed(w) \in Seq(Nat)
      BY <2>1, <3>3, NumberNotSqueezed, SqueezedIs
    <3>7. /\ NumbersOf(Squeezed(w) \o s) = IF Len(s) > 6 THEN Append(NumbersOf(Squeezed(w)), s)
                                           ELSE NumbersOf(Squeezed(w))
          /\ NumbersOf(Squeezed(w)) \in Seq(Seq(Nat))
      BY <2>1, <3>5, <3>6, NumberAdded
    <3>8. NumbersOf(Squeezed((w \o s) \o b)) = NumbersOf(Squeezed(w \o s))
      BY <3>1, <3>2, <3>3, GapAdded
    <3>9. QED
      BY <2>2, <3>4, <3>5, <3>6, <3>7, <3>8 DEF s
  <2>5. QED
    BY <2>1, <2>3, <2>4
<1>4. QED
  BY <1>2, <1>3

-----------------------------------------------------------------------------
(* The pieces that are kept of a page, and the text of them all.           *)

\* q is made of what of s is in K, and begins with the first of it.
HasJust(q, s, K) ==
    \A x : (\E i \in 1..Len(q) : q[i] = x) <=> (x \in K /\ \E i \in 1..Len(s) : s[i] = x)

BeginsAlike(q, s, K) ==
    q # <<>> => \E i \in 1..Len(s) : /\ s[i] \in K /\ q[1] = s[i]
                                     /\ \A j \in 1..(i - 1) : s[j] \notin K

LEMMA KeptOf ==
    ASSUME NEW S, NEW s \in Seq(S), NEW K
    PROVE  /\ \A n \in 0..Len(s) : KeptUpTo(s, K)[n] \in Seq(S)
           /\ Kept(s, K) \in Seq(S) /\ HasJust(Kept(s, K), s, K) /\ BeginsAlike(Kept(s, K), s, K)
<1> DEFINE k(n) == KeptUpTo(s, K)[n]
           L == Len(s)
           All(n) == \A x : (\E i \in 1..Len(k(n)) : k(n)[i] = x) <=>
                            (x \in K /\ \E i \in 1..n : s[i] = x)
           First(n) == k(n) # <<>> =>
                          \E i \in 1..n : /\ s[i] \in K /\ k(n)[1] = s[i]
                                          /\ \A j \in 1..(i - 1) : s[j] \notin K
           Good == {n \in Nat : n \in 0..L => k(n) \in Seq(S) /\ All(n) /\ First(n)}
<1>0. L \in Nat /\ \A i \in 1..L : s[i] \in S
  BY LenProperties, ElementOfSeq
<1>1. k(0) = <<>>
  BY KeptIs
<1>2. \A n \in 1..L : k(n) = IF s[n] \in K THEN Append(k(n - 1), s[n]) ELSE k(n - 1)
  BY KeptIs
<1> HIDE DEF k
<1>3. 0 \in Good
  <2>1. k(0) \in Seq(S) /\ Len(k(0)) = 0
    BY <1>1, EmptySeq
  <2>2. All(0) /\ First(0)
    BY <1>1, <2>1
  <2>3. QED
    BY <2>1, <2>2
<1>4. ASSUME NEW n \in Nat, n \in Good PROVE n + 1 \in Good
  <2> SUFFICES ASSUME n + 1 \in 0..L
               PROVE  k(n + 1) \in Seq(S) /\ All(n + 1) /\ First(n + 1)
    OBVIOUS
  <2>1. n \in 0..L /\ n + 1 \in 1..L /\ (n + 1) - 1 = n /\ s[n + 1] \in S
    BY <1>0
  <2>2. k(n) \in Seq(S) /\ All(n) /\ First(n)
    BY <1>4, <2>1
  <2>3. k(n + 1) = IF s[n + 1] \in K THEN Append(k(n), s[n + 1]) ELSE k(n)
    BY <1>2, <2>1
  <2>4. \A i : i \in 1..(n + 1) <=> i \in 1..n \/ i = n + 1
    OBVIOUS
  <2>5. CASE s[n + 1] \notin K
    <3>1. k(n + 1) = k(n)
      BY <2>3, <2>5
    <3>2. All(n + 1)
      BY <2>2, <2>4, <2>5, <3>1, Zenon
    <3>3. First(n + 1)
      BY <2>2, <2>4, <3>1, Zenon
    <3>4. QED
      BY <2>2, <3>1, <3>2, <3>3
  <2>6. CASE s[n + 1] \in K
    <3> DEFINE e == s[n + 1]
               a == k(n)
               b == k(n + 1)
               M == Len(a)
    <3>1. b = Append(a, e) /\ M \in Nat
      BY <2>2, <2>3, <2>6, LenProperties
    <3>2. /\ b \in Seq(S) /\ Len(b) = M + 1 /\ b[M + 1] = e
          /\ \A i \in 1..M : b[i] = a[i]
      <4> HIDE DEF b, e
      <4>1. e \in S
        BY <2>1 DEF e
      <4>2. QED
        BY <2>2, <3>1, <4>1, AppendProperties
    <3>3. \A i : i \in 1..(M + 1) <=> i \in 1..M \/ i = M + 1
      BY <3>1
    <3>4. /\ \A x : (\E i \in 1..Len(a) : a[i] = x) <=>
                            (x \in K /\ \E i \in 1..n : s[i] = x)
          /\ a # <<>> => \E i \in 1..n : /\ s[i] \in K /\ a[1] = s[i]
                                         /\ \A j \in 1..(i - 1) : s[j] \notin K
      BY <2>2
    <3> HIDE DEF a, b
    <3>5. \A x : (\E i \in 1..Len(b) : b[i] = x) <=> (\E i \in 1..M : a[i] = x) \/ x = e
      BY <3>2, <3>3, Zenon
    <3>6. \A x : (\E i \in 1..(n + 1) : s[i] = x) <=> (\E i \in 1..n : s[i] = x) \/ x = e
      BY <2>4, Zenon
    <3>7. \A x : (\E i \in 1..Len(b) : b[i] = x) <=> (x \in K /\ \E i \in 1..(n + 1) : s[i] = x)
      BY <2>6, <3>4, <3>5, <3>6, Zenon
    <3>8. \E i \in 1..(n + 1) : /\ s[i] \in K /\ b[1] = s[i]
                                /\ \A j \in 1..(i - 1) : s[j] \notin K
      <4>1. CASE a = <<>>
        <5>1. M = 0
          BY <4>1
        <5>2. b[1] = e
          BY <3>2, <5>1
        <5>3. \A i \in 1..n : s[i] \notin K
          BY <3>4, <5>1, <3>1
        <5>4. n + 1 \in 1..(n + 1) /\ (n + 1) - 1 = n
          OBVIOUS
        <5>5. QED
          BY <2>6, <5>2, <5>3, <5>4
      <4>2. CASE a # <<>>
        <5>1. a \in Seq(S)
          BY <2>2 DEF a
        <5>2. M # 0
          BY <4>2, <5>1, EmptySeq
        <5>3. b[1] = a[1]
          BY <3>1, <3>2, <5>2
        <5>4. PICK i \in 1..n : /\ s[i] \in K /\ a[1] = s[i]
                                /\ \A j \in 1..(i - 1) : s[j] \notin K
          BY <3>4, <4>2
        <5>5. i \in 1..(n + 1)
          BY <2>4
        <5>6. QED
          BY <5>3, <5>4, <5>5
      <4>3. QED
        BY <4>1, <4>2
    <3>9. QED
      BY <3>2, <3>7, <3>8 DEF b
  <2>7. QED
    BY <2>5, <2>6
<1>5. Nat \subseteq Good
  <2> HIDE DEF Good
  <2>1. QED
    BY <1>3, <1>4, AllNumbers
<1>6. \A n \in 0..L : k(n) \in Seq(S) /\ All(n) /\ First(n)
  <2> HIDE DEF All, First
  <2>1. \A n \in 0..L : n \in Good
    BY <1>0, <1>5
  <2>2. QED
    BY <2>1
<1>7. L \in 0..L
  BY <1>0
<1>8. k(L) = Kept(s, K)
  BY DEF k, Kept
<1>9. k(L) \in Seq(S) /\ All(L) /\ First(L)
  <2> HIDE DEF All, First
  <2>1. QED
    BY <1>6, <1>7
<1>10. \A n \in 0..L : KeptUpTo(s, K)[n] \in Seq(S)
  BY <1>6 DEF k
<1>11. QED
  BY <1>8, <1>9, <1>10, Zenon DEF HasJust, BeginsAlike

\* The text of a page is written piece after piece.
LEMMA PageTextGrows ==
    ASSUME PageInv
    PROVE  \E R : /\ R[0] = <<>> /\ \A n \in 0..Len(page) : R[n] \in Seq(Nat)
                  /\ \A n \in 1..Len(page) : R[n] = R[n - 1] \o TextOf(page[n])
                  /\ FlattenSeq([i \in DOMAIN page |-> TextOf(page[i])]) = R[Len(page)]
<1> DEFINE q == [i \in DOMAIN page |-> TextOf(page[i])]
           L == Len(page)
<1>0. L \in Nat /\ DOMAIN page = 1..L /\ \A i \in 1..L : page[i] \in Pieces
  BY LenProperties, ElementOfSeq DEF PageInv
<1>1. q \in Seq(Seq(Nat)) /\ Len(q) = L /\ \A i \in 1..L : q[i] = TextOf(page[i]) /\ q[i] \in Seq(Nat)
  <2>1. q \in [1..L -> Seq(Nat)]
    BY <1>0, TextIs
  <2>2. \A i \in 1..L : q[i] = TextOf(page[i])
    BY <1>0
  <2> HIDE DEF q
  <2>3. q \in Seq(Seq(Nat)) /\ Len(q) = L
    BY <1>0, <2>1, SeqDef, LenProperties
  <2>4. QED
    BY <2>1, <2>2, <2>3
<1> HIDE DEF q
<1>2. CASE q = <<>>
  <2> DEFINE R == [n \in {0} |-> <<>>]
  <2>1. L = 0
    BY <1>1, <1>2
  <2>2. FlattenSeq(q) = <<>>
    BY <1>2 DEF FlattenSeq
  <2>3. R[0] = <<>> /\ <<>> \in Seq(Nat)
    BY EmptySeq
  <2> HIDE DEF R
  <2>4. (\A n \in 0..L : n = 0) /\ (\A n \in 1..L : FALSE)
    BY <2>1
  <2> HIDE DEF L
  <2>5. (\A n \in 0..L : R[n] \in Seq(Nat)) /\ FlattenSeq(q) = R[L]
    BY <2>1, <2>2, <2>3, <2>4, Zenon
  <2>6. \A n \in 1..L : R[n] = R[n - 1] \o TextOf(page[n])
    BY <2>4, Zenon
  <2>7. QED
    BY <2>3, <2>5, <2>6, Zenon DEF q, L
<1>3. CASE q # <<>>
  <2>1. PICK f : /\ FlattenSeq(q) = f[L] /\ f[1] = q[1]
                 /\ \A i \in 2..L : f[i] = f[i - 1] \o q[i]
    <3>1. \E f : /\ FlattenSeq(q) = f[Len(q)] /\ f[1] = q[1]
                 /\ \A i \in 2..Len(q) : f[i] = f[i - 1] \o q[i]
      BY <1>1, <1>3, FlattenIs
    <3>2. QED
      BY <1>1, <3>1, Zenon
  <2> DEFINE R == [n \in 0..L |-> IF n = 0 THEN <<>> ELSE f[n]]
  <2>2. R[0] = <<>> /\ \A n \in 1..L : R[n] = f[n]
    BY <1>0
  <2>3. L # 0
    BY <1>1, <1>3, EmptySeq
  <2> HIDE DEF R
  <2>4. ASSUME NEW n \in 1..L PROVE R[n] = R[n - 1] \o TextOf(page[n])
    <3>1. CASE n = 1
      <4>1. R[n] = TextOf(page[n]) /\ TextOf(page[n]) \in Seq(Nat) /\ R[n - 1] = <<>>
        BY <1>1, <2>1, <2>2, <3>1
      <4>2. QED
        BY <4>1, ConcatEmptySeq
    <3>2. CASE n # 1
      <4>1. n \in 2..L /\ n - 1 \in 1..L
        BY <1>0, <3>2
      <4>2. QED
        BY <1>1, <2>1, <2>2, <4>1
    <3>3. QED
      BY <3>1, <3>2
  <2>5. FlattenSeq(q) = R[L]
    BY <1>0, <2>1, <2>2, <2>3
  <2> DEFINE Good == {n \in Nat : n \in 0..L => R[n] \in Seq(Nat)}
  <2>6. 0 \in Good
    BY <2>2, EmptySeq
  <2>7. ASSUME NEW n \in Nat, n \in Good PROVE n + 1 \in Good
    <3>1. SUFFICES ASSUME n + 1 \in 0..L PROVE R[n + 1] \in Seq(Nat)
      OBVIOUS
    <3>2. n \in 0..L /\ n + 1 \in 1..L /\ (n + 1) - 1 = n
      BY <1>0, <3>1
    <3>3. R[n] \in Seq(Nat) /\ TextOf(page[n + 1]) \in Seq(Nat)
      BY <1>1, <2>7, <3>2
    <3>4. R[n + 1] = R[n] \o TextOf(page[n + 1])
      BY <2>4, <3>2
    <3>5. QED
      BY <3>3, <3>4, ConcatProperties
  <2>8. Nat \subseteq Good
    <3> HIDE DEF Good
    <3>1. QED
      BY <2>6, <2>7, AllNumbers
  <2>9. \A n \in 0..L : R[n] \in Seq(Nat)
    BY <1>0, <2>8
  <2>10. QED
    BY <2>2, <2>4, <2>5, <2>9 DEF q
<1>4. QED
  BY <1>2, <1>3

CharsOf(pieces) == [i \in DOMAIN pieces |-> pieces[i].chars]

\* The pieces of the page that show a phone number.
ShownPhones == { p \in Range(page) : Visible(p) /\ IsPhone(p) }

LEMMA CharsAreTexts ==
    ASSUME NEW piece \in Pieces
    PROVE  piece.chars \in Seq(Nat)
<1>1. piece.chars \in Shown \cup Gaps \cup Tagged \cup {<<>>}
  BY DEF Pieces
<1>2. Tagged \subseteq Shown
  BY InputConstantsOK DEF InputsOK
<1>3. QED
  BY <1>1, <1>2, PiecesAreTexts, EmptySeq

LEMMA CharsOfIs ==
    ASSUME NEW q \in Seq(Pieces)
    PROVE  /\ CharsOf(q) \in Seq(Seq(Nat)) /\ Len(CharsOf(q)) = Len(q) /\ Len(q) \in Nat
           /\ DOMAIN CharsOf(q) = 1..Len(q) /\ DOMAIN q = 1..Len(q)
           /\ \A i \in 1..Len(q) : CharsOf(q)[i] = q[i].chars /\ q[i] \in Pieces
<1>1. Len(q) \in Nat /\ DOMAIN q = 1..Len(q) /\ \A i \in 1..Len(q) : q[i] \in Pieces
  BY LenProperties, ElementOfSeq
<1>2. CharsOf(q) \in [1..Len(q) -> Seq(Nat)] /\ \A i \in 1..Len(q) : CharsOf(q)[i] = q[i].chars
  BY <1>1, CharsAreTexts DEF CharsOf
<1>3. CharsOf(q) \in Seq(Seq(Nat)) /\ Len(CharsOf(q)) = Len(q)
  BY <1>1, <1>2, SeqDef, LenProperties
<1>4. QED
  BY <1>1, <1>2, <1>3

LEMMA CharsOfAppend ==
    ASSUME NEW q \in Seq(Pieces), NEW piece \in Pieces
    PROVE  CharsOf(Append(q, piece)) = Append(CharsOf(q), piece.chars)
<1> DEFINE a == Append(q, piece)
           c == CharsOf(q)
           b == Append(c, piece.chars)
           L == Len(q)
<1>1. /\ a \in Seq(Pieces) /\ Len(a) = L + 1 /\ a[L + 1] = piece
      /\ \A i \in 1..L : a[i] = q[i]
  BY AppendProperties
<1>2. L \in Nat /\ c \in Seq(Seq(Nat)) /\ Len(c) = L /\ \A i \in 1..L : c[i] = q[i].chars
  BY CharsOfIs
<1>3. piece.chars \in Seq(Nat)
  BY CharsAreTexts
<1> HIDE DEF a, c
<1>4. /\ b \in Seq(Seq(Nat)) /\ Len(b) = L + 1 /\ b[L + 1] = piece.chars
      /\ \A i \in 1..L : b[i] = c[i]
  BY <1>2, <1>3, AppendProperties
<1>5. /\ CharsOf(a) \in Seq(Seq(Nat)) /\ Len(CharsOf(a)) = L + 1
      /\ \A i \in 1..(L + 1) : CharsOf(a)[i] = a[i].chars
  BY <1>1, CharsOfIs
<1> HIDE DEF b
<1>6. ASSUME NEW i \in 1..(L + 1) PROVE CharsOf(a)[i] = b[i]
  <2>1. i = L + 1 \/ i \in 1..L
    BY <1>2
  <2>2. QED
    BY <1>1, <1>2, <1>4, <1>5, <2>1
<1>7. CharsOf(a) = b
  <2>1. Len(CharsOf(a)) = Len(b) /\ \A i \in 1..Len(b) : CharsOf(a)[i] = b[i]
    BY <1>4, <1>5, <1>6
  <2>2. QED
    BY <1>4, <1>5, <2>1, SeqEqual
<1>8. QED
  BY <1>7 DEF a, b, c

\* After n pieces of the page: the numbers shown so far are read from the text
\* so far, and what comes next is apart from them if the page says so.
NumbersUpTo(R, n) ==
    /\ NumbersOf(Squeezed(R[n])) = CharsOf(KeptUpTo(page, ShownPhones)[n])
    /\ (\A i \in 1..n : ShowsNumber(page[i]) => \E k \in i..n : KeepsApart(page[k]))
          => CleanTail(Squeezed(R[n]))

LEMMA NumbersBegin ==
    ASSUME PageInv, NEW R, R[0] = <<>>
    PROVE  NumbersUpTo(R, 0)
<1>1. KeptUpTo(page, ShownPhones)[0] = <<>>
  BY KeptIs DEF PageInv
<1>2. CharsOf(<<>>) = <<>>
  BY DEF CharsOf
<1>3. QED
  BY <1>1, <1>2, EmptyReads, NothingSqueezed DEF NumbersUpTo

LEMMA NumbersNext ==
    ASSUME PageInv, Apart, NEW R, NEW n \in Nat, n + 1 \in 1..Len(page),
           R[n] \in Seq(Nat), R[n + 1] = R[n] \o TextOf(page[n + 1]), NumbersUpTo(R, n)
    PROVE  NumbersUpTo(R, n + 1)
<1> DEFINE m == n + 1
           piece == page[m]
           t == Squeezed(R[n])
           v == Squeezed(R[m])
           kept == KeptUpTo(page, ShownPhones)[n]
<1>0. Len(page) \in Nat /\ DOMAIN page = 1..Len(page) /\ \A i \in 1..Len(page) : page[i] \in Pieces
  BY LenProperties, ElementOfSeq DEF PageInv
<1>1. m \in 1..Len(page) /\ m - 1 = n /\ piece \in Pieces /\ v = Squeezed(R[n] \o TextOf(piece))
  BY <1>0
<1>2. KeptUpTo(page, ShownPhones)[m] = IF piece \in ShownPhones THEN Append(kept, piece) ELSE kept
  BY <1>1, KeptIs DEF PageInv
<1>3. kept \in Seq(Pieces)
  BY <1>0, KeptOf DEF PageInv
<1>4. /\ NumbersOf(t) = CharsOf(kept)
      /\ (\A i \in 1..n : ShowsNumber(page[i]) => \E k \in i..n : KeepsApart(page[k])) => CleanTail(t)
  BY DEF NumbersUpTo
<1>5. piece \in ShownPhones <=> ShowsNumber(piece) /\ Len(piece.chars) > 6
  <2>1. piece \in Range(page)
    BY <1>0, <1>1 DEF Range
  <2>2. QED
    BY <2>1 DEF ShownPhones, ShowsNumber, IsPhone
<1>6. /\ ~ShowsNumber(piece) =>
            /\ NumbersOf(v) = NumbersOf(t)
            /\ CleanTail(t) \/ KeepsApart(piece) => CleanTail(v)
      /\ ShowsNumber(piece) /\ CleanTail(t) =>
            /\ NumbersOf(v) = IF Len(piece.chars) > 6 THEN Append(NumbersOf(t), piece.chars)
                              ELSE NumbersOf(t)
            /\ NumbersOf(t) \in Seq(Seq(Nat)) /\ piece.chars \in Seq(Nat)
  BY <1>1, PieceAdded
<1> HIDE DEF t, v, kept
<1>7. CASE ~ShowsNumber(piece)
  <2>1. NumbersOf(v) = CharsOf(KeptUpTo(page, ShownPhones)[m])
    BY <1>2, <1>4, <1>5, <1>6, <1>7
  <2>2. ASSUME \A i \in 1..m : ShowsNumber(page[i]) => \E k \in i..m : KeepsApart(page[k]),
               ~KeepsApart(piece)
        PROVE  CleanTail(t)
    <3>1. ASSUME NEW i \in 1..n, ShowsNumber(page[i])
          PROVE  \E k \in i..n : KeepsApart(page[k])
      <4>1. i \in 1..m
        OBVIOUS
      <4>2. PICK k \in i..m : KeepsApart(page[k])
        BY <2>2, <3>1, <4>1
      <4>3. k # m
        BY <2>2, <4>2
      <4>4. k \in i..n
        BY <4>3
      <4>5. QED
        BY <4>2, <4>4
    <3>2. QED
      BY <1>4, <3>1
  <2>3. QED
    BY <1>6, <1>7, <2>1, <2>2 DEF NumbersUpTo, v
<1>8. CASE ShowsNumber(piece)
  <2>1. ~KeepsApart(piece)
    BY <1>1, <1>8, PieceIs
  <2>2. CleanTail(t)
    <3>1. ASSUME NEW i \in 1..n, ShowsNumber(page[i])
          PROVE  \E k \in i..n : KeepsApart(page[k])
      <4>1. i \in DOMAIN page /\ m \in DOMAIN page /\ i < m
        BY <1>0, <1>1
      <4>2. \A x \in {i, m} : Visible(page[x]) /\ IsNumber(page[x])
        BY <1>8, <3>1 DEF ShowsNumber
      <4>3. PICK k \in i..m : /\ page[k].kind = "text"
                              /\ \E c \in Range(page[k].chars) : c >= Comma
        BY <4>1, <4>2 DEF Apart
      <4>4. KeepsApart(page[k])
        BY <4>3 DEF KeepsApart
      <4>5. k # m
        BY <2>1, <4>4
      <4>6. k \in i..n
        BY <4>5
      <4>7. QED
        BY <4>4, <4>6
    <3>2. QED
      BY <1>4, <3>1
  <2>3. CharsOf(Append(kept, piece)) = Append(CharsOf(kept), piece.chars)
    BY <1>1, <1>3, CharsOfAppend
  <2>4. NumbersOf(v) = CharsOf(KeptUpTo(page, ShownPhones)[m])
    BY <1>2, <1>4, <1>5, <1>6, <1>8, <2>2, <2>3
  <2>5. ~(\A i \in 1..m : ShowsNumber(page[i]) => \E k \in i..m : KeepsApart(page[k]))
    <3>1. m \in 1..m /\ \A k \in m..m : k = m
      OBVIOUS
    <3>2. QED
      BY <1>8, <2>1, <3>1
  <2>6. QED
    BY <2>4, <2>5 DEF NumbersUpTo, v
<1>9. QED
  BY <1>7, <1>8

\* The numbers read from a page are those it shows, when it shows them apart.
LEMMA PageNumbers ==
    ASSUME PageInv, Apart
    PROVE  NumbersOf(StripHtmlToVisibleText(page)) = CharsOf(Kept(page, ShownPhones))
<1> DEFINE q == [i \in DOMAIN page |-> TextOf(page[i])]
           L == Len(page)
           t == Squeezed(FlattenSeq(q))
           v == StripHtmlToVisibleText(page)
<1>0. L \in Nat
  BY LenProperties DEF PageInv
<1>1. PICK R : /\ R[0] = <<>> /\ \A n \in 0..L : R[n] \in Seq(Nat)
               /\ \A n \in 1..L : R[n] = R[n - 1] \o TextOf(page[n])
               /\ FlattenSeq(q) = R[L]
  BY PageTextGrows
<1> HIDE DEF q
<1> DEFINE Good == {n \in Nat : n \in 0..L => NumbersUpTo(R, n)}
<1>2. 0 \in Good
  BY <1>1, NumbersBegin
<1>3. ASSUME NEW n \in Nat, n \in Good PROVE n + 1 \in Good
  <2>1. SUFFICES ASSUME n + 1 \in 0..L PROVE NumbersUpTo(R, n + 1)
    OBVIOUS
  <2>2. n \in 0..L /\ n + 1 \in 1..L /\ (n + 1) - 1 = n
    BY <1>0, <2>1
  <2>3. R[n] \in Seq(Nat) /\ R[n + 1] = R[n] \o TextOf(page[n + 1]) /\ NumbersUpTo(R, n)
    BY <1>1, <1>3, <2>2
  <2>4. QED
    BY <2>2, <2>3, NumbersNext
<1>4. Nat \subseteq Good
  <2> HIDE DEF Good
  <2>1. QED
    BY <1>2, <1>3, AllNumbers
<1>5. NumbersUpTo(R, L) /\ R[L] \in Seq(Nat)
  <2>1. L \in 0..L
    BY <1>0
  <2>2. QED
    BY <1>0, <1>1, <1>4, <2>1
<1>6. NumbersOf(t) = CharsOf(Kept(page, ShownPhones)) /\ t \in Seq(Nat)
  BY <1>1, <1>5, SqueezedIs DEF NumbersUpTo, Kept
<1>7. v = IF t # <<>> /\ Last(t) \in Blanks THEN Front(t) ELSE t
  BY Zenon DEF StripHtmlToVisibleText, q
<1> HIDE DEF t, v
<1>8. NumbersOf(v) = NumbersOf(t)
  <2>1. CASE t # <<>> /\ Last(t) \in Blanks
    <3> DEFINE f == Front(t)
               l == Last(t)
    <3>1. f \in Seq(Nat) /\ l \in Nat /\ t = Append(f, l) /\ l \notin PhoneChar
      BY <1>6, <2>1, FrontIs, BlanksNoPhone
    <3>2. v = f
      BY <1>7, <2>1
    <3> HIDE DEF f, l
    <3>3. NumbersOf(Append(f, l)) = NumbersOf(f)
      BY <3>1, NoNumberAdded
    <3>4. QED
      BY <3>1, <3>2, <3>3
  <2>2. CASE ~(t # <<>> /\ Last(t) \in Blanks)
    BY <1>7, <2>2
  <2>3. QED
    BY <2>1, <2>2
<1>9. QED
  BY <1>6, <1>8 DEF v

-----------------------------------------------------------------------------
(* The numbers of the page, of its links and of its head.                  *)

LEMMA PageIs ==
    ASSUME PageInv
    PROVE  /\ Len(page) \in Nat /\ DOMAIN page = 1..Len(page)
           /\ \A i \in 1..Len(page) : page[i] \in Pieces
           /\ Range(page) = {page[i] : i \in 1..Len(page)}
           /\ \A x : x \in Range(page) <=> \E i \in 1..Len(page) : page[i] = x
<1>1. /\ Len(page) \in Nat /\ DOMAIN page = 1..Len(page)
      /\ \A i \in 1..Len(page) : page[i] \in Pieces
  BY LenProperties, ElementOfSeq DEF PageInv
<1>2. Range(page) = {page[i] : i \in 1..Len(page)}
  BY <1>1 DEF Range
<1>3. QED
  BY <1>1, <1>2

LEMMA CharsOfKept ==
    ASSUME PageInv, NEW K
    PROVE  /\ Kept(page, K) \in Seq(Pieces) /\ CharsOf(Kept(page, K)) \in Seq(Seq(Nat))
           /\ ToSet(CharsOf(Kept(page, K))) = {p.chars : p \in Range(page) \cap K}
<1> DEFINE q == Kept(page, K)
           L == Len(q)
<1>1. /\ q \in Seq(Pieces)
      /\ \A x : (\E i \in 1..L : q[i] = x) <=> (x \in K /\ \E i \in 1..Len(page) : page[i] = x)
  <2>1. page \in Seq(Pieces)
    BY DEF PageInv
  <2>2. Kept(page, K) \in Seq(Pieces) /\ HasJust(q, page, K) /\ BeginsAlike(q, page, K)
    BY <2>1, KeptOf
  <2>3. QED
    BY <2>2 DEF HasJust, BeginsAlike
<1> HIDE DEF q
<1>2. /\ CharsOf(q) \in Seq(Seq(Nat)) /\ DOMAIN CharsOf(q) = 1..L
      /\ \A i \in 1..L : CharsOf(q)[i] = q[i].chars
  BY <1>1, CharsOfIs
<1>3. ToSet(CharsOf(q)) = {q[i].chars : i \in 1..L}
  BY <1>2 DEF ToSet
<1>4. \A x : (\E i \in 1..L : q[i] = x) <=> x \in Range(page) \cap K
  BY <1>1, PageIs
<1>5. {q[i].chars : i \in 1..L} = {p.chars : p \in Range(page) \cap K}
  BY <1>4
<1>6. QED
  BY <1>1, <1>2, <1>3, <1>5 DEF q

\* The first piece of its kind, if the page has one.
FirstOf(kind) ==
    { page[i] : i \in { i \in DOMAIN page :
                         /\ page[i].kind = kind
                         /\ \A j \in 1 .. i - 1 : page[j].kind # kind } }

OfKind(kind) == { piece \in Range(page) : piece.kind = kind }

LEMMA FirstIsHead ==
    ASSUME PageInv, NEW kind
    PROVE  FirstOf(kind) = IF Kept(page, OfKind(kind)) = <<>> THEN {}
                           ELSE {Head(Kept(page, OfKind(kind)))}
<1> DEFINE K == OfKind(kind)
           q == Kept(page, K)
           L == Len(page)
<1>1. L \in Nat /\ DOMAIN page = 1..L /\ \A x : x \in Range(page) <=> \E i \in 1..L : page[i] = x
  BY PageIs
<1>2. /\ q \in Seq(Pieces)
      /\ \A x : (\E i \in 1..Len(q) : q[i] = x) <=> (x \in K /\ \E i \in 1..L : page[i] = x)
      /\ q # <<>> => \E i \in 1..L : /\ page[i] \in K /\ q[1] = page[i]
                                     /\ \A j \in 1..(i - 1) : page[j] \notin K
  <2>1. page \in Seq(Pieces)
    BY DEF PageInv
  <2>2. Kept(page, K) \in Seq(Pieces) /\ HasJust(q, page, K) /\ BeginsAlike(q, page, K)
    BY <2>1, KeptOf
  <2>3. QED
    BY <2>2 DEF HasJust, BeginsAlike
<1>3. \A i \in 1..L : page[i] \in K <=> page[i].kind = kind
  BY <1>1 DEF OfKind
<1> HIDE DEF K, q
<1>4. FirstOf(kind) = { page[i] : i \in { i \in 1..L : page[i].kind = kind
                                             /\ \A j \in 1..(i - 1) : page[j].kind # kind } }
  BY <1>1 DEF FirstOf
<1>5. CASE q = <<>>
  <2>1. \A i \in 1..L : page[i].kind # kind
    <3> SUFFICES ASSUME NEW i \in 1..L, page[i].kind = kind PROVE FALSE
      OBVIOUS
    <3>1. \E j \in 1..Len(q) : q[j] = page[i]
      BY <1>2, <1>3
    <3>2. Len(q) = 0
      BY <1>5
    <3>3. QED
      BY <3>1, <3>2
  <2>2. FirstOf(kind) = {}
    BY <1>4, <2>1
  <2>3. QED
    BY <1>5, <2>2 DEF q, K
<1>6. CASE q # <<>>
  <2>1. PICK i \in 1..L : /\ page[i] \in K /\ q[1] = page[i]
                          /\ \A j \in 1..(i - 1) : page[j] \notin K
    BY <1>2, <1>6
  <2>2. page[i].kind = kind /\ \A j \in 1..(i - 1) : page[j].kind # kind
    <3>1. \A j \in 1..(i - 1) : j \in 1..L
      BY <1>1
    <3>2. QED
      BY <1>3, <2>1, <3>1
  <2>3. ASSUME NEW k \in 1..L, page[k].kind = kind, \A j \in 1..(k - 1) : page[j].kind # kind
        PROVE  k = i
    <3>1. k \in 1..(i - 1) \/ i \in 1..(k - 1) \/ k = i
      BY <1>1
    <3>2. QED
      BY <2>2, <2>3, <3>1
  <2>4. FirstOf(kind) = {page[i]}
    BY <1>4, <2>2, <2>3
  <2>5. Head(q) = q[1]
    BY <1>2, <1>6, HeadTailProperties
  <2>6. QED
    BY <1>6, <2>1, <2>4, <2>5 DEF q, K
<1>7. QED
  BY <1>5, <1>6

\* A number alone in its text is the one number of it.
LEMMA NumberInText ==
    ASSUME NEW s \in Shown
    PROVE  /\ NumbersOf(s) \in Seq(Seq(Nat))
           /\ ToSet(NumbersOf(s)) = IF Len(s) > 6 THEN {s} ELSE {}
<1>1. <<>> \o s = s /\ s \in Seq(Nat)
  BY SpellingInUnits, ConcatEmptySeq
<1>2. /\ NumbersOf(s) = IF Len(s) > 6 THEN Append(NumbersOf(<<>>), s) ELSE NumbersOf(<<>>)
      /\ NumbersOf(<<>>) = <<>> /\ NumbersOf(<<>>) \in Seq(Seq(Nat))
  <2> DEFINE e == <<>>
  <2>1. e \in Seq(Nat) /\ CleanTail(e) /\ NumbersOf(e) = <<>>
    BY EmptyReads
  <2>2. e \o s = s
    BY <1>1
  <2> HIDE DEF e
  <2>3. /\ NumbersOf(e \o s) = IF Len(s) > 6 THEN Append(NumbersOf(e), s) ELSE NumbersOf(e)
        /\ NumbersOf(e) \in Seq(Seq(Nat))
    BY <2>1, NumberAdded
  <2>4. QED
    BY <2>1, <2>2, <2>3 DEF e
<1>3. <<>> \in Seq(Seq(Nat)) /\ ToSet(<<>>) = {}
  BY EmptySeq, SetOfSeq
<1>4. Append(<<>>, s) \in Seq(Seq(Nat)) /\ ToSet(Append(<<>>, s)) = {s}
  <2>1. Append(<<>>, s) = <<s>>
    OBVIOUS
  <2>2. <<s>> \in Seq(Seq(Nat)) /\ ToSet(<<s>>) = {s}
    BY <1>1 DEF ToSet
  <2>3. QED
    BY <2>1, <2>2
<1>5. QED
  BY <1>2, <1>3, <1>4

\* What is read from the head: the first of its kind, if it is a phone number.
LEMMA HeadNumbers ==
    ASSUME PageInv, NEW kind \in {"title", "meta"}
    PROVE  LET all == Kept(page, OfKind(kind))
               found == IF all = <<>> THEN <<>> ELSE ExtractFromText(Head(all).chars)
           IN /\ PhonesOf(found) \in Seq(Seq(Nat))
              /\ ToSet(PhonesOf(found)) = {p.chars : p \in {p \in FirstOf(kind) : IsPhone(p)}}
<1> DEFINE all == Kept(page, OfKind(kind))
           found == IF all = <<>> THEN <<>> ELSE ExtractFromText(Head(all).chars)
<1>1. FirstOf(kind) = IF all = <<>> THEN {} ELSE {Head(all)}
  BY FirstIsHead
<1> HIDE DEF all
<1>2. CASE all = <<>>
  <2>1. PhonesOf(<<>>) = <<>>
    BY DEF PhonesOf
  <2>2. <<>> \in Seq(Seq(Nat)) /\ ToSet(<<>>) = {}
    BY EmptySeq, SetOfSeq
  <2>3. PhonesOf(found) = <<>>
    BY <1>2, <2>1
  <2>4. {p.chars : p \in {p \in FirstOf(kind) : IsPhone(p)}} = {}
    BY <1>1, <1>2
  <2>5. QED
    BY <2>2, <2>3, <2>4 DEF all
<1>3. CASE all # <<>>
  <2>1. Head(all) \in FirstOf(kind) /\ FirstOf(kind) = {Head(all)}
    BY <1>1, <1>3
  <2>2. PICK i \in 1..Len(page) : Head(all) = page[i] /\ page[i].kind = kind /\ page[i] \in Pieces
    BY <2>1, PageIs DEF FirstOf
  <2>3. Head(all).chars \in Shown
    <3>1. page[i].chars \in Tagged
      BY <2>2 DEF Pieces
    <3>2. QED
      BY <2>2, <3>1, InputConstantsOK DEF InputsOK
  <2> DEFINE p == Head(all)
             s == p.chars
  <2>4. PhonesOf(found) = NumbersOf(s)
    BY <1>3 DEF NumbersOf
  <2>5. s \in Shown
    BY <2>3
  <2>6. IsPhone(p) <=> Len(s) > 6
    BY <2>5 DEF IsPhone, IsNumber
  <2>7. FirstOf(kind) = {p}
    BY <2>1
  <2> HIDE DEF found, p
  <2>8. /\ NumbersOf(s) \in Seq(Seq(Nat))
        /\ ToSet(NumbersOf(s)) = IF Len(s) > 6 THEN {s} ELSE {}
    <3> HIDE DEF s
    <3>1. QED
      BY <2>5, NumberInText
  <2>9. {x.chars : x \in {x \in FirstOf(kind) : IsPhone(x)}} = IF IsPhone(p) THEN {s} ELSE {}
    BY <2>7
  <2>10. QED
    BY <2>4, <2>6, <2>8, <2>9 DEF found, all
<1>4. QED
  BY <1>2, <1>3

\* The numbers of the links, of the text, of the title and of the description.
LEMMA HtmlNumbers ==
    ASSUME PageInv, Apart
    PROVE  Range(ExtractFromHtml(page)) =
              {p.chars : p \in { p \in Range(page) :
                  \/ p.kind = "link"
                  \/ IsPhone(p) /\ (Visible(p) \/ p \in FirstMeta) }}
<1> DEFINE all(kind) == Kept(page, OfKind(kind))
           inHead(kind) == IF all(kind) = <<>> THEN <<>> ELSE ExtractFromText(Head(all(kind)).chars)
           a == CharsOf(all("link"))
           b == PhonesOf(FromBody(page))
           c == PhonesOf(inHead("title"))
           d == PhonesOf(inHead("meta"))
           named == { p \in Range(page) :
                         \/ p.kind = "link"
                         \/ IsPhone(p) /\ (Visible(p) \/ p \in FirstMeta) }
           First(kind) == {p \in FirstOf(kind) : IsPhone(p)}
<1>1. ExtractFromHtml(page) = ((a \o b) \o c) \o d
  BY Zenon DEF ExtractFromHtml, CharsOf, PhonesOf, OfKind
<1>2. a \in Seq(Seq(Nat)) /\ ToSet(a) = {p.chars : p \in Range(page) \cap OfKind("link")}
  BY CharsOfKept
<1>3. b \in Seq(Seq(Nat)) /\ ToSet(b) = {p.chars : p \in Range(page) \cap ShownPhones}
  <2>1. b = CharsOf(Kept(page, ShownPhones))
    BY PageNumbers DEF FromBody, NumbersOf
  <2>2. QED
    BY <2>1, CharsOfKept
<1>4. c \in Seq(Seq(Nat)) /\ ToSet(c) = {p.chars : p \in First("title")}
  BY HeadNumbers
<1>5. d \in Seq(Seq(Nat)) /\ ToSet(d) = {p.chars : p \in First("meta")}
  BY HeadNumbers
<1> HIDE DEF a, b, c, d
<1>6. a \o b \in Seq(Seq(Nat)) /\ ToSet(a \o b) = ToSet(a) \cup ToSet(b)
  BY <1>2, <1>3, SetOfConcat
<1> DEFINE ab == a \o b
           abc == ab \o c
<1>7. ab \in Seq(Seq(Nat)) /\ ToSet(ab) = ToSet(a) \cup ToSet(b)
  BY <1>6
<1> HIDE DEF ab
<1>8. abc \in Seq(Seq(Nat)) /\ ToSet(abc) = ToSet(ab) \cup ToSet(c)
  BY <1>4, <1>7, SetOfConcat
<1> HIDE DEF abc
<1>9. ToSet(abc \o d) = ToSet(abc) \cup ToSet(d)
  BY <1>5, <1>8, SetOfConcat
<1>10. Range(ExtractFromHtml(page)) = ToSet(a) \cup ToSet(b) \cup ToSet(c) \cup ToSet(d)
  <2>1. ExtractFromHtml(page) = abc \o d
    BY <1>1 DEF ab, abc
  <2>2. Range(abc \o d) = ToSet(abc \o d)
    BY DEF Range, ToSet
  <2>3. QED
    BY <1>7, <1>8, <1>9, <2>1, <2>2
<1>11. named = (Range(page) \cap OfKind("link")) \cup (Range(page) \cap ShownPhones)
                  \cup First("title") \cup First("meta")
  <2>1. Range(page) \cap OfKind("link") = {p \in Range(page) : p.kind = "link"}
    BY DEF OfKind
  <2>2. Range(page) \cap ShownPhones = {p \in Range(page) : Visible(p) /\ IsPhone(p)}
    BY DEF ShownPhones
  <2>3. \A kind : \A p \in First(kind) : p \in Range(page) /\ p.kind = kind /\ IsPhone(p)
    BY PageIs DEF FirstOf
  <2>4. First("title") \subseteq Range(page) \cap ShownPhones
    BY <2>2, <2>3 DEF Visible
  <2>5. First("meta") = {p \in Range(page) : p \in FirstMeta /\ IsPhone(p)}
    <3>1. FirstOf("meta") = FirstMeta
      BY DEF FirstOf, FirstMeta
    <3>2. QED
      BY <2>3, <3>1
  <2> HIDE DEF First
  <2>6. QED
    BY <2>1, <2>2, <2>4, <2>5
<1> HIDE DEF First
<1>12. {p.chars : p \in named} = ToSet(a) \cup ToSet(b) \cup ToSet(c) \cup ToSet(d)
  BY <1>2, <1>3, <1>4, <1>5, <1>11
<1>13. QED
  BY <1>10, <1>12

LEMMA NumbersFound ==
    ASSUME PageInv
    PROVE  ShownNumbersFound
<1> SUFFICES ASSUME Apart
             PROVE  LET stored(s) == NormalizeVietnamPhone(s).normalized
                        written == Kept(page, ShownPhones)
                        named == { p \in Range(page) :
                                      \/ p.kind = "link"
                                      \/ IsPhone(p) /\ (Visible(p) \/ p \in FirstMeta) }
                    IN /\ Read(FromBody(page)) = [i \in DOMAIN written |-> stored(written[i].chars)]
                       /\ { stored(s) : s \in Range(ExtractFromHtml(page)) }
                             = { stored(p.chars) : p \in named }
  BY Zenon DEF ShownNumbersFound, ShownPhones
<1> DEFINE stored(s) == NormalizeVietnamPhone(s).normalized
           found == FromBody(page)
           written == Kept(page, ShownPhones)
           named == { p \in Range(page) :
                         \/ p.kind = "link"
                         \/ IsPhone(p) /\ (Visible(p) \/ p \in FirstMeta) }
           numbers == Range(ExtractFromHtml(page))
<1>1. PhonesOf(found) = CharsOf(written)
  BY PageNumbers DEF FromBody, NumbersOf
<1>2. numbers = {p.chars : p \in named}
  BY HtmlNumbers
<1> HIDE DEF found, written, named, numbers
<1>3. DOMAIN found = DOMAIN written /\ \A i \in DOMAIN found : found[i].phone = written[i].chars
  <2>1. DOMAIN PhonesOf(found) = DOMAIN found /\ DOMAIN CharsOf(written) = DOMAIN written
    BY DEF PhonesOf, CharsOf
  <2>2. /\ \A i \in DOMAIN found : PhonesOf(found)[i] = found[i].phone
        /\ \A i \in DOMAIN written : CharsOf(written)[i] = written[i].chars
    BY DEF PhonesOf, CharsOf
  <2>3. QED
    BY <1>1, <2>1, <2>2
<1>4. Read(found) = [i \in DOMAIN written |-> stored(written[i].chars)]
  BY <1>3 DEF Read
<1>5. {stored(s) : s \in numbers} = {stored(p.chars) : p \in named}
  BY <1>2
<1>6. QED
  BY <1>4, <1>5 DEF found, written, named, numbers

-----------------------------------------------------------------------------
(* What reaches the normalizer, the extractor and the parser.              *)

\* Whatever is typed, however long, gets one stored form, well formed, that
\* every later normalization gives back and that the spellings with 0, +84 and
\* 84 of a national number share (vietnamPhone.ts:33).
THEOREM OneStoredFormAlways == Spec => []OneStoredForm
<1>1. Init => TypedInv
  BY EmptySeq DEF Init, InputsInit, TypedInv
<1>2. TypedInv /\ [Next]_vars => TypedInv'
  <2> SUFFICES ASSUME TypedInv, [Next]_vars PROVE TypedInv'
    OBVIOUS
  <2>1. CASE PressKey
    <3>1. PICK c \in Keys \cup {1} : typed' = Append(typed, c)
      BY <2>1 DEF PressKey
    <3>2. QED
      BY <3>1, AppendProperties DEF TypedInv
  <2>2. CASE UNCHANGED typed
    BY <2>2 DEF TypedInv
  <2>3. QED
    BY <2>1, <2>2 DEF Next, InputsStep, WritePage, WriteLine, vars, inputVars
<1>3. TypedInv => OneStoredForm
  BY StoredOnceSpelledAny
<1>4. QED
  BY <1>1, <1>2, <1>3, PTL DEF Spec

\* A line of the call list written as the help text says, a number alone or a
\* number, a mark and a count, is read as that number and that count: for
\* every spelling, every mark and whatever follows (app.js:296).
THEOREM LinesReadAsWritten == Spec => []LineReadAsWritten
<1>1. Init => LineInv
  BY EmptySeq DEF Init, InputsInit, LineInv
<1>2. LineInv /\ [Next]_vars => LineInv'
  <2> SUFFICES ASSUME LineInv, [Next]_vars PROVE LineInv'
    OBVIOUS
  <2>1. CASE WriteLine
    BY <2>1, LineInvKept
  <2>2. CASE UNCHANGED line
    BY <2>2 DEF LineInv
  <2>3. QED
    BY <2>1, <2>2 DEF Next, InputsStep, PressKey, WritePage, vars, inputVars
<1>3. LineInv => LineReadAsWritten
  BY LineReads
<1>4. QED
  BY <1>1, <1>2, <1>3, PTL DEF Spec

\* The words taken as a number's context stand in its own paragraph and next
\* to it, whatever the page and the window: nothing of another list item is
\* read as the name of this one's owner (phoneExtractor.ts:33).
THEOREM ContextsInParagraph == Spec => []ContextOfParagraph
<1>1. Init => PageInv
  BY EmptySeq DEF Init, InputsInit, PageInv
<1>2. PageInv /\ [Next]_vars => PageInv'
  <2> SUFFICES ASSUME PageInv, [Next]_vars PROVE PageInv'
    OBVIOUS
  <2>1. CASE WritePage
    <3>1. PICK piece \in Pieces : page' = Append(page, piece)
      BY <2>1 DEF WritePage
    <3>2. QED
      BY <3>1, AppendProperties DEF PageInv
  <2>2. CASE UNCHANGED page
    BY <2>2 DEF PageInv
  <2>3. QED
    BY <2>1, <2>2 DEF Next, InputsStep, PressKey, WriteLine, vars, inputVars
<1>3. PageInv => ContextOfParagraph
  BY ContextReads
<1>4. QED
  BY <1>1, <1>2, <1>3, PTL DEF Spec

\* Numbers that a page shows apart are all found, in their order, each as it
\* would be stored alone, and nothing else is, but the numbers of the tel: links
\* and of the page's description: for every page, every spelling and everything
\* that is written between them (phoneExtractor.ts:8, 16).
THEOREM ShownNumbersAlwaysFound == Spec => []ShownNumbersFound
<1>1. Init => PageInv
  BY EmptySeq DEF Init, InputsInit, PageInv
<1>2. PageInv /\ [Next]_vars => PageInv'
  <2> SUFFICES ASSUME PageInv, [Next]_vars PROVE PageInv'
    OBVIOUS
  <2>1. CASE WritePage
    <3>1. PICK piece \in Pieces : page' = Append(page, piece)
      BY <2>1 DEF WritePage
    <3>2. QED
      BY <3>1, AppendProperties DEF PageInv
  <2>2. CASE UNCHANGED page
    BY <2>2 DEF PageInv
  <2>3. QED
    BY <2>1, <2>2 DEF Next, InputsStep, PressKey, WriteLine, vars, inputVars
<1>3. PageInv => ShownNumbersFound
  BY NumbersFound
<1>4. QED
  BY <1>1, <1>2, <1>3, PTL DEF Spec
=============================================================================

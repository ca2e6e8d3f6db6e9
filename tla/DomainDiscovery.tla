--------------------------- MODULE DomainDiscovery ---------------------------
(***************************************************************************)
(* discover_domain (discovery_service.py) for one domain: commit the       *)
(* source, walk the site's sitemaps request by request, score their URLs,  *)
(* commit a crawl target for the best of them, and report.  It is the      *)
(* handler of a DISCOVER_DOMAIN job and so is started again after a crash. *)
(*                                                                         *)
(* The recursion of _resolve_sitemap is the sequence "todo" of calls still *)
(* to be made, the next one first.                                         *)
(***************************************************************************)
EXTENDS Integers, FiniteSets, FiniteSetsExt, SequencesExt

CONSTANTS
    Sitemaps,       \* addresses of sitemap files
    Fallbacks,      \* COMMON_SITEMAP_PATHS
    Urls,           \* page addresses, as sitemaps spell them
    Targets,        \* crawl_targets.normalized_url
    TargetOf,       \* normalize_url
    Patterns,       \* the patterns of url_scoring.yaml
    Matches,        \* URL -> those it contains
    Rules,          \* the three lists of rules, one after the other
    Denied,         \* the deny list
    DefaultScore,
    MaxDepth,       \* MAX_DEPTH
    MaxQueued,      \* max_urls_queued
    Sites,          \* what the domain may serve
    NoSite,         \* nobody has asked it yet
    EarlierTargets, \* target -> its priority, 0 for no row
    MaxDiscoveries, \* bound on discoveries begun
    MaxSetbacks     \* bound on failed requests and crashes

File == [kind : {"absent", "index", "urlset"}, locs : Seq(Sitemaps) \cup Seq(Urls)]

ASSUME DiscoveryConstantsOK ==
    /\ Fallbacks \in Seq(Sitemaps)
    /\ TargetOf \in [Urls -> Targets] /\ DefaultScore \in Nat \ {0}
    /\ Matches \in [Urls -> SUBSET Patterns] /\ Denied \subseteq Patterns
    \* url_scoring.yaml lists the rules with higher scores first.
    /\ Rules \in Seq([pattern : Patterns, score : Nat \ {0}])
    /\ \A i, j \in DOMAIN Rules : i < j => Rules[i].score >= Rules[j].score
    /\ {MaxQueued, MaxDiscoveries, MaxSetbacks} \subseteq Nat /\ MaxDepth \in Nat \ {0}
    /\ EarlierTargets \in [Targets -> Nat]
    /\ \A site \in Sites :
        /\ site.robots \in Seq(Sitemaps)
        /\ site.files \in [Sitemaps -> File]
        /\ \A s \in Sitemaps :
            site.files[s].locs \in
                IF site.files[s].kind = "index" THEN Seq(Sitemaps) ELSE Seq(Urls)
    /\ NoSite \notin Sites

VARIABLES
    site,       \* what the domain serves, bar failures
    source,     \* is the domain in data_sources?
    targets,    \* crawl_targets: target -> priority, 0 for no row
    reports,    \* domain_discoveries: their status
    stage,
    robotsFound,
    todo,       \* calls of _resolve_sitemap to come
    tried,      \* sitemap_urls_tried, with the depth and whether it was found
    urls,       \* result.urls
    discoveries, setbacks

discoveryVars == <<site, source, targets, reports, stage, robotsFound, todo, tried,
                   urls, discoveries, setbacks>>

Call == [sitemap : Sitemaps, depth : Nat]

DiscoveryTypeOK ==
    /\ site \in Sites \cup {NoSite} /\ source \in BOOLEAN
    /\ targets \in [Targets -> Nat]
    /\ reports \in Seq({"SUCCESS", "PARTIAL", "FAILED"})
    /\ stage \in {"idle", "robots", "walk", "report"} /\ robotsFound \in BOOLEAN
    /\ todo \in Seq(Call) /\ urls \in Seq(Urls)
    /\ tried \in Seq([call : Call, found : BOOLEAN])
    /\ discoveries \in 0..MaxDiscoveries /\ setbacks \in 0..MaxSetbacks

DiscoveryInit ==
    /\ site = NoSite /\ source = FALSE /\ targets = EarlierTargets /\ reports = <<>>
    /\ stage = "idle" /\ robotsFound = FALSE
    /\ todo = <<>> /\ tried = <<>> /\ urls = <<>>
    /\ discoveries = 0 /\ setbacks = 0

-----------------------------------------------------------------------------
(* URL scores and the choice of the URLs to queue.                         *)

\* UrlScorer.score: the first rule that matches.
UrlScore(u) ==
    LET hits == {i \in DOMAIN Rules : Rules[i].pattern \in Matches[u]}
    IN  IF Matches[u] \cap Denied # {} THEN 0
        ELSE IF hits = {} THEN DefaultScore
        ELSE Rules[Min(hits)].score

\* dict.fromkeys: the places at which a URL is listed for the first time.
Distinct(found) == {i \in DOMAIN found : \A j \in 1..i-1 : found[j] # found[i]}

\* scored.sort(...), which is stable.
Ahead(found, i, j) ==
    \/ UrlScore(found[i]) > UrlScore(found[j])
    \/ UrlScore(found[i]) = UrlScore(found[j]) /\ i < j

\* MIN_SCORE_TO_QUEUE
Scored(found) == {i \in Distinct(found) : UrlScore(found[i]) >= 1}

\* The places the list is cut to after sorting.
Queueable(found) ==
    {i \in Scored(found) : Cardinality({j \in Scored(found) : Ahead(found, j, i)}) < MaxQueued}

\* upsert_crawl_target in the order of the list: a target that exists keeps
\* its priority.
Upserted(found) ==
    LET of(t) == {i \in Queueable(found) : TargetOf[found[i]] = t}
        first(t) == CHOOSE i \in of(t) : \A j \in of(t) \ {i} : Ahead(found, i, j)
    IN  [t \in Targets |-> IF targets[t] > 0 \/ of(t) = {} THEN targets[t]
                           ELSE UrlScore(found[first(t)])]

-----------------------------------------------------------------------------
(* A discovery.                                                            *)

Setback == setbacks < MaxSetbacks /\ setbacks' = setbacks + 1

\* _upsert_discovered_source and its commit.
StartDiscovery ==
    /\ stage = "idle" /\ discoveries < MaxDiscoveries
    /\ site' \in IF site = NoSite THEN Sites ELSE {site}
    /\ source' = TRUE /\ stage' = "robots"
    /\ discoveries' = discoveries + 1
    /\ UNCHANGED <<targets, reports, robotsFound, todo, tried, urls, setbacks>>

Calls(locs, depth) ==
    [i \in DOMAIN locs |-> [sitemap |-> locs[i], depth |-> depth]]

StartingPoints == IF robotsFound /\ site.robots # <<>> THEN site.robots ELSE Fallbacks

Candidates_fromZero == Calls(StartingPoints, 0)

\* discover_sitemaps resolves its candidates at depth 1.
Candidates == Calls(StartingPoints, 1)

\* _robots_sitemaps; a robots.txt that cannot be had has no directives.
ReadRobots ==
    /\ stage = "robots"
    /\ \/ robotsFound' = TRUE /\ UNCHANGED setbacks
       \/ robotsFound' = FALSE /\ Setback
    /\ UNCHANGED site /\ todo' = Candidates'
    /\ stage' = "walk" /\ tried' = <<>> /\ urls' = <<>>
    /\ UNCHANGED <<source, targets, reports, discoveries>>

Seen(s) == \E t \in ToSet(tried) : t.call.sitemap = s

\* _resolve_sitemap returns at once.
SkipSitemap ==
    /\ stage = "walk" /\ todo # <<>>
    /\ Head(todo).depth > MaxDepth \/ Seen(Head(todo).sitemap)
    /\ todo' = Tail(todo)
    /\ UNCHANGED <<site, source, targets, reports, stage, robotsFound, tried, urls,
                   discoveries, setbacks>>

\* _resolve_sitemap fetches and parses the file; an index is resolved one
\* level deeper, before anything else.
ResolveSitemap ==
    /\ stage = "walk" /\ todo # <<>>
    /\ LET call == Head(todo)
           file == site.files[call.sitemap]
           Tries(found) == tried' = Append(tried, [call |-> call, found |-> found])
       IN  /\ call.depth <= MaxDepth /\ ~Seen(call.sitemap)
           /\ \/ file.kind = "index" /\ Tries(TRUE)
                 /\ todo' = Calls(file.locs, call.depth + 1) \o Tail(todo)
                 /\ UNCHANGED <<urls, setbacks>>
              \/ file.kind = "urlset" /\ Tries(TRUE)
                 /\ todo' = Tail(todo) /\ urls' = urls \o file.locs
                 /\ UNCHANGED setbacks
              \/ file.kind = "absent" /\ Tries(FALSE)
                 /\ todo' = Tail(todo) /\ UNCHANGED <<urls, setbacks>>
              \/ file.kind # "absent" /\ Tries(FALSE) /\ Setback
                 /\ todo' = Tail(todo) /\ UNCHANGED urls
    /\ UNCHANGED <<site, source, targets, reports, stage, robotsFound, discoveries>>

\* Scores, upserts and their one commit.
QueueTargets ==
    /\ stage = "walk" /\ todo = <<>>
    /\ targets' = Upserted(urls)
    /\ stage' = "report"
    /\ UNCHANGED <<site, source, reports, robotsFound, todo, tried, urls, discoveries,
                   setbacks>>

\* _insert_domain_discovery
Report ==
    /\ stage = "report"
    /\ reports' = Append(reports,
            IF \A t \in ToSet(tried) : t.found THEN "SUCCESS"
            ELSE IF urls # <<>> THEN "PARTIAL" ELSE "FAILED")
    /\ stage' = "idle"
    /\ UNCHANGED <<site, source, targets, robotsFound, todo, tried, urls, discoveries,
                   setbacks>>

\* The worker dies, or an exception ends the job; what is committed stays.
DiscoveryDies ==
    /\ stage # "idle" /\ Setback
    /\ stage' = "idle" /\ todo' = <<>> /\ tried' = <<>> /\ urls' = <<>>
    /\ UNCHANGED <<site, source, targets, reports, robotsFound, discoveries>>

DiscoveryStep ==
    \/ StartDiscovery \/ ReadRobots \/ SkipSitemap \/ ResolveSitemap
    \/ QueueTargets \/ Report \/ DiscoveryDies

-----------------------------------------------------------------------------
(* Properties.                                                             *)

\* The chains of at most MaxDepth sitemaps, each listed in the one before it,
\* that begin where the walk began.
Chains ==
    {c \in UNION {[1..n -> Sitemaps] : n \in 1..MaxDepth} :
        /\ c[1] \in ToSet(StartingPoints)
        /\ \A k \in 1..Len(c)-1 :
            LET file == site.files[c[k]]
            IN  file.kind = "index" /\ c[k+1] \in ToSet(file.locs)}

\* A walk fetches no sitemap twice and none that is further away than
\* MAX_DEPTH, whatever cycles there are.  It leaves out a nearer one only if
\* every way to it leads past a request that failed or an index the walk
\* first met at that depth.
WalkCovers ==
    /\ \A i, j \in DOMAIN tried :
            tried[i].call.sitemap = tried[j].call.sitemap => i = j
    /\ stage \in {"walk", "report"} =>
        LET T == ToSet(tried)
            reached == {t.call.sitemap : t \in T}
        IN  /\ \A s \in reached : \E c \in Chains : c[Len(c)] = s
            /\ todo = <<>> => \A c \in Chains :
                \/ c[Len(c)] \in reached
                \/ \E k \in 1..Len(c)-1, t \in T :
                    t.call.sitemap = c[k] /\ (~t.found \/ t.call.depth = MaxDepth)
            /\ ToSet(urls) = UNION {ToSet(site.files[t.call.sitemap].locs) :
                    t \in {u \in T : u.found /\ site.files[u.call.sitemap].kind = "urlset"}}

\* url_scoring.yaml: "only the highest-scoring match overall is kept".
Relevance(u) ==
    LET hits == {rule \in ToSet(Rules) : rule.pattern \in Matches[u]}
    IN  IF hits = {} THEN DefaultScore ELSE Max({rule.score : rule \in hits})

\* What is queued is the best of what was found: a URL without a target has as
\* many better ones as may be queued, a denied URL brings no target, and a new
\* target has the priority of its best spelling, unless a discovery before it
\* saw less of the site.
BestQueued ==
    LET wanted(S) == {u \in S : Matches[u] \cap Denied = {}}
        fresh == {t \in Targets : EarlierTargets[t] = 0 /\ targets[t] > 0}
    IN  /\ \A t \in Targets : EarlierTargets[t] > 0 => targets[t] = EarlierTargets[t]
        /\ Cardinality(fresh) <= MaxQueued * discoveries
        /\ \A t \in fresh : \E u \in wanted(Urls) :
                TargetOf[u] = t /\ targets[t] = Relevance(u)
        /\ stage = "report" =>
            LET found == wanted(ToSet(urls)) IN
            /\ \A u \in found : targets[TargetOf[u]] = 0 =>
                    Cardinality({v \in found \ {u} : Relevance(v) >= Relevance(u)}) >= MaxQueued
            /\ discoveries = 1 => \A t \in fresh :
                    targets[t] = Max({Relevance(u) : u \in {v \in found : TargetOf[v] = t}})

\* Discovery visits what it should of a site and queues the best it found.
BestOfSiteQueued == DiscoveryTypeOK /\ WalkCovers /\ BestQueued
=============================================================================

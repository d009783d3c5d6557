------------------------------ MODULE Enrichment ------------------------------
(***************************************************************************)
(* EnrichResults (internal/vulnerability/enrichment.go): the advisories of *)
(* the severe findings are fetched by a pool, then the KEV catalog and the *)
(* EPSS scores concurrently, then the npm registry by a pool; what arrived *)
(* is written to the findings, and one report per source is left on the    *)
(* results.  Enriching the same results again is allowed.                  *)
(*                                                                         *)
(* The pools of the advisories and of the registry never overlap and share *)
(* queued and flying.                                                      *)
(***************************************************************************)
EXTENDS NetStatus, FiniteSets, Sequences

CONSTANTS
    Results,      \* what may be enriched: sequences of findings
                  \*   [id, alias, severe, name, npm, version]
    Cves, Ghsas,  \* identifiers
    NoCve,
    MapsTo,       \* advisory identifier -> the CVE its advisory names, or NoCve
    Published,    \* identifiers GitHub has an advisory for
    Listed,       \* the CVEs in the KEV catalog
    Scored,       \* the CVEs with an EPSS score
    MaxLookups,   \* advisories fetched at most (50)
    MaxRegistry,  \* names probed at most (maxRegistryLookups, 25)
    BatchSize,    \* CVEs of an EPSS request (100)
    Slots,        \* requests in flight at most (5)
    Refusals,     \* what a failed request may be classified as
    Again,        \* bound: the results that are enriched more than once,
    MaxRuns       \* and how often

ASSUME EnrichmentAssumption ==
    /\ {MaxLookups, MaxRegistry, BatchSize, Slots, MaxRuns} \subseteq Nat \ {0}
    /\ Cves \cap Ghsas = {} /\ NoCve \notin Cves
    /\ Listed \subseteq Cves /\ Scored \subseteq Cves
    /\ Published \subseteq Cves \cup Ghsas
    /\ MapsTo \in [Ghsas -> Cves \cup {NoCve}]
    /\ Refusals \subseteq Failures
    /\ Again \subseteq Results
    /\ \A results \in Results :
          /\ results \in Seq({results[i] : i \in DOMAIN results})
          /\ \A i \in DOMAIN results : results[i].alias \in Cves \cup {NoCve}

VARIABLES
    findings,  \* results.Vulnerabilities as the scanner left them
    pc,        \* "ready", "ghsa", "feeds", "registry", "done"
    runs,
    queued,    \* lookups without a slot
    flying,    \* lookups whose request is out
    advisory,  \* ghsaCache: identifier -> the status its lookup ended with
    worst,     \* ghsaStatus, then worst of the registry
    kev,       \* "off", "asked", or the status of the catalog
    left,      \* uncached: the CVEs the EPSS goroutine has still to ask for
    scores,    \* the CVEs it has a score for
    batches,   \* <<succeeded, failed>> batches
    epss,      \* lastStatus, or "off" before the goroutine starts
    registry,  \* name -> <<status of the metadata, status of the downloads>>
    enriched,  \* what each finding received: [adv, kev, epss, signals]
    reports,   \* the reports of the current run
    network    \* results.NetworkStatus

vars == <<findings, pc, runs, queued, flying, advisory, worst, kev, left, scores,
          batches, epss, registry, enriched, reports, network>>

Report(source, status) == [source |-> source, status |-> status]
Nothing == [x \in {} |-> "success"]
Bare == [adv |-> FALSE, kev |-> FALSE, epss |-> FALSE, signals |-> <<>>]

Init == /\ findings \in Results
        /\ pc = "ready" /\ runs = 0
        /\ queued = {} /\ flying = {}
        /\ advisory = Nothing /\ worst = "success"
        /\ kev = "off"
        /\ left = <<>> /\ scores = {} /\ batches = <<0, 0>> /\ epss = "off"
        /\ registry = Nothing
        /\ enriched = [i \in DOMAIN findings |-> Bare]
        /\ reports = <<>>
        /\ network \in {<<>>, <<Report("ghsa_packages", "partial")>>}

-----------------------------------------------------------------------------
(* What is looked up.                                                       *)

\* Indexes of the first n findings with distinct values of a field, among those wanted.
FirstOf(wanted, key, n) ==
    LET fresh == {i \in wanted : \A j \in wanted : j < i => findings[j][key] # findings[i][key]}
    IN  {i \in fresh : Cardinality({j \in fresh : j < i}) < n}

Severe == {i \in DOMAIN findings : findings[i].severe /\ findings[i].id \in Cves \cup Ghsas}
Lookups == {findings[i].id : i \in FirstOf(Severe, "id", MaxLookups)}

Npm == {i \in DOMAIN findings : findings[i].npm}
Targets == FirstOf(Npm, "name", MaxRegistry)
TargetNames == {findings[i].name : i \in Targets}

\* The version asked for is the one of the first finding with that name.
AskedVersion(name) == findings[CHOOSE i \in Targets : findings[i].name = name].version

knownCVE(f) == IF f.id \in Cves THEN f.id ELSE f.alias

\* ghsaCache holds an advisory for the identifier.
Has(id) == id \in DOMAIN advisory /\ advisory[id] = "success" /\ id \in Published

\* Mutant: the CVE of the advisory is preferred to the one the scanner gave.
cveForPreferringAdvisory(f) ==
    IF f.id \in Ghsas /\ Has(f.id) THEN MapsTo[f.id] ELSE knownCVE(f)

cveFor(f) == IF knownCVE(f) # NoCve THEN knownCVE(f)
             ELSE IF f.id \in Ghsas /\ Has(f.id) THEN MapsTo[f.id] ELSE NoCve

\* A set of indexes in increasing order, and the elements of a sequence there.
InOrder(at) == CHOOSE f \in [1 .. Cardinality(at) -> at] :
                 \A j, k \in 1 .. Cardinality(at) : j < k => f[j] < f[k]
Only(s, at) == [k \in 1 .. Cardinality(at) |-> s[InOrder(at)[k]]]

\* The CVEs of the findings, and cveList: each once, where it comes first.
FindingCves == [i \in DOMAIN findings |-> cveFor(findings[i])]
CveList == Only(FindingCves,
                {i \in DOMAIN findings :
                   /\ FindingCves[i] # NoCve
                   /\ \A j \in 1 .. i - 1 : FindingCves[j] # FindingCves[i]})

-----------------------------------------------------------------------------
Sources == <<"ghsa", "kev", "epss", "npm_registry", "malware">>

\* Mutant: the reports of a run replace the earlier ones.
withoutEarlierReports(earlier, current) == current

withEarlierReports(earlier, current) ==
    Only(earlier, {j \in DOMAIN earlier : \A k \in DOMAIN current :
                     current[k].source # earlier[j].source}) \o current

\* Nothing to enrich: every source is reported as skipped.
SkipAll == /\ pc = "ready"
           /\ findings = <<>>
           /\ pc' = "done" /\ runs' = runs + 1
           /\ network' = withEarlierReports(network,
                            [k \in DOMAIN Sources |-> Report(Sources[k], "skipped")])
           /\ UNCHANGED <<findings, queued, flying, advisory, worst, kev, left,
                          scores, batches, epss, registry, enriched, reports>>

StartGhsa == /\ pc = "ready"
             /\ findings # <<>>
             /\ pc' = "ghsa" /\ runs' = runs + 1
             /\ queued' = Lookups
             /\ advisory' = Nothing /\ worst' = "success"
             /\ registry' = Nothing
             /\ reports' = <<>>
             /\ UNCHANGED <<findings, flying, kev, left, scores, batches, epss,
                            enriched, network>>

Acquire(x) == /\ x \in queued
              /\ Cardinality(flying) < Slots
              /\ queued' = queued \ {x}
              /\ flying' = flying \cup {x}
              /\ UNCHANGED <<findings, pc, runs, advisory, worst, kev, left, scores,
                             batches, epss, registry, enriched, reports, network>>

\* Mutant: the status of the last lookup wins.
LookedUpLast(id) == /\ pc = "ghsa"
                    /\ id \in flying
                    /\ flying' = flying \ {id}
                    /\ \E status \in {"success"} \cup Refusals :
                          /\ advisory' = [x \in DOMAIN advisory \cup {id} |->
                                            IF x = id THEN status ELSE advisory[x]]
                          /\ worst' = status
                    /\ UNCHANGED <<findings, pc, runs, queued, kev, left, scores,
                                   batches, epss, registry, enriched, reports, network>>

\* fetchGHSA and the locked section after it.
LookedUp(id) == /\ pc = "ghsa"
                /\ id \in flying
                /\ flying' = flying \ {id}
                /\ \E status \in {"success"} \cup Refusals :
                      /\ advisory' = [x \in DOMAIN advisory \cup {id} |->
                                        IF x = id THEN status ELSE advisory[x]]
                      /\ worst' = Worse(worst, status)
                /\ UNCHANGED <<findings, pc, runs, queued, kev, left, scores,
                               batches, epss, registry, enriched, reports, network>>

\* Mutant: a lookup that fails returns without wg.Done.
PooledOnSuccess == /\ queued = {} /\ flying = {}
                   /\ \A x \in DOMAIN advisory : advisory[x] = "success"

Pooled == queued = {} /\ flying = {}

\* wg.Wait returns, the CVEs are collected and both feeds are asked; the EPSS
\* goroutine serves the scores its cache holds fresh.
StartFeeds ==
    /\ pc = "ghsa"
    /\ Pooled
    /\ pc' = "feeds"
    /\ reports' = <<Report("ghsa", IF Lookups = {} THEN "skipped" ELSE worst)>>
    /\ kev' = "asked"
    /\ \E fresh \in SUBSET Scored :
          /\ left' = Only(CveList, {k \in DOMAIN CveList : CveList[k] \notin fresh})
          /\ scores' = {CveList[k] : k \in DOMAIN CveList} \cap fresh
    /\ batches' = <<0, 0>>
    /\ epss' = IF CveList = <<>> THEN "skipped" ELSE "success"
    /\ UNCHANGED <<findings, runs, queued, flying, advisory, worst, registry,
                   enriched, network>>

Kev == /\ kev = "asked"
       /\ kev' \in {"success"} \cup Refusals
       /\ UNCHANGED <<findings, pc, runs, queued, flying, advisory, worst, left,
                      scores, batches, epss, registry, enriched, reports, network>>

-----------------------------------------------------------------------------
(* The EPSS goroutine: every batch is attempted.                            *)

Min2(a, b) == IF a < b THEN a ELSE b
Batch == {left[k] : k \in 1 .. Min2(BatchSize, Len(left))}
AfterBatch == SubSeq(left, BatchSize + 1, Len(left))

EpssBatch == /\ left # <<>>
             /\ scores' = scores \cup (Batch \cap Scored)
             /\ left' = AfterBatch
             /\ batches' = <<batches[1] + 1, batches[2]>>
             /\ UNCHANGED <<findings, pc, runs, queued, flying, advisory, worst,
                            kev, epss, registry, enriched, reports, network>>

EpssBatchFails == /\ left # <<>>
                  /\ left' = AfterBatch
                  /\ batches' = <<batches[1], batches[2] + 1>>
                  /\ epss' \in Refusals
                  /\ UNCHANGED <<findings, pc, runs, queued, flying, advisory,
                                 worst, kev, scores, registry, enriched, reports,
                                 network>>

\* Mutant: one batch that succeeded makes the source a success.
EpssStatusForgiving == IF batches[1] > 0 THEN "success" ELSE epss

EpssStatus == IF batches[1] > 0 /\ batches[2] > 0 THEN "partial" ELSE epss

-----------------------------------------------------------------------------
(* The findings receive what arrived, and the registry is asked.            *)

StartRegistry ==
    /\ pc = "feeds"
    /\ kev \notin {"off", "asked"}
    /\ left = <<>>
    /\ pc' = "registry"
    /\ reports' = reports \o <<Report("kev", kev), Report("epss", EpssStatus)>>
    /\ enriched' = [i \in DOMAIN findings |->
          LET c == cveFor(findings[i])
          IN  [enriched[i] EXCEPT
                 !.adv = @ \/ Has(findings[i].id),
                 !.kev = @ \/ (kev = "success" /\ c \in Listed),
                 !.epss = @ \/ c \in scores]]
    /\ queued' = TargetNames
    /\ worst' = "success"
    /\ kev' = "off" /\ epss' = "off"
    /\ scores' = {} /\ batches' = <<0, 0>>
    /\ UNCHANGED <<findings, runs, flying, advisory, left, registry, network>>

\* Both endpoints are asked, the second even if the first one failed.
Probed(name) ==
    /\ pc = "registry"
    /\ name \in flying
    /\ flying' = flying \ {name}
    /\ \E meta, downloads \in {"success"} \cup Refusals :
          /\ registry' = [x \in DOMAIN registry \cup {name} |->
                            IF x = name THEN <<meta, downloads>> ELSE registry[x]]
          /\ worst' = Worse(worst, Worse(meta, downloads))
    /\ UNCHANGED <<findings, pc, runs, queued, advisory, kev, left, scores,
                   batches, epss, enriched, reports, network>>

Signalled(name) == name \in DOMAIN registry /\ registry[name] = <<"success", "success">>

Finish ==
    /\ pc = "registry"
    /\ Pooled
    /\ pc' = "done"
    /\ enriched' = [i \in DOMAIN findings |->
          LET name == findings[i].name
          IN  IF Signalled(name)
              THEN [enriched[i] EXCEPT !.signals = <<name, AskedVersion(name)>>]
              ELSE enriched[i]]
    /\ network' = withEarlierReports(network, reports \o
          <<Report("npm_registry", IF TargetNames = {} THEN "skipped" ELSE worst),
            Report("malware", "skipped")>>)
    /\ UNCHANGED <<findings, runs, queued, flying, advisory, worst, kev, left,
                   scores, batches, epss, registry, reports>>

EnrichAgain == /\ pc = "done"
               /\ findings \in Again
               /\ runs < MaxRuns
               /\ pc' = "ready"
               /\ UNCHANGED <<findings, runs, queued, flying, advisory, worst, kev,
                              left, scores, batches, epss, registry, enriched,
                              reports, network>>

-----------------------------------------------------------------------------
Work == \/ SkipAll \/ StartGhsa \/ StartFeeds \/ StartRegistry \/ Finish
        \/ \E x \in queued : Acquire(x)
        \/ \E x \in flying : LookedUp(x) \/ Probed(x)
        \/ Kev
        \/ EpssBatch \/ EpssBatchFails

Next == Work \/ EnrichAgain

\* Every request ends (the clients give up after 30 and 15 s), and the
\* scheduler runs what can run; nobody has to enrich a second time.
Spec == /\ Init /\ [][Next]_vars /\ WF_vars(Work)

-----------------------------------------------------------------------------
Told(source) == {network[k].status : k \in {k \in DOMAIN network : network[k].source = source}}
Quiet(source) == Told(source) \subseteq {"success", "skipped"}

\* The CVE a finding has, whether or not the program came to know it.
TrueCve(f) == IF knownCVE(f) # NoCve THEN knownCVE(f)
              ELSE IF f.id \in Published \cap Ghsas THEN MapsTo[f.id] ELSE NoCve

\* The CVE was known to be looked up: the scanner named it, or the advisory
\* naming it was within the lookups and its source reports no failure.
Reachable(f) == \/ knownCVE(f) # NoCve
                \/ f.id \in Lookups /\ Quiet("ghsa")

\* Clean is told apart from unknown (netstatus/status.go:1-6): whenever a
\* finding lacks what a source published about it, within the documented
\* limits, that source reports that it did not succeed, or the advisories do,
\* without which the finding had no CVE to look up.
NothingHidden ==
    pc = "done" /\ findings # <<>> => \A i \in DOMAIN findings :
        LET f == findings[i]
        IN  /\ f.id \in Lookups \cap Published /\ Quiet("ghsa") => enriched[i].adv
            /\ TrueCve(f) \in Listed /\ Reachable(f) /\ Quiet("kev") => enriched[i].kev
            /\ TrueCve(f) \in Scored /\ Reachable(f) /\ Quiet("epss") => enriched[i].epss
            /\ f.npm /\ f.name \in TargetNames /\ Quiet("npm_registry") => enriched[i].signals # <<>>

\* A finding receives only what is published about itself, even when the run
\* before failed: the known-exploited flag and the score of its own CVE
\* (enrichment.go:787-800), signals asked for under its own package's name.
OnlyItsOwn ==
    \A i \in DOMAIN findings :
        /\ enriched[i].kev => TrueCve(findings[i]) \in Listed
        /\ enriched[i].epss => TrueCve(findings[i]) \in Scored
        /\ enriched[i].signals # <<>> => enriched[i].signals[1] = findings[i].name

\* The report of a pooled source depends on the answers and not on their order
\* (enrichment.go:979-980 for the registry): it is the worst of them.
ReportIsTheWorst ==
    pc = "done" /\ findings # <<>> =>
        /\ Lookups # {} => Told("ghsa") = {WorstOf({advisory[x] : x \in Lookups})}
        /\ TargetNames # {} =>
              Told("npm_registry") =
                  {WorstOf(UNION {{registry[x][1], registry[x][2]} : x \in TargetNames})}

\* Enriching again neither erases the report of the package scan nor lets the
\* reports of an earlier run stand beside its own (enrichment.go:1036-1038): a
\* run that ends adds one report for each source it asked.
ReportsAccumulate ==
    [][pc' = "done" =>
          /\ \A k \in DOMAIN network : network[k].source = "ghsa_packages" =>
                \E j \in DOMAIN network' : network'[j] = network[k]
          /\ \A s \in DOMAIN Sources :
                Cardinality({k \in DOMAIN network' : network'[k].source = Sources[s]}) = 1]_vars

\* A run that started ends with its reports, whatever the sources answer.
Terminates == (pc = "ready") ~> (pc = "done")
===============================================================================

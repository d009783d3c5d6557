# SBOMber: verification models

TLA+ modules, TLC runs and TLAPS proofs for SBOMber (`src/`), a Go command-line
tool that inventories the dependencies of repositories, finds their known
vulnerabilities, decides from the application's own source whether a vulnerable
function is used, and publishes the answer as a report and an OpenVEX document.

The models are translated from the Go source. A reader who changes the code
should find the definition that stands for it through `map` in `PROJECT.json`,
and change both.

## 1. The system

```
 repositories ──scan──► canonical-scan.json ──usage────► usage-graph.json ─┐
      │                   (Component 1)   └──localise──► localisation.json ─┤
      │                                                                    ▼
      │                                             decide (Component 4)
      │                                                   │
      └──github/gitlab──► ScanResult           decision-results.json
                                                 ├── report   (HTML, text)
                                                 ├── vex      (OpenVEX)
                                                 └── audit    (replay against labels)
```

Every command is a process of its own; the documents are the only thing they
share. Inside a command the code is sequential except for the remote scanner,
the enrichment fetchers and the health resolver, which start goroutines.

| Component | State | Operations | Talks to | What makes it correct | Hard part |
|---|---|---|---|---|---|
| Component 4 join, `internal/decision/join.go` | per finding: unanalysed reasons, observation ids, matched names, running shortest path, counters | `BuildFindingInputs` | reads three documents, feeds the verdict | accumulators summarise the entries whatever their order; an open candidate set stays open | order, partial documents |
| Component 4 verdict, `state.go`, `confidence.go`, `results.go` | one decision per finding | `DetermineState`, `Rate`, `riskPriority`, `vexMapping` | report, vex, `contracts/validate.py` | a negative only from a complete analysis that found nothing | the same rules written twice (Go and Python) |
| VEX exporter, `internal/vex` | the document | `Map`, `Export` | reads decisions | never contradicts Component 4, never asserts `not_affected` | one bad decision fails the document |
| Component 2 extraction, `internal/sourceanalysis` | per file: imports, calls, functions, exports, routes, scopes of names | `AnalyzeRepository`, `extractSource` | parses the source | no use of an import is lost, no call charged to the wrong one | shadowing, copied values, forms of import |
| Component 2 call graph, `internal/usagegraph` | functions, edges, entry points, paths | `buildApplicationCallGraph`, `detectEntryPoints`, `pathsFrom` | reads the extracted files | in plain code no edge is fabricated, in other code only in known ways; paths are shortest | one name for several functions, callbacks, aliases, cycles |
| Component 2 graph, `internal/usagegraph` | observations, coverage | `Produce` | reads the scan and the extracted files | what was not analysed is never silent | several versions of a package, aliases, computed imports, skipped files |
| Component 3, `internal/localisation` | per finding: method, candidates, routes, provenance, tag checks | `LocaliseAll`, `VerifyDocument`, `Refetch` | GitHub, npm registry, advisory records | names and routes come from code; a document can be checked again | diffs, incomplete packages, refused requests, moved tags |
| Component 1, `internal/inventory` | components, occurrences, findings, scan identity | `Build`, `Write` | reads SBOM and grype results | one identity per scan | clock and commit stand for a working tree |
| Command pipeline, `internal/cli`, `internal/audit` | the documents on disk | scan, usage, localise, decide, report, vex, audit | files | documents of one scan are joined | stale documents |
| Remote scanner, `internal/remote` | jobs, results, skipped notes, status | `ScanRepoContext` | GitHub client | every manifest scanned or named; terminates | goroutines, channels, deadline |
| Enrichment, `internal/vulnerability/enrichment.go`, `intel.go`, `internal/netstatus` | caches on disk, one report per source | `EnrichResults`, `ScanPackagesWithGHSA`, the fetchers | EPSS, KEV, NVD, GHSA, npm | a failure never reads as "nothing found" | concurrency, caches, rate limits |
| GitHub client, `internal/github` | caches, rate-limit state | `GetRepoInfo`, `GetHealthMetrics`, `doRequest` | api.github.com | | cached partial answers |
| Health resolver, `internal/health` | cache | `ResolveAllWithProgress` | GitHub client | | cache keys, cached errors |
| Remediation and report, `internal/decision/remediation.go`, `internal/report` | groups, sections | `BuildRemediationGroups`, `BuildReport`, `Apply` | reads decisions | each finding in one place, no urgency lost, the version named fixes what it claims | a package's findings split over sections, versions of several release lines |
| Parsers, SBOM export, discovery, verification, diff, UI | none or text | | | | text processing |

PROJECT.json lists every component with its status, and the hazards with the
properties that answer them.

## 2. The modules

| Module | Models | Kind |
|---|---|---|
| `EvidenceJoin` | `join.go`: names of a result, closed sets, what an entry is about, what one observation adds | operators |
| `DecisionRules` | `state.go`, `confidence.go`, `results.go`, `vex/policy.go` | operators |
| `Decision` | `sbomber decide` then `sbomber vex`: one step per document entry | state machine |
| `VerdictLedger` | what `decide` promises of verdicts while evidence arrives | abstract specification of `Decision` |
| `Contracts` | `contracts/validate.py`, the consumer's side of the contract | invariants over `Decision` |
| `UsageGraph` | Component 2 from the source files of a tree to a usage graph | operators |
| `SyntaxTree` | the tree tree-sitter builds, and the look-ups made in it | operators |
| `SourceImports` | `extract_imports.go`, `copied_imports.go`: what each form of import binds, and what escapes | operators |
| `SourceFunctions` | `extract.go`, `extract_structural.go`, `exports.go`, `routes.go`, `function_parameters.go`, `lexical_bindings.go` | operators |
| `CallGraph` | `callgraph.go` and what it uses: owners and targets of calls, files of imports, entry points | operators |
| `CallSites` | `observations.go`, `ImportOwnsCall`: the calls of an import and their paths | operators |
| `JavaScriptBindings` | what a name means in JavaScript; not the code, the reference it is compared with | operators |
| `SourceAnalysis` | the analysis of one application: extraction, graph, search, call sites | state machine |
| `LineDiff` | `diffparse.go`: patience diff, unified diffs, changed lines | operators |
| `PackageSource` | functions, exports and spans of a file | operators |
| `PackageModel` | `visibility.go`: a package, its entry, the callers and routes of a function | operators |
| `PackageRoutes` | which names reach a function when a module is executed; the reference for the routes | operators |
| `Attribution` | `attribute.go`: changed lines to functions | operators |
| `Advisory`, `PatchReference` | the advisory record, its fixed version, its patch references | operators |
| `TagCheck` | `provenance.go`: is the fix in the release | operators |
| `VerifyProvenance` | `verify.go`: what a written document is checked for | operators |
| `Localisation` | `localise` of several findings, the services changing, `localise -verify` | state machine |
| `Remediation` | `remediation.go`: versions, remediation groups and their order | operators |
| `GroupedReport` | `report/build.go`, `report/filter.go`: sections, entries, filters | operators |
| `Pipeline` | the commands over an edited working tree; composes `UsageGraph` with `DecisionRules` and `GroupedReport` | state machine |
| `RemoteScan` | `ScanRepoContext` and its goroutines | state machine with fairness |
| `ScanReport` | what a remote scan promises its reader | abstract specification of `RemoteScan` |
| `NetStatus` | `netstatus/status.go`: the statuses and which of two is worse | operators |
| `AdvisoryScan` | `ScanPackagesWithGHSA` and its goroutines; the merge with Grype's findings in `cli.go` | state machine with fairness |
| `Enrichment` | `EnrichResults`: the advisory pool, KEV and EPSS side by side, the registry pool, the reports | state machine with fairness |
| `IntelCache` | the EPSS and NVD cache files, shared by processes | state machine |
| `Decision_proofs`, `Pipeline_proofs`, `SourceAnalysis_proofs`, `Localisation_proofs`, `RemoteScan_proofs`, `AdvisoryScan_proofs`, `Enrichment_proofs`, `IntelCache_proofs` | | theorems |
| `MC*` | small instances; `RemoteScan` and `IntelCache` need none, their `.cfg` gives the constants | |

### Decision

The three documents are not constants of the model: the next entry of each list
is whatever the producer wrote, so every selection and order of entries is a
behaviour. The code reads the lists once per finding and keeps nothing between
findings, so reading one entry for all findings at once reaches the same
decisions. `loc`, `reasons` and `evidence` are the locals of
`BuildFindingInputs` (`locByFinding`, `reasons`, and the accumulators of the
observation loop), `decisions` is `decision-results.json`, `vex` the OpenVEX
statements. A call path is its length and its location, a symbol a model value,
a location a number: the properties tell nothing else apart.

### UsageGraph and Pipeline

A source file carries its imports, an import the calls made through it and the
length of the call path to each. What the walk did with the file (parsed, parsed
with errors, failed, skipped, pruned with its directory, hidden in a directory
that could not be listed) is the class coverage.go distinguishes. `Produce`
computes the graph as the code does: which occurrence an import names, which
occurrences stay unmatched and why, the status. In `Pipeline` each document
holds the scanId the code writes *and* the content it was computed from; the
code compares only the first, the properties compare the second. Reading the
truth from `graph.files` (not from observations) is what makes
`NegativesAreTrue` and `PositivesAreTrue` statements about the source.

`decide` also writes the remediation groups, and `report` files their findings
under sections and applies the filter it is given, with or without a usage
graph. A version is what `parseVersion` makes of its text. A group is ordered by
the tuple `urgency`, and the sections of `shown` are what the reader sees.

### Source analysis

A tree is the sequence of its nodes in source order; the index of a node is its
position, which stands for a line and a column. The extraction is a function of
the tree, one operator for each `append...` of the code, and so is the graph of
the extracted files; the search is a state machine of its own (`Enter`,
`Follow`, `Dequeue`: the loops of `pathsFrom`), because the order of the entry
points, which are hashes, and of the queue is what the paths depend on.
`depth` is a history variable. A specifier is a path from the directory of the
file or a package; an alias maps one to the other as `matchPathAlias` does.

The properties compare the outcome with `JavaScriptBindings`, which says for a
name and a place which declaration it means, from the tree alone: hoisting of
`var`, blocks, loops, catch clauses, parameters, the name of a function
expression. `NothingUnrecorded` and `CallsAreTheirImports` are the two ways
`ImportOwnsCall` and the extraction can be wrong, `PathsAreCalls` the way the
graph can be. What the code is known to do otherwise than the language (section
3) is an exception with a name: uses that call nothing or that the documentation
gives up (`Unneeded`), uses without a trace (`Traceless`), a `var` hidden by a
catch parameter (`Displaced`), methods and generators (`Untold`), names the graph
takes for others (`Hidden`: `Overlooked` or `HeldByLoad`; `FunctionReceiver`) and
functions called where they cannot be seen (`OutOfScope`). Each was either met
while modelling or is where a proof without it failed, and TLC shows that the
property is false without it.

`PathsAreCalls` is the strict statement for files of plain code (`Plain`): every
step of a path is a call in the body of the function before whose name means the
next function, in the language's scopes. In such a file functions and arrow
functions may be nested, passed as callbacks and hide each other's names by
parameters, `var`, blocks, loops and catch clauses; what it may not contain is
what the graph has no notion of (methods, generators, function expressions with a
name of their own, declarations in blocks of the top level, imports below the top
level, a function of a body with the name of an import, calls among parameters). In
other files the strict statement is false, and a step is either such a call or one
of the confusions of section 3 (`ConfusesLocal`, `ConfusesExport`), which say
precisely which call was taken for which function.

The trees are what a parser makes of a file: `ReadsAsJavaScript` says so
(`IsJavaScript`: a function has one body and ends with it, an import is at the
top level, only a catch parameter hides a `var` declared in its handler). The
theorems about trees assume it (`SourceAssumption`), and TLC evaluates it on every
tree of the run.

### Localisation

The services are a `world`: repositories of commits with their trees and tags,
packages of files by version, advisory records. `work` is the finding in
progress, each `Try...` one source of names in the code's order (metadata,
patch, text, version difference), `refused` counts requests the service did
not answer, and `checks` the tag checks that run once all findings are done.
Functions are blocks of numbered lines (`alias` is a function expression's own name
when it is bound to another); `DiffLines` is the code's patience
diff over them. `ServicesChange` moves a tag, publishes a version again or
edits a record between `localise` and `localise -verify`. The verification with
the network takes one step per request: an artefact (`Refetch`), the candidates
of a result (`JudgeCandidates`), a tag check (`Recheck`); what a download gave is
kept in `report.fetched` for the results after it. `PackageRoutes` executes a package
abstractly: what it reaches is the truth that the names found by the walk over
the importers are compared with.

### RemoteScan

`main` is the calling goroutine, `feeder` and `worker` the pool, `closed` the
goroutine that waits for the workers, `expired` the context. The unbuffered
`jobs` channel is a rendezvous (`Feed`), the buffered `results` channel a set of
at most `Cardinality(discovered)` results. `select` between a ready send and an
expired context picks either, as in Go.

### AdvisoryScan, Enrichment, IntelCache

`AdvisoryScan`: a lookup is queued until its goroutine gets a slot of the
semaphore (`Acquire`), flying until its answer is recorded under the mutex
(`Answered`, `Refused`), and `Return` is what follows `wg.Wait`. `found` holds
which lookup recorded an advisory first; that lookup's package is the one the
finding is about. `MergeAlone` and `MergeWithGrype` are the two branches of
`runGitHub`: with and without results of Grype.

`Enrichment`: `pc` is the stretch of `EnrichResults` being executed, `queued`
and `flying` the goroutines of the running pool, `advisory` and `registry` the
maps they fill. KEV and EPSS run at the same time, EPSS one batch at a time.
`enriched` is what is written to a finding: flags in place of texts and numbers.
What a source holds (`Published`, `MapsTo`, `Listed`, `Scored`) is constant, so
that "the finding lacks something its source has" can be said at all;
whether a request succeeds is chosen anew each time. `EnrichAgain` hands the
same results, reports included, to a second call.

`IntelCache`: `file` maps a CVE to the time its entry was fetched, the score
itself is not needed. `Truncate` and `Write` are the two halves of
`os.WriteFile`, between which other processes read a file that does not parse.
`fetched` and `lossy` are history variables.

## 3. The runs

| Run | Checks | Bounds | Shows |
|---|---|---|---|
| `decision` | `NegativeIsEarned`, `UsageIsWitnessed`, `HighIsCorroborated`, `JoinSummarises`, `ExportNeverRejects`, `ValidatorAcceptsAnalysed`, `LedgerSpec` | one finding in two occurrences, 10 localisation results, 7 headers, 11 observations (2 read), 3 unanalysed entries (2 read) | verdicts and ratings rest on evidence; consumers accept them; refinement of `VerdictLedger` |
| `decision_contract` | `ValidatorAccepts` (violated) | 4 localisation results, 3 headers, 8 observations | Go and Python disagree on unsupported + unknown |
| `remote_scan` | `Accounted`, `StatusMeansWhatItSays`, `NoGoroutineOutlives`, `Terminates`, `ReportSpec` | 3 manifests, 1 to 3 workers | nothing dropped, nothing leaks, always returns |
| `pipeline` | `ShownJoinsOneScan`, `NegativesAreTrue`, `PositivesAreTrue`, `NothingLeftOut`, `UpdateFirstIsRight` | 5 findings of 3 packages; every pair of files from 6 walks and 8 import sets under 5 installations, and 5 trees with 2 edits; 4 localisation reports; 5 filters; 5 commands in any order | verdicts are true of the source; documents of one scan are shown together; the report loses no finding and no urgency |
| `pipeline_stale` | `NegativesWereAnalysed` (violated) | as above without the pairs | finding 2 |
| `advisory_scan` | `OncePerAdvisory`, `RefusalIsTold`, `MergeKeepsAll`, `Terminates` | lists of up to 5, cap 4, pages of 2 of 3 advisories, 2 slots, 3 ways to fail | nothing twice, nothing lost, no refusal read as an empty answer |
| `enrichment` | `NothingHidden`, `ReportIsTheWorst`, `OnlyItsOwn`, `ReportsAccumulate`, `Terminates` | up to 3 findings, limits of 2 lookups and 2 names, 1 slot, EPSS batches of 1, 2 ways to fail, 2 runs | what is missing is told |
| `intel_cache` | `SuccessMeansAll`, `CacheKeepsFetched`, `ServedWasFetched` | 2 processes, 3 CVEs of which 2 have a score, 2 sets to ask for, one tick, entries fresh for one tick | the file loses a score in three named ways only |
| `localisation` | `NoChangedFunctionMissed`, `FixedIsTheFirstFixed`, `ClosedNamesTheRoutes`, `TagChecksAreTrue`, `HonestDocumentVerifies`, `CleanReportIsCurrent`, `TagChecksComeLast` | one or two findings of one package with 4 versions and 3 commits: packages of 11 entries, 13 modules and 7 manifests; every pair of two versions of a file of up to 2 functions; 24 worlds of records, fixes and releases; rate limits of 2 to 60 requests, one outage, 5 later changes | the names come from the changed code, closed sets are exhaustive, a document can be checked again |
| `localisation_routes` | `ClosedIsExhaustive` (violated) | as above | finding 3 |
| `source_analysis` | `NothingUnrecorded`, `CallsAreTheirImports`, `PathsAreCalls`, `PathsAreShortest` | 4 845 applications of one or two files: 12 bindings of an import, 11 uses, 17 scopes; 8 forms of import by 7 of export; 3 cyclic graphs with 2 or 3 entry points; routes, aliases, extensions | no use lost, no call misattributed, in plain code no step of a path fabricated, elsewhere only in the named ways, paths shortest |
| `source_analysis_dropped` | `NothingDropped` (violated) | 5 uses the extraction has no case for | finding 4 |

Bounds. `decision` has one finding, since findings never read each other's state,
and `decision_contract` two, for what is counted over all; two observations let one supersede a kept path or a raised flag
of the other; the symbols give one name inside, one outside
and one internal to a candidate set. Three manifests with two workers have a
manifest waiting, one in flight and one done at the same time, and the limit 0
exercises the default. Two edits and five commands allow a document to be stale
on either side of another. The lists of `AdvisoryScan` are longer than the cap,
a package has more advisories than a page, two packages share an advisory and
three lookups wait for two slots. In `Enrichment` a third finding exceeds both
limits. In `SourceAnalysis` every form of import meets every use in every scope;
longer files only combine these, since the extraction treats each import and
each call on its own, and shadowing depends on the declarations around one
place. The cyclic graphs have functions with two callers at different depths and
entry points on each other's paths. In `Localisation` a package
is an entry, the fixed file and one more file, so that a route may pass through
zero, one or two files; the limits stop the work at each of its stages; two
findings are what makes one finding spend another's requests. `MaxExactCells`
is the code's limit on an exact diff, small enough for both sides of it;
`Spellings` and `outages` are artificial.
Two processes are all that can clash over a file, and one tick ages an
entry past its TTL. `MaxObservations`, `MaxUnanalysed`, `MaxEdits`,
`MaxRuns` (commands, and enrichments of the results in `Again`), `Edited`,
`Wants` and `MaxClock` are the only artificial bounds; `Cap`, `PageSize`,
`Slots`, `MaxLookups`, `MaxRegistry`, `BatchSize` and `TTL` are the code's own
limits made small.

The type invariants of `Decision`, `RemoteScan` and `AdvisoryScan` are theorems
(section 4) and are not checked again by the runs.

Deadlock checking is off in every run: a command that has finished really stops.
Termination of the concurrent components is a property (`Terminates`) instead.

### Fairness

`LiveSpec` of `RemoteScan` assumes weak fairness of the timer, of each goroutine
that can move on its own, and of a request's failure once its context has
expired (net/http returns an error then). It assumes nothing of servers: before
the deadline a fetch may hang for ever. `AdvisoryScan` and `Enrichment` assume
weak fairness of their next steps as a whole: the HTTP clients time out after
30 s (advisories, feeds) and 15 s (registry), so a request always ends one way
or the other, and every step uses up a lookup, a batch or a stage.

### Findings

1. `decision_contract`: Go writes `unsupported` where `validate.py` demands
   `unknown`, although state.go says the two mirror each other.
2. `pipeline_stale`: `decide` joins documents of different scans, and publishes
   a negative for an occurrence the usage graph never saw.
3. `localisation_routes`: an entry that re-exports a function of a file and also
   loads that file inside another function gives the first a closed set of routes
   that misses the second.
4. `source_analysis_dropped`: `new lib.X()`, `class C extends lib`, `lib.a.b()`,
   `(0, lib.f)()` and a default value leave neither a call nor an unresolved use,
   although the design says that unsupported constructs stay visible.

### What the properties leave open

The models also show behaviour that no property forbids, because the code's
promise is weaker than one might read it:

* The feeder of the remote scanner may hand out a manifest after the deadline
  (`select` picks either ready case); its request then fails at once, so it is
  accounted for.
* `usage` run again after `decide` for the same scan leaves a coverage beside
  the verdicts that is of the same scan but not the one they rest on;
  `ShownJoinsOneScan` compares scans, as `MatchesScan` does.
* A computed import does not block a negative of a package that another import
  of the repository matches.
* Packages are ordered by all findings of their highest band, also those listed
  under another section, while the reason shown for a package counts only the
  findings listed with it, although whyText (report/build.go:368) calls the two
  the same: of two packages with known exploited findings, the one listed first
  may show the lower score.
* No document `decide` writes has an entry under "Lower priority": a finding
  that may be acted on later has no observed use, and those have their own
  section.
* With `SOURCE_DATE_EPOCH` set, two scans of an uncommitted tree share one
  scanId. The model takes the clock, of which each command uses a second.
* The merge of the two scans of packages compares primary identifiers only
  (cli.go:536): Grype names an npm advisory by its GHSA identifier, the package
  scan by its CVE, and such an advisory is listed twice.
* `decide`, `localise` and `vex` write their output in place (cli.go:2367): a
  crash leaves a truncated file, which the next command refuses to parse.
* A code between 201 and 299 is a failure to every caller and a success to the
  classifier (netstatus/status.go:127).
* Only the first 50 packages and five advisories of each are looked up
  (`Cap`, `PageSize`); when the scan finds nothing and Grype did not run, its
  report is dropped with the empty results (`MergeAlone`).
* The advisory lookups and the registry are reported as the worst of their
  answers, not as partial (`ReportIsTheWorst`). Registry signals are kept only
  when both endpoints answered, asked for one version, and applied to every
  finding with that name.
* Two processes that overlap, a process that dies while it writes, and a
  deadline between two NVD requests lose cached scores (`lossy`).

Of the source analysis:

* A call inside a method or a generator is attributed to the function around it
  or to `<module>` (`Untold`), although section 10 of the design
  (usage-graph-architecture.md:427) reserves that node for top-level calls.
* The graph takes some names for others, and each of these fabricates an edge, and
  with it a path that makes a call reachable which is not:
  - a name declared again in a method, in a generator or in a block of the top
    level (`Overlooked`): with `m` imported, `class C { run(m) { m() } }` has an
    edge from `<module>` to the function the import names;
  - a name held by an `import()` of the body around (`HeldByLoad`);
  - a receiver that is a function declared in the body around
    (`FunctionReceiver`): `function g() { function m() {} m.f() }` has an edge to
    the `f` of an import `m`;
  - a function expression called by its own name outside of it, a function of a
    scope that is overlooked called outside of it, and a function of a body called
    from a default value of the parameters (`OutOfScope`);
  - an import made inside a function or a block, which counts for the whole file.

  The documentation makes no such exception. The design says that paths follow
  calls "where the target resolves without inference"
  (usage-graph-architecture.md:448-450), and "Only statically resolved top-level
  direct calls create edges from that node" (:427) of the `<module>` node;
  parameter_shadow.go:5-7 says that "a parameter or local declaration in any
  containing function can hide a same-named module function or relative import.
  Do not add a direct-call edge through that identifier", and callgraph.go:413-415
  that a nested function "can only be named from inside that scope". Those
  statements hold in files of plain code, which `PathsAreCalls` says and
  `PathsCalled` proves; for other files both say no more than that the fabricated
  edges are these. TLC finds a counterexample when any one of the confusions is
  left out of the property.
* In `try {} catch (e) { var e = require("p") }` the parameter takes the value,
  and the analysis attributes the later calls of the variable to the import
  (`Displaced`).
* A computed `require` keeps the name it is bound to, but no call through that
  name is recorded (the binding and the import differ in position). It is
  harmless: a computed import blocks negatives anyway.
* Two functions of one name on one line make the whole graph fail. Positions
  stand for lines here, so the case does not arise.
* A binding of `import()` is visible in its own block only, as documented.

Of the localisation:

* A file that was renamed and lost lines cites its old path, so that the
  verification of an honest document reports an error.
* `confidenceFor` promises a high rating for names of the advisory text found in
  a patch; no call reaches that branch.
* A file whose fixed side could not be fetched is left out of the fixed content,
  so that fewer lines are looked for in the release (`refused` guards the
  properties).
* A recorded `unavailable` tag check that succeeds later is reported as an error,
  artefacts that cannot be reached count as errors, and a refused content read
  gives `mismatch` rather than `unavailable`.
* `Refetch` compares the identity of a record by `VulnerabilityID` only.
* A function executed while its module loads, through another function or
  another module, is no route; a file that loads the entry module is not
  followed (`EntryIsTheTop`).

## 4. What is proved

The theorems hold for every value of the constants that satisfies the named
assumptions of the module they are about. TLC evaluates those assumptions in the
runs.

### `Decision_proofs` (from `ScanIsTyped` and `DocumentsAreTyped`)

* `TypeCorrect`: `Spec => []TypeOK`.
* `Summarises`: `Spec => []JoinSummarises`. `TypeOK /\ JoinSummarises` is the
  inductive invariant (`InvHolds`): while the lists are read, `reasons` holds exactly the
  reasons of the tied entries, `matched` exactly the names some runtime
  observation witnessed, the counters are positive when something unresolved was
  read, and a decision is the one these accumulators call for.
  `NegativeIsEarned` alone is not inductive: it speaks of `observed`, which the
  decision does not read; the accumulators connect the two.
* `HighsAreCorroborated`, `ValidatorAcceptsAll`: from `InvHolds` and a second
  invariant, `Witnesses`: each flag and each path the accumulators keep is that
  of an observation read. `JoinSummarises` says what was read has been counted;
  `Witnesses` says what was counted has been read.
* `NegativesAreEarned`, `UsagesAreWitnessed`, `ExportsAccepted`: the invariants
  of the runs, from `InvHolds`.
* `DecisionImplementsLedger`: `Spec => LedgerSpec`, one lemma per action; the
  step that reads an observation needs that evidence only grows.

### `Pipeline_proofs` (from the assumptions of `Pipeline`, `UsageGraph`, `DecisionRules` and `Remediation`)

Three arguments: about the documents, about the source, and about the report.

The documents: `IdsName` says that among the scans the documents were written
from a scanId names one, all of them earlier than the next command. Comparing
scanIds is then comparing scans, which is what `JoinsOneScan` needs of `Audit`
and `Report`. `ShownJoinsOneScan` alone is not inductive: it says nothing of the
documents still on disk. The model's scanId holds the second a command started,
and each command takes one of its own; with `SOURCE_DATE_EPOCH` set neither the
lemma nor the property holds (section 3). `Sourced` says that each document is
what its command computes from some state of the tree and the documents it read.

The source: `Observed` follows an import that names an occurrence of a finding
to its observation, which is either a run-time use with all its calls or a use
nobody could resolve that could refer to the finding. `JoinedToItsOwn` is the
case analysis of `nearestCandidates` that this rests on. `EvidenceGathers` says
what folding `AddObservation` over the observations adds up to, in any order, by
induction on their number (`FoldExists`, `FoldGathers`). `NegativeIsTrue` and
`PositiveIsTrue` put these together for one graph, and `NegativesHold` and
`PositivesHold` carry them to every replay of every history.

The report: `Reporting` says that the decisions on disk have one of the three
bands each and their groups with them, and that what is shown are the sections of
the decisions shown. `GroupSays` is what a group holds and is ordered by,
`GroupsOrdered` that the order of `remediation.go:137` is total and strict (which
is why the stable sort has nothing to keep), `RankedLists` that listing by rank
keeps each element once. On these rest the sections: `FindingsFiled` (a finding is
in one entry of its group, whatever its band and those of the others), `Lists` and
`Views` (a section before and after the filter), `Sections` (the report).
`NothingIsLeftOut` then needs that counting what is hidden entry by entry, as
`Apply` does, counts the findings hidden: `SumOfParts`, by induction.
`UpdateFirstHolds` needs that the urgency of two groups under `update-first`
agrees in its first place (`ExploitedFirst`), and that `compareVersions`, with its
padded numbers and its pre-releases cut to the shorter one, is a strict order
(`AboveOrders`): without that no highest fix need exist, and the one reported could
be below another.

The assumptions are that a tree is finite (`TreesAreFinite`), that a scan reports
finitely many findings, names no two packages or findings alike and gives scores
and versions that are numbers (`SignalsAreTyped`), and
`PurlsNamePackages`: the occurrences of a finding have its purl, as
`inventory/build.go:361` makes them, and the name of a package is a function of
its purl (`npmPackageFromPURL`). Names that differ only in case are left out.

### `Enrichment_proofs` (from `EnrichmentAssumption`)

The inductive invariant is `Typed`, `Pools`, `Feeds`, `Reported` and
`OnlyItsOwn`. `Pools`: a key of a running pool is queued, in flight or answered,
once, and the status kept is the worst of the answers, so that the order in which
goroutines take the mutex does not matter. `Feeds`: a CVE with a score is known,
still to be asked for, or in a batch that failed and was counted. `Reported`: a
finding has what its sources answered.

* `FailuresAreReported`, `PooledReportIsWorst`, `ReceivesOnlyItsOwn`: the
  invariants of the run, at the end of every enrichment and of every repetition.
* `EarlierReportsStand`: an action property; that listing the positions of a
  finite set of numbers in order keeps each of them once is `InOrderLists`, by
  induction.

### `IntelCache_proofs` (from `CacheAssumption`)

* `SuccessIsComplete` from `Asked`: a CVE with a score is in the result, still to
  be asked for, or lost to a request that failed.
* `ServedIsFresh` from `Traced`: every entry of the file, and every entry a lookup
  loaded, was fetched by a lookup that has returned, and no later than it says.
  The action property needs it of maps in memory too, since they are written
  back.
* `FetchedIsKept` from `Kept`: as long as none of the three losses happened, what
  was fetched is in the file or a writer that knows it is about to write. The file
  is rewritten in two steps, and a lookup that loaded it in between holds an empty
  map; `UpToDate` says when its write does no harm.

### `RemoteScan_proofs` (from `ScanAssumption`: finitely many manifests, any limit)

The inductive invariant is `Inv`, in five parts. `Accounted` alone is not
inductive: it speaks only of the report, and the report is right because of where
every manifest was before.

* `Staged`: what each stage of the caller, the feeder and the workers implies of
  the others. A feeder that ended early left manifests behind only because the
  context expired; a closed results channel means that every worker exited; a
  pool that was started has at least one worker (`PoolNotEmpty`, from the clamp
  of the limit), without which "every worker exited" would say nothing.
* `Apart`: a manifest is in one place at a time (unfed, held by one worker, in
  the channel, scanned or skipped). `Covered`: while results are collected it is
  somewhere. `Blamed`: only the report blames the deadline.

`TypeCorrect` and `GoroutinesEnd` follow from `Inv`. `NothingDropped` and
`StatusIsHonest` add what holds once the report is out: when the channel is
closed and drained, a manifest not yet settled can only be unfed (`NothingLeft`),
so the sweep names exactly those and only after the deadline; no step follows
the report (`NothingAfterDone`). `ScanImplementsReport` shows that reading the
tree is `Discover`, collecting a result is `Settle`, each of the three ways out
is `Publish`, and every other step of a goroutine is a stutter. The runs check
these properties under `LiveSpec`, which implies `Spec`.

### `AdvisoryScan_proofs` (from the assumption on the lists, pages and Grype scans)

The inductive invariant is `Counted`, `Recorded` and `Judged`: every lookup is
queued, in flight or counted once; what was found comes from answered pages, and
nothing of an answered page is missing unless a lookup failed; the worst status
is a success exactly until a lookup fails.

* `TypeCorrect`, `ReportedOnce`: unconditional.
* `RefusalsAreTold` assumes `Refusals \subseteq Failures`: every status the
  classifier gives a failed request is worse than a success. The run's constants
  satisfy it.
* `NothingMergedAway`: an advisory the scan found is named after the merge, by the
  scan's finding or by the one of Grype that has its identifier.

### `SourceAnalysis_proofs` (from `SourceAssumption`; `PathsShortest` from nothing)

* `PathsShortest`: `Spec => []PathsAreShortest`, for every set of applications.
  The property speaks of the end of the search; the inductive invariant is that
  of a breadth-first search. `Parented`: what was found has a parent one call
  nearer. `InOrder` and `Near`: depths do not decrease along the queue, and
  nothing found is more than one call farther than any of its elements. `Left`:
  what left the queue has its calls found, one call farther at most. `Entering`:
  no call is followed before every entry point is in the queue. At the end the
  queue is empty, so that `Left` holds of everything found.
* `PathsCalled`: a path read back along the parents starts at an entry point, and
  each of its steps is a call in the body of the function before. In a file of
  plain code the call means the next function; in another it means it or is
  confused with it in one of the named ways. The state invariant is that of the stages (`Extracted`: the
  results are those of the files, the edges those of the results), and
  `SiteIsReached` reads the path by induction on the depth, which `Parented`
  bounds. The rest is about what is computed of a tree, and holds of every tree
  that reads as JavaScript: the function the graph attributes a call to runs it
  (`OwnersRun`); a name the graph does not hold to be shadowed is that of a
  function it knows, or confused with it (`NameKnown`, `SeenOutOfScope`,
  `HeldOutside`); an edge is therefore such a call (`EdgeIsCall`), also through
  an import, which has one of five forms (`ImportForms`). For plain code it remains
  to show that there is nothing to confuse: a name of such a file is not hidden
  (`PlainShows`), the function called is seen from the call (`PlainLocal`), and an
  import is the one its name means there (`PlainExport`).
* `CallsOwned`: a resolved call of a package is made through the variable that
  holds the import. The analysis looks for the nearest lexical binding of a name,
  the language for the innermost scope that declares it; a scope of the analysis
  is one of the language, with the range of lines the analysis gives it
  (`ScopesAgree`), each declares what the other does (`LexicalIsDeclared`,
  `DeclaredIsLexical`), and so the two agree (`NearestIs`). Each form of import
  is then followed to the binding it makes (`ClauseOwned`, `LoadedOwned`,
  `DynamicOwned`, `AssignedOwned`).

### `Localisation_proofs` (`FixedIsFirst` and `RoutesNamed` from `ScenariosAssumption`, the others from nothing)

* `ChecksComeLast`: an action property, from `InTurn`: a result has tag checks
  only when every finding is localised, and a finding is worked on only while one
  is left. A request refused to a finding is therefore never one a tag check
  spent.
* `CleanReportHolds`, from `InTurn` and `Vouching`: once verification has begun the
  document no longer changes, and while it uses the network neither do the services
  of the model; every kept download is `Truthful`, that is, says what the service
  holds, whichever result asked for it; and as long as no error has been added
  (none is ever taken back), every result passed, and of the one under review
  every artefact noted and every tag check made again, is still true. That a check
  made again has read the tag as it is now rests on `CheckIsCurrent`: a tag that
  could not be read leaves no request to compare the release with, so that the
  check is `unavailable`, never `verified`.
* `FixedIsFirst`: the version a finding without one is compared with is the first
  release after the installed one that its record does not call affected.
  `ScenariosAssumption` says what OSV publishes: the events of a range introduce and
  fix in turn in the order of the versions, and a version that fixes is a release
  outside every range. `FixKnown` is the state invariant: the record read is the
  only one of the finding's identifiers that was looked up (`OneRecord`), and of
  the services as they were. The rest is about ranges: the fix that applies is a
  release no range calls affected (`FixIsClean`), and any release before it has
  the same last event of the range the installed version is in, so is affected
  (`AffectedUntilFixed`, from `StillAffected` and `NextFix`).
* `RoutesNamed`: a candidate that can support a negative names every way an
  application reaches it, for every package of any number of files, under the
  condition of the property (`EntryIsTheTop`; without it the run
  `localisation_routes` has a counterexample). `ScenariosAssumption` says what is
  published: finitely many files that load each other, a name declared once, one
  entry for each key of `exports` (`IsPackage`). A walk of one hop, which is what the
  code does, is compared with exports followed to any depth and calls followed any
  number of times. What the code checks before it calls a candidate closed gives
  `Sealed` (`ClosedIsSealed`): none but the entry module loads the file. Then what
  each file exports is `Sound` at every depth (`SoundExports`): the other files
  theirs, the file its own functions, the entry module these under the names it lists.
  Three sets are closed under calls (`ReachStays`): the other files never reach the
  file (`OthersDoNotReach`), the entry module's own functions only through a
  binding one of its blocks uses (`EntryReach`), and a function of the file reaches
  another of it only if some block uses that one's name (`OwnReach`), in which case
  the code gives all the file's names (`OwnNameIsKnown`). `LoadableIsKnown` is
  about `package.json`: a file that can be loaded by path is one the code takes
  to be. `Placing` carries this to the state: a closed candidate's visibility was
  read in the finding's own tarball, by whichever method.

### Only model-checked

* Every liveness property: fairness and `ENABLED` are outside the prover's reach.
* `NoChangedFunctionMissed`, `TagChecksAreTrue` and `HonestDocumentVerifies`. They
  compare the code's diff, its tag checks and its document with what these stand
  for, over sequences taken apart by folds and selections: a proof would be by
  induction over that data.
* `NothingUnrecorded`: the exceptions it leaves are of every place of the grammar an
  identifier can stand at, and a proof would have to assume that grammar whole.

The induction theorems of the library take an operator as a parameter, which the
installed provers cannot instantiate. Where a proof needs induction (numbers,
folds over a set, positions in order) it goes through a set instead: `Induction`
says that a set with 0 and every successor holds all numbers, and `LeastNatural`
that a set of numbers has a least element, which is the induction over positions
of a tree, steps of a path and pairs of a pattern.

The operands of `UNION` are parenthesised throughout, because the prover and the
checker group `UNION A \cup B` differently: so both read the same formula.

## 5. Not modelled, and the plan

Text work (parsers, HTML, justifications, SBOM layout), the tree-sitter grammars,
external tools (grype, govulncheck) and the terminal UI are left out; their
output appears as inputs. Of the report the rendering and the documents `decide`
did not write (no groups, unknown bands) are left out; of the enrichment the KEV
file cache, the risk score and `LookupExploitIntel`; of the source analysis the
quoting of strings, the parse timeout and the order of the printed lists; of the
localisation the wording of messages and the pattern matching of prose, whose
result is an input.

`UsageGraph` takes the calls of an import with the length of their paths as
given, and `SourceAnalysis` takes the packages of the inventory as a field of the
application, not their occurrences: the two halves of Component 2 are checked
apart. Composing them is the next step of the
plan, then the GitHub client and the health resolver; inventory's merge of
findings; dependency traces and diffs.

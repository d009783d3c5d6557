------------------------------ MODULE Pipeline ------------------------------
(***************************************************************************)
(* The commands of sbomber as a user runs them over a working tree that    *)
(* changes: scan, usage, localise and decide are separate processes that   *)
(* communicate through files, each overwrites its own file, and any of     *)
(* them may be left out or repeated (internal/cli/cli.go, usage.go,        *)
(* decide.go, report.go; internal/inventory/build.go; internal/audit/      *)
(* case.go).  The usage graph is the one Component 2 produces from the     *)
(* tree (UsageGraph), a verdict is the one Component 4 reaches             *)
(* (DecisionRules).                                                        *)
(*                                                                         *)
(* A document carries the scanId the code writes into it, and the content  *)
(* the code computes it from; that content is what the properties compare. *)
(* A command that fails writes nothing, and a file truncated by a crash is *)
(* not JSON: the next command refuses it, as it does a missing file.       *)
(***************************************************************************)
EXTENDS UsageGraph, GroupedReport

CONSTANTS Trees,               \* states of the working tree
          Edited,              \* those a user edits, from one to another
          LocalisationReports, \* what Component 3 may say of the findings
          Filters,             \* filters a user asks the report for
          MaxEdits, MaxRuns    \* bounds on the history: edits, commands run

Tree == [installed : SUBSET Occurrences, local : SUBSET Repos,
         files : SUBSET SourceFile]

Filter == [sections : SUBSET Range(SectionOrder), packages : SUBSET (PURLs \cup {Absent}),
           bands : SUBSET {"act_now", "insufficient_information", "lower_priority"},
           states : SUBSET States]

ASSUME TreesAreTyped == /\ Trees \subseteq Tree
                        /\ Edited \subseteq Trees
                        /\ LocalisationReports \subseteq [Findings -> LocalisationResult]
                        /\ Filters \subseteq Filter
                        /\ MaxEdits \in Nat /\ MaxRuns \in Nat

\* What a working tree holds is finite.
FiniteTree(t) == /\ IsFiniteSet(t.installed) /\ IsFiniteSet(t.files)
                 /\ \A x \in t.files : /\ IsFiniteSet(x.imports)
                                       /\ \A i \in x.imports : IsFiniteSet(i.calls)

ASSUME TreesAreFinite == \A t \in Trees : FiniteTree(t)

VARIABLES tree,       \* the working tree
          commit,     \* the commit HEAD names
          edits,
          runs,       \* commands run so far; each takes a second of its own
          scanDoc,    \* canonical-scan.json
          graphDoc,   \* usage-graph.json
          locDoc,     \* localisation.json
          decisions,  \* decision-results.json
          shown       \* the report or the audit replay last shown

vars == <<tree, commit, edits, runs, scanDoc, graphDoc, locDoc, decisions, shown>>

Missing == [id |-> Absent]
Written(doc) == doc # Missing
Nothing == [as |-> "nothing"]

FindingsOf(installed) == {f \in Findings : ScanFindings[f].occurrences \cap installed # {}}

Init == /\ tree \in Trees
        /\ commit = 0 /\ edits = 0 /\ runs = 0
        /\ scanDoc = Missing /\ graphDoc = Missing /\ locDoc = Missing
        /\ decisions = Missing /\ shown = Nothing

-----------------------------------------------------------------------------
\* The user edits the tree, and may commit.
Edit == /\ edits < MaxEdits
        /\ tree \in Edited
        /\ edits' = edits + 1
        /\ tree' \in Edited \ {tree}
        /\ commit' \in {commit, commit + 1}
        /\ UNCHANGED <<runs, scanDoc, graphDoc, locDoc, decisions, shown>>

\* scanID: the second the scan started (SOURCE_DATE_EPOCH is not set) and the
\* commits.
ScanId == <<runs, commit>>

Run == runs < MaxRuns /\ runs' = runs + 1

Scan == /\ Run
        /\ scanDoc' = [id |-> ScanId, installed |-> tree.installed, local |-> tree.local]
        /\ UNCHANGED <<tree, commit, edits, graphDoc, locDoc, decisions, shown>>

\* The source is read now, whatever the tree was when it was scanned.
Usage(reach) ==
    /\ Run
    /\ Written(scanDoc)
    /\ graphDoc' = [id |-> scanDoc.id, scan |-> scanDoc, files |-> tree.files,
                    graph |-> Produce(scanDoc.installed, scanDoc.local, tree.files, reach)]
    /\ UNCHANGED <<tree, commit, edits, scanDoc, locDoc, decisions, shown>>

Localise ==
    /\ Run
    /\ Written(scanDoc)
    /\ \E report \in LocalisationReports :
          locDoc' = [id |-> scanDoc.id, scan |-> scanDoc,
                     results |-> [f \in FindingsOf(scanDoc.installed) |-> report[f]]]
    /\ UNCHANGED <<tree, commit, edits, scanDoc, graphDoc, decisions, shown>>

NoResult == [found |-> FALSE, method |-> "unknown", confidence |-> "none", candidates |-> {}]
LocOf(loc, f) == IF f \in DOMAIN loc.results THEN loc.results[f] ELSE NoResult

ReasonsOf(f, graph) == {u.reason : u \in {x \in graph.unanalysed : Tied(f, x)}}

EvidenceOf(f, r, graph) ==
    FoldSet(LAMBDA o, e : AddObservation(f, r, o, graph.header.schema13, e),
            NoEvidence, graph.observations)

\* BuildResults over the three documents as they are.
Verdicts(scan, g, loc) ==
    [f \in FindingsOf(scan.installed) |->
       BuildDecision(f, g.graph.header, LocOf(loc, f), ReasonsOf(f, g.graph),
                     EvidenceOf(f, LocOf(loc, f), g.graph))]

Results(scan, g, loc) ==
    LET v == Verdicts(scan, g, loc)
    IN  [id |-> scan.id, scan |-> scan, graph |-> g, loc |-> loc,
         verdicts |-> v, groups |-> BuildRemediationGroups(v)]

HaveInputs == Written(scanDoc) /\ Written(graphDoc) /\ Written(locDoc)

\* decide: the scanIds of the usage graph and of localisation are not read.
Decide == /\ Run
          /\ HaveInputs
          /\ decisions' = Results(scanDoc, graphDoc, locDoc)
          /\ UNCHANGED <<tree, commit, edits, scanDoc, graphDoc, locDoc, shown>>

\* report, with or without --usage-graph: MatchesScan compares the two scanIds.
Report(coverage, filter) ==
    /\ Run
    /\ Written(decisions)
    /\ Written(coverage) => coverage.id = decisions.id
    /\ shown' = [as |-> "report", results |-> decisions, coverage |-> coverage,
                 filter |-> filter,
                 sections |-> Apply(BuildReport(decisions.groups, decisions.verdicts),
                                    filter, decisions.verdicts)]
    /\ UNCHANGED <<tree, commit, edits, scanDoc, graphDoc, locDoc, decisions>>

\* Mutant: the localisation report is not asked for its scan.
OneScanOfGraph == graphDoc.id = scanDoc.id

\* LoadCase: all three inputs must name the same scanId.
OneScan == graphDoc.id = scanDoc.id /\ locDoc.id = scanDoc.id

Audit == /\ Run
         /\ HaveInputs
         /\ OneScan
         /\ shown' = [as |-> "replay", results |-> Results(scanDoc, graphDoc, locDoc),
                      coverage |-> graphDoc]
         /\ UNCHANGED <<tree, commit, edits, scanDoc, graphDoc, locDoc, decisions>>

Next == \/ Edit \/ Scan \/ \E reach \in BOOLEAN : Usage(reach)
        \/ Localise \/ Decide \/ Audit
        \/ \E coverage \in {graphDoc, Missing}, filter \in Filters : Report(coverage, filter)

Spec == Init /\ [][Next]_vars

-----------------------------------------------------------------------------
\* The import i of file x names an occurrence of f, the nearest direct one of
\* the package in the repository, or the only one.
BelongsTo(f, x, i, installed) ==
    LET all == Direct(installed, x.repo, i.package)
        own == {o \in all : OccurrenceInfo[o].purl = ScanFindings[f].purl}
    IN  /\ i.package # Absent
        /\ \/ \E o \in own : OccurrenceInfo[o].workspace = x.dir
           \/ /\ \E o \in own : OccurrenceInfo[o].workspace = Root
              /\ \A o \in all : OccurrenceInfo[o].workspace # x.dir
           \/ own # {} /\ all = own

\* What audit replayed last, when it is what was shown last.
Replayed == shown.as = "replay"
replay == shown.results
Reported == shown.as = "report"

Names(loc, f) == Keys(LocOf(loc, f))

\* A negative verdict is true of the source the analysis read, in every file of
\* the source scope, those it could not parse among them: no runtime import of
\* the finding's package is used to call a localised name or in a way that
\* cannot be named; and every occurrence of the finding is a direct dependency
\* some source file imports (state.go:155-186, #172).
NegativesAreTrue ==
    Replayed => \A f \in DOMAIN replay.verdicts :
        replay.verdicts[f].state = "no_usage_detected" =>
            /\ \A x \in replay.graph.files : x.walk # "pruned" /\ x.repo \in replay.scan.local =>
                  \A i \in x.imports :
                     BelongsTo(f, x, i, replay.scan.installed) /\ ~i.typeOnly =>
                        \A c \in i.calls : c.symbol \notin Names(replay.loc, f) \cup {Computed}
            /\ \A o \in ScanFindings[f].occurrences \cap replay.scan.installed :
                  \E x \in replay.graph.files : \E i \in x.imports :
                     OccurrenceInfo[o].npm = i.package /\ ~OccurrenceInfo[o].nested

\* Usage is reported only of a package some source file imports at run time and
\* calls by a localised name; the calls of another version installed in another
\* workspace are not the finding's (observations.go:62-93).
PositivesAreTrue ==
    Replayed => \A f \in DOMAIN replay.verdicts :
        replay.verdicts[f].state = "usage_detected" =>
            \E x \in replay.graph.files : \E i \in x.imports : \E c \in i.calls :
                /\ x.walk \in {"parsed", "errors"}
                /\ BelongsTo(f, x, i, replay.scan.installed)
                /\ ~i.typeOnly
                /\ c.symbol \in Names(replay.loc, f)

\* What audit/case.go:77-79 requires of the inputs of a replay, and
\* report/coverage.go:80-88 of the coverage shown beside the verdicts: they are
\* documents of one scan, however often each command was run again since.
ShownJoinsOneScan ==
    /\ Replayed => replay.graph.scan = replay.scan /\ replay.loc.scan = replay.scan
    /\ Reported /\ Written(shown.coverage) => shown.coverage.scan = shown.results.scan

\* A report, filtered or not, keeps every decided finding in view: it is listed
\* in one entry, or counted as hidden under its section; the entries of a package
\* count each other's findings; what could not be determined is listed as urgent
\* or as insufficient information; and the two
\* mandatory sections are there (report/build.go:88-93, filter.go:75-113).
NothingLeftOut ==
    Reported =>
        LET v == shown.results.verdicts
            sections == ToSet(shown.sections)
            entries == UNION {ToSet(s.entries) : s \in sections}
            listed == UNION {e.findings : e \in entries}
        IN  /\ \A f \in listed : \E e \in entries :
                  /\ \A other \in entries : f \in other.findings => other = e
                  /\ f \in e.findings /\ ScanFindings[f].purl = e.purl
                  /\ v[f].state \in {"unknown", "unsupported"} =>
                        e.section \in {"update-first", "insufficient-information"}
            /\ shown.filter = [sections |-> {}, packages |-> {}, bands |-> {}, states |-> {}] =>
                  \A e \in entries : Cardinality(e.findings) + e.elsewhere = e.total
            /\ Cardinality(listed)
                  + SumFunction([i \in DOMAIN shown.sections |-> shown.sections[i].hidden])
                  = Cardinality(DOMAIN v)
            /\ {"insufficient-information", "no-direct-usage"}
                  \subseteq {s.section : s \in sections}

\* "Update first" answers which package to update first and what the upgrade
\* fixes: a package with a finding to act on now is there even when that finding
\* is listed elsewhere, none is below one without a known exploited finding
\* when it has one, and the version it names is above the installed one and not
\* below any fix reported for the package (report/build.go:278-310,
\* decision/remediation.go:103-155).
UpdateFirstIsRight ==
    Reported =>
        LET v == shown.results.verdicts
            urgent == {s \in ToSet(shown.sections) : s.section = "update-first"}
            purls(fs) == {ScanFindings[f].purl : f \in fs}
            actNow == {f \in DOMAIN v : v[f].band = "act_now"}
            exploited == purls({f \in actNow : ScanFindings[f].kev})
        IN  /\ shown.filter.bands = {} /\ shown.filter.states = {} =>
                  \A p \in purls(actNow) :
                      EntryMatches(shown.filter, [section |-> "update-first", purl |-> p]) =>
                          \E s \in urgent : \E e \in ToSet(s.entries) : e.purl = p
            /\ \A s \in urgent : \A i, j \in DOMAIN s.entries :
                  i < j /\ s.entries[j].purl \in exploited => s.entries[i].purl \in exploited
            /\ \A s \in ToSet(shown.sections) : \A e \in ToSet(s.entries) : e.fixed.given =>
                  /\ IsVersion(Installed[e.purl]) => Above(e.fixed, Installed[e.purl])
                  /\ \A x \in Fixes({f \in DOMAIN v : ScanFindings[f].purl = e.purl}) :
                        IsVersion(x) /\ ~Above(x, e.fixed)

\* The claim of DetermineState (state.go:155-162): no combination of inputs
\* produces a negative without an analysis that looked at the finding.
NegativesWereAnalysed ==
    Written(decisions) => \A f \in DOMAIN decisions.verdicts :
        decisions.verdicts[f].state = "no_usage_detected" =>
            ScanFindings[f].occurrences \cap decisions.scan.installed
                \subseteq decisions.graph.scan.installed
=============================================================================

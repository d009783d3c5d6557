----------------------------- MODULE UsageGraph -----------------------------
(***************************************************************************)
(* Component 2: the usage graph of a repository tree                       *)
(* (internal/sourceanalysis/repository.go, internal/usagegraph).  What the *)
(* walk does with each source file, which occurrence an import is joined   *)
(* to, why an occurrence without an import counts as not analysed, and the *)
(* status of the analysis.  The result is read by EvidenceJoin.            *)
(*                                                                         *)
(* Parsing is abstracted: a file carries the package imports in it, and an *)
(* import the calls made through it with the call path the graph of        *)
(* application functions has to each (0 steps: none).                      *)
(***************************************************************************)
EXTENDS EvidenceJoin

CONSTANTS Repos, Dirs,    \* repositories, workspace directories
          OccurrenceInfo  \* occurrenceId -> what the canonical scan says of it

Root == "root"   \* the workspace of a repository's own manifest
Computed == "computed"   \* the symbol of a call the parser cannot name

\* What the walk did with a file: parsed cleanly or with errors, could not be
\* read or parsed, left out (size, count, minified, generated, unsupported),
\* pruned with its directory, or in a directory that could not be listed.
Walks == {"parsed", "errors", "failed", "skipped", "pruned", "unlisted"}

Info == [purl : PURLs, npm : Packages \cup {Absent}, repo : Repos,
         workspace : Dirs \cup {Root}, nested : BOOLEAN]
RawCall == [site : Nat, symbol : Symbols \cup {Computed}, steps : Nat]
Import == [id : ObservationIds, package : Packages \cup {Absent},
           relative : BOOLEAN, typeOnly : BOOLEAN,
           alias : {"none", "target", "no target"},
           calls : SUBSET RawCall]
SourceFile == [repo : Repos, dir : Dirs \cup {Root}, walk : Walks,
               imports : SUBSET Import]

ASSUME OccurrencesAreTyped ==
    /\ OccurrenceInfo \in [Occurrences -> Info]
    /\ Absent \notin PURLs \cup Occurrences

\* A finding collects the occurrences of its own purl (build.go:361), and both
\* components read the name of the package from the purl alone
\* (npmPackageFromPURL).
ASSUME PurlsNamePackages ==
    \A f \in Findings, o \in Occurrences :
        /\ o \in ScanFindings[f].occurrences => OccurrenceInfo[o].purl = ScanFindings[f].purl
        /\ OccurrenceInfo[o].purl = ScanFindings[f].purl
              => OccurrenceInfo[o].npm = ScanFindings[f].package

-----------------------------------------------------------------------------
(* Which occurrence an import names.                                        *)

\* indexOccurrences: the direct npm occurrences of a package in a repository.
Direct(occs, repo, package) ==
    {o \in occs : /\ OccurrenceInfo[o].repo = repo
                  /\ OccurrenceInfo[o].npm = package
                  /\ ~OccurrenceInfo[o].nested}

\* The candidates with the longest workspace that holds the directory.
Nearest(candidates, dir) ==
    LET inDir == {o \in candidates : OccurrenceInfo[o].workspace = dir}
        atRoot == {o \in candidates : OccurrenceInfo[o].workspace = Root}
    IN  IF inDir # {} THEN inDir ELSE atRoot

\* Mutant: with several candidates any of them will do.
SelectAny(candidates, dir) ==
    IF candidates = {} THEN {} ELSE {CHOOSE o \in candidates : TRUE}

\* selectDirectOccurrence: the occurrence, or none when it is not unique.
Select(candidates, dir) ==
    LET near == IF Cardinality(candidates) = 1 THEN candidates
                ELSE Nearest(candidates, dir)
    IN  IF Cardinality(near) = 1 THEN near ELSE {}

CandidatesOf(occs, file, imp) == Direct(occs, file.repo, imp.package)

Joined(occs, file, imp) ==
    IF imp.package = Absent THEN {}
    ELSE Select(CandidatesOf(occs, file, imp), file.dir)

\* A tsconfig alias names the application's own code unless the name is also a
\* package of the inventory.
OwnCode(occs, file, imp) == /\ imp.package # Absent
                            /\ imp.alias # "none"
                            /\ CandidatesOf(occs, file, imp) = {}

\* Files the parser returned a result for, and the imports seen in them.
Parsed(files) == {x \in files : x.walk \in {"parsed", "errors"}}
Seen(occs, files) == {p \in Parsed(files) \X UNION {x.imports : x \in Parsed(files)} :
                        p[2] \in p[1].imports /\ ~OwnCode(occs, p[1], p[2])}

-----------------------------------------------------------------------------
(* Observations.                                                            *)

\* observationCallSites: a path is looked up only for a resolved call through a
\* resolved import, and only when the reachability pass ran.
SiteOf(call, resolution, reach) ==
    LET named == call.symbol # Computed
        onPath == reach /\ named /\ resolution = "resolved" /\ call.steps > 0
    IN  [site |-> call.site,
         symbol |-> call.symbol,
         resolution |-> IF named THEN "resolved" ELSE "unresolved",
         reachability |-> IF onPath THEN "reachable"
                          ELSE IF reach THEN "unknown" ELSE "not_analysed",
         entry |-> onPath,
         steps |-> IF onPath THEN call.steps ELSE 0]

EvidenceLevel(sites) ==
    IF \E s \in sites : s.reachability = "reachable" THEN 3
    ELSE IF \E s \in sites : s.resolution = "resolved" THEN 2 ELSE 1

SpecifierOf(imp) ==
    [kind |-> IF imp.package # Absent THEN "package"
              ELSE IF imp.relative THEN "computed_relative" ELSE "computed",
     package |-> imp.package]

Resolution(joined, imp) ==
    IF joined = {} THEN "unresolved"
    ELSE IF imp.typeOnly THEN "type_only" ELSE "resolved"

ObservationOf(occs, file, imp, reach) ==
    LET joined == Joined(occs, file, imp)
        resolution == Resolution(joined, imp)
        sites == IF resolution = "type_only" THEN {}
                 ELSE {SiteOf(c, resolution, reach) : c \in imp.calls}
    IN  [id |-> imp.id,
         occurrence |-> IF joined = {} THEN Absent ELSE CHOOSE o \in joined : TRUE,
         purl |-> IF joined = {} THEN Absent
                  ELSE OccurrenceInfo[CHOOSE o \in joined : TRUE].purl,
         specifier |-> SpecifierOf(imp),
         resolution |-> resolution,
         level |-> EvidenceLevel(sites),
         calls |-> sites]

BuildObservations(occs, files, reach) ==
    {ObservationOf(occs, p[1], p[2], reach) : p \in Seen(occs, files)}

MatchedOccurrences(occs, files) == UNION {Joined(occs, p[1], p[2]) : p \in Seen(occs, files)}

AmbiguousOccurrences(occs, files) ==
    UNION {CandidatesOf(occs, p[1], p[2]) :
             p \in {q \in Seen(occs, files) :
                      /\ q[2].package # Absent
                      /\ Cardinality(CandidatesOf(occs, q[1], q[2])) > 1
                      /\ Joined(occs, q[1], q[2]) = {}}}

-----------------------------------------------------------------------------
(* Coverage and unanalysed occurrences.                                     *)

\* Mutant: only failures make an analysis partial.
StatusWithoutSkips(repos, files) ==
    IF \E x \in files : x.walk = "failed" THEN "partial" ELSE "complete"

\* Directories pruned by name are outside the declared source scope; what a
\* directory that cannot be listed holds is not counted.
Discovered(files) == {x \in files : x.walk \notin {"pruned", "unlisted"}}

Status(repos, files) ==
    IF \/ repos = {}
       \/ \E r \in repos : {x \in Discovered(files) : x.repo = r} = {}
       \/ \E x \in files : x.walk \notin {"parsed", "pruned"}
    THEN "partial" ELSE "complete"

ComputedIn(occs, repo, files) ==
    \E p \in Seen(occs, files) : p[1].repo = repo /\ p[2].package = Absent

\* unresolvedPathAliasRepositories: an aliased import whose target is not one
\* analysed source file.
AliasIn(repo, files) ==
    \E x \in Parsed(files) : x.repo = repo /\
       \E i \in x.imports : i.alias = "no target" /\ ~i.typeOnly /\ i.package # Absent

ReasonOf(occs, o, repos, files) ==
    LET i == OccurrenceInfo[o]
        unread == {x \in Discovered(files) : x.walk \in {"failed", "errors"}}
    IN  IF i.npm = Absent THEN "ecosystem_unsupported"
        ELSE IF i.repo \notin repos
             THEN IF repos # {} /\ Discovered(files) = {} THEN "no_source_files" ELSE "excluded_by_limits"
        ELSE IF {x \in Discovered(files) : x.repo = i.repo} = {} THEN "no_source_files"
        ELSE IF o \in AmbiguousOccurrences(occs, files) THEN "ambiguous_occurrence"
        ELSE IF i.nested THEN "nested_under_dependency"
        ELSE IF AliasIn(i.repo, files) THEN "excluded_by_limits"
        ELSE IF ComputedIn(occs, i.repo, files) THEN "computed_specifier"
        ELSE IF Status(repos, files) = "complete" THEN "not_imported_by_analysed_source"
        ELSE IF unread # {} THEN "import_site_parse_failed" ELSE "excluded_by_limits"

UnanalysedOf(occs, o, repos, files) ==
    [occurrence |-> o, purl |-> OccurrenceInfo[o].purl,
     reason |-> ReasonOf(occs, o, repos, files)]

\* Produce over the local repositories of a scan; ProduceUnavailable when
\* there is none.
Produce(occs, repos, files, reach) ==
    LET local == {x \in files : x.repo \in repos}
        unmatched == occs \ MatchedOccurrences(occs, local)
    IN  [header |-> [status |-> IF repos = {} THEN "unsupported" ELSE Status(repos, local),
                     schema13 |-> TRUE,
                     discovered |-> Cardinality(Discovered(local)),
                     parsed |-> Cardinality({x \in local : x.walk = "parsed"})],
         observations |-> BuildObservations(occs, local, reach),
         unanalysed |-> {UnanalysedOf(occs, o, repos, local) : o \in unmatched}]
=============================================================================

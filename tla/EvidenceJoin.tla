---------------------------- MODULE EvidenceJoin ----------------------------
(***************************************************************************)
(* The join of one scan finding with the two upstream documents            *)
(* (internal/decision/join.go): which names a localisation result          *)
(* contributes, whether the set of names is closed, which entries of the   *)
(* usage graph are about the finding, and what one observation adds to     *)
(* the evidence gathered so far.                                           *)
(*                                                                         *)
(* A document entry is a record holding only what the join reads of it.    *)
(* The empty string, which the code tests for, is Absent here.  A source   *)
(* location is the number "site"; a call path is the number of its steps,  *)
(* 0 when it is missing or one of its steps is malformed (reachablePath    *)
(* rejects both).                                                          *)
(***************************************************************************)
EXTENDS Naturals, FiniteSets, FiniteSetsExt

CONSTANTS
    Findings,     \* the findingIds of the canonical scan
    ScanFindings, \* findingId -> what the scan says of the finding
    Symbols,      \* function names a candidate or a call site can carry
    Occurrences,  \* occurrenceIds of the canonical scan
    PURLs,        \* package URLs
    Packages,     \* npm package names
    ObservationIds

\* An occurrenceId, purl, package name or enumeration the document leaves out.
Absent == "absent"

Statuses == {"complete", "partial", "unsupported", "failed", Absent}
Methods == {"advisory_metadata", "patch_reference", "advisory_text",
            "version_diff", "llm_suggested", "unknown"}
Ratings == {"high", "medium", "low", "none"}
Visibilities == {"public", "internal", Absent, "unknown"}
Reasons == {"not_imported_by_analysed_source", "nested_under_dependency",
            "ecosystem_unsupported", "import_site_parse_failed",
            "excluded_by_limits", "ambiguous_occurrence", "computed_specifier",
            "no_source_files"}

ScanFinding == [purl : PURLs, package : Packages \cup {Absent},
                occurrences : SUBSET Occurrences, kev : BOOLEAN]

Candidate == [symbol : Symbols, visibility : Visibilities,
              exposedVia : SUBSET Symbols,
              source : {"export_resolution", "advisory_text", Absent},
              complete : BOOLEAN]

LocalisationResult == [found : BOOLEAN, method : Methods, confidence : Ratings,
                       candidates : SUBSET Candidate]

UnanalysedEntry == [occurrence : Occurrences \cup {Absent}, purl : PURLs \cup {Absent},
                    reason : Reasons]

CallSite == [site : Nat, symbol : Symbols, resolution : {"resolved", "unresolved"},
             reachability : {"reachable", "unknown", "not_analysed"},
             entry : BOOLEAN, steps : Nat]

Specifier == [kind : {"package", "computed", "computed_relative", "local"},
              package : Packages \cup {Absent}]

Observation == [id : ObservationIds \cup {Absent}, occurrence : Occurrences \cup {Absent},
                purl : PURLs \cup {Absent}, specifier : Specifier,
                resolution : {"resolved", "type_only", "unresolved"},
                level : 0 .. 3, calls : SUBSET CallSite]

ASSUME ScanIsTyped == ScanFindings \in [Findings -> ScanFinding]

-----------------------------------------------------------------------------
(* The candidate set: #139, a name match can prove usage, only a closed set *)
(* can support a negative.                                                  *)

\* buildCandidateSet's early returns: nothing to compare usage with.
NamesNothing(r) == \/ ~r.found
                   \/ r.method = "unknown"
                   \/ r.candidates = {}

\* The names one candidate contributes as join keys.
NamesOf(c) == IF c.visibility = "internal" THEN c.exposedVia ELSE {c.symbol}

\* Mutant: prose names count as names from the package's own code.
CodeDerivedIgnoringSource(r, c) == r.method # "advisory_text"

CodeDerived(r, c) == /\ r.method # "advisory_text"
                     /\ c.visibility = "internal" => c.source = "export_resolution"

Keys(r) == IF NamesNothing(r) THEN {}
           ELSE UNION {NamesOf(c) : c \in r.candidates}

CodeKeys(r) ==
    IF NamesNothing(r) THEN {}
    ELSE UNION {NamesOf(c) : c \in {x \in r.candidates : CodeDerived(r, x)}}

\* Mutant: an internal candidate closes the set although the walk over its
\* callers was not exhaustive.
CandidateClosesPartialWalk(r, c) ==
    \/ c.visibility = "public"
    \/ c.visibility = "internal" /\ CodeDerived(r, c) /\ c.exposedVia # {}

CandidateCloses(r, c) ==
    \/ c.visibility = "public"
    \/ /\ c.visibility = "internal"
       /\ CodeDerived(r, c)
       /\ c.complete
       /\ c.exposedVia # {}

SetClosed(r) == /\ ~NamesNothing(r)
                /\ \A c \in r.candidates : CandidateCloses(r, c)
                /\ r.method \notin {"advisory_text", "llm_suggested"}

-----------------------------------------------------------------------------
(* Which entries of the usage graph are about a finding.                    *)

Tied(f, e) == \/ e.occurrence # Absent /\ e.occurrence \in ScanFindings[f].occurrences
              \/ e.purl # Absent /\ e.purl = ScanFindings[f].purl

\* An unresolved import no occurrence is tied to.  schema13: the graph is
\* usage-graph 1.3.0 or later and reports computed specifiers as unanalysed.
UnresolvedImportRelevant(f, o, schema13) ==
    \/ o.specifier.kind = "computed" /\ ~schema13
    \/ /\ o.specifier.kind = "package"
       /\ o.specifier.package # Absent
       /\ o.specifier.package = ScanFindings[f].package

CouldRefer(f, o, schema13) == /\ o.resolution = "unresolved"
                              /\ Tied(f, o) \/ UnresolvedImportRelevant(f, o, schema13)

\* Only a runtime import of this package carries calls that count.
Runtime(f, o) == o.resolution = "resolved" /\ Tied(f, o)

ResolvedCalls(o) == {cs \in o.calls : cs.resolution = "resolved"}
UnresolvedCalls(o) == {cs \in o.calls : cs.resolution # "resolved"}

Matches(r, o) == {cs \in ResolvedCalls(o) : cs.symbol \in Keys(r)}

HasPath(cs) == cs.reachability = "reachable" /\ cs.entry /\ cs.steps > 0

\* shorterThan: fewest steps, then the source location.
Shorter(p, q) == \/ p.steps < q.steps
                 \/ p.steps = q.steps /\ p.site < q.site

NoPath == [steps |-> 0, site |-> 0]
PathOf(cs) == [steps |-> cs.steps, site |-> cs.site]

\* The path kept after reading the paths P on top of the one kept so far.
ShortestOf(P, old) ==
    LET all == IF old = NoPath THEN P ELSE P \cup {old}
    IN  IF all = {} THEN NoPath
        ELSE CHOOSE p \in all : \A q \in all : ~Shorter(q, p)

-----------------------------------------------------------------------------
(* The evidence gathered for a finding and what one observation adds to it: *)
(* the body of BuildFindingInputs' loop over graph.Observations.            *)

NoEvidence == [observationIds |-> {}, matched |-> {}, codeMatched |-> FALSE,
               agree |-> FALSE, path |-> NoPath, level |-> 0,
               imports |-> 0, calls |-> 0]

\* Mutant: type_only imports are joined like runtime imports.
AddTypeOnlyToo(f, r, o, schema13, e) ==
    IF o.resolution = "unresolved" \/ ~Tied(f, o) THEN e
    ELSE [e EXCEPT !.matched = @ \cup {cs.symbol : cs \in Matches(r, o)}]

\* An observation without an observationId is evidence nobody can cite.
NamedBy(o) == {o.id} \ {Absent}

AddUnresolved(f, o, e) ==
    [e EXCEPT !.imports = @ + 1,
              !.observationIds = IF Tied(f, o) THEN @ \cup NamedBy(o) ELSE @]

\* Mutant: the names matched are those of the last observation only.
AddCallsForgetting(r, o, e) ==
    [e EXCEPT !.calls = @ + Cardinality(UnresolvedCalls(o)),
              !.matched = {cs.symbol : cs \in Matches(r, o)}]

AddCalls(r, o, e) ==
    LET hits == Matches(r, o)
        paths == {PathOf(cs) : cs \in {x \in hits : HasPath(x)}}
    IN  [observationIds |-> e.observationIds, level |-> e.level,
         imports |-> e.imports,
         calls |-> e.calls + Cardinality(UnresolvedCalls(o)),
         matched |-> e.matched \cup {cs.symbol : cs \in hits},
         codeMatched |-> e.codeMatched \/ \E cs \in hits : cs.symbol \in CodeKeys(r),
         agree |-> e.agree \/ paths # {},
         path |-> ShortestOf(paths, e.path)]

AddTied(o, e) == [e EXCEPT !.observationIds = @ \cup NamedBy(o),
                           !.level = IF o.level > @ THEN o.level ELSE @]

AddObservation(f, r, o, schema13, e) ==
    IF o.resolution = "unresolved"
    THEN IF CouldRefer(f, o, schema13) THEN AddUnresolved(f, o, e) ELSE e
    ELSE IF ~Tied(f, o) THEN e
    ELSE IF o.resolution # "resolved" THEN AddTied(o, e)
    ELSE AddCalls(r, o, AddTied(o, e))
=============================================================================

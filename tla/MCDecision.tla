----------------------------- MODULE MCDecision -----------------------------
(***************************************************************************)
(* Small documents for Decision.  lodash carries finding f1 in two         *)
(* occurrences, qs carries f2.  Every localisation method, every           *)
(* visibility and every way a set stays open occurs; the observations hold *)
(* a direct match, matches with a short and a long path, a match on a      *)
(* prose name, a bare "reachable", type-only imports, unresolved calls and *)
(* unresolved imports of this, of another and of an unknown package.       *)
(***************************************************************************)
EXTENDS Contracts

CONSTANTS Wide   \* TRUE: one finding, every document; FALSE: two findings

MCFindings == IF Wide THEN {"f1"} ELSE {"f1", "f2"}
MCSymbols == {"merge", "set", "safeGet"}
MCOccurrences == {"o1", "o2", "o3"}
MCPURLs == {"lodash@4", "qs@6"}
MCPackages == {"lodash", "qs"}
MCObservationIds == {"i1", "i2", "i3", "i4", "i5", "i6", "i7", "i8"}

MCScanFindings == [f \in MCFindings |->
    IF f = "f1"
    THEN [purl |-> "lodash@4", package |-> "lodash", occurrences |-> {"o1", "o2"},
          kev |-> TRUE]
    ELSE [purl |-> "qs@6", package |-> "qs", occurrences |-> {"o3"},
          kev |-> FALSE]]

Hdr(status, new, discovered, parsed) ==
    [status |-> status, schema13 |-> new, discovered |-> discovered, parsed |-> parsed]

MCHeaders ==
    {Hdr("complete", TRUE, 10, 10), Hdr("partial", TRUE, 10, 9),
     Hdr("unsupported", TRUE, 0, 0)}
    \cup IF Wide THEN {Hdr("complete", FALSE, 10, 7), Hdr("complete", TRUE, 0, 0),
                       Hdr("complete", TRUE, 10, 6), Hdr("failed", FALSE, 10, 12)}
         ELSE {}

Cand(symbol, visibility, via, source, complete) ==
    [symbol |-> symbol, visibility |-> visibility, exposedVia |-> via,
     source |-> source, complete |-> complete]
Public(s) == Cand(s, "public", {}, Absent, FALSE)
Helper(via, source, complete) == Cand("safeGet", "internal", via, source, complete)
Loc(method, confidence, candidates) ==
    [found |-> TRUE, method |-> method, confidence |-> confidence,
     candidates |-> candidates]

MCLocalisationResults ==
    {Loc("patch_reference", "high",
         {Public("merge"), Helper({"set"}, "export_resolution", TRUE)}),
     Loc("patch_reference", "high",
         {Helper({"merge"}, "export_resolution", TRUE),
          Helper({"set"}, "advisory_text", FALSE)}),
     Loc("advisory_text", "medium", {Public("merge")}),
     Loc("unknown", "none", {})}
    \cup IF Wide
         THEN {Loc("patch_reference", "low", {Helper({"merge"}, "export_resolution", FALSE)}),
               Loc("advisory_metadata", "high", {Cand("merge", Absent, {}, Absent, FALSE)}),
               Loc("llm_suggested", "low", {Public("merge")}),
               Loc("version_diff", "medium", {Cand("merge", "unknown", {}, Absent, FALSE)}),
               Loc("version_diff", "medium", {}),
               Loc("patch_reference", "medium", {Helper({}, "export_resolution", TRUE)})}
         ELSE {}

Skip(occ, purl, reason) == [occurrence |-> occ, purl |-> purl, reason |-> reason]
MCUnanalysedEntries ==
    {Skip("o2", Absent, "nested_under_dependency"),
     Skip(Absent, "lodash@4", "not_imported_by_analysed_source"),
     Skip("o3", "qs@6", "computed_specifier")}

Call(site, symbol, resolution, reach, entry, steps) ==
    [site |-> site, symbol |-> symbol, resolution |-> resolution,
     reachability |-> reach, entry |-> entry, steps |-> steps]
Import(kind, package) == [kind |-> kind, package |-> package]
Obs(id, occ, purl, spec, resolution, level, calls) ==
    [id |-> id, occurrence |-> occ, purl |-> purl, specifier |-> spec,
     resolution |-> resolution, level |-> level, calls |-> calls]

MCObservations ==
    {\* two paths to one name
     Obs("i1", "o1", "lodash@4", Import("package", "lodash"), "resolved", 3,
         {Call(1, "merge", "resolved", "reachable", TRUE, 3),
          Call(2, "merge", "resolved", "reachable", TRUE, 2)}),
     \* attributed by purl only; the shortest path ties with the one above
     Obs("i2", Absent, "lodash@4", Import("package", "lodash"), "resolved", 2,
         {Call(3, "set", "resolved", "reachable", TRUE, 2)}),
     Obs("i3", "o2", Absent, Import("package", "lodash"), "resolved", 2,
         {Call(4, "merge", "resolved", "reachable", FALSE, 0)}),
     Obs("i4", "o1", "lodash@4", Import("package", "lodash"), "resolved", 1,
         {Call(5, "merge", "unresolved", "not_analysed", FALSE, 0)}),
     Obs("i5", "o1", "lodash@4", Import("package", "lodash"), "type_only", 1,
         {Call(6, "merge", "resolved", "unknown", FALSE, 0)}),
     \* unresolved: tied to nothing, naming qs, naming lodash, computed
     Obs("i6", Absent, Absent, Import("package", "qs"), "unresolved", 0, {}),
     Obs("i7", Absent, Absent, Import("computed", Absent), "unresolved", 0, {}),
     Obs("i8", "o3", "qs@6", Import("package", "qs"), "resolved", 2,
         {Call(7, "merge", "resolved", "unknown", FALSE, 0)})}
    \cup IF Wide
         THEN {Obs(Absent, Absent, Absent, Import("package", "lodash"), "unresolved", 0, {}),
               Obs(Absent, Absent, Absent, Import("computed_relative", Absent), "unresolved", 0, {}),
               Obs(Absent, "o1", "lodash@4", Import("package", "lodash"), "resolved", 1,
                   {Call(8, "safeGet", "resolved", "unknown", FALSE, 0)})}
         ELSE {}
=============================================================================

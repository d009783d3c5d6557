----------------------------- MODULE MCPipeline -----------------------------
(***************************************************************************)
(* lodash@4 (finding f1) is installed in repository A at the root (o1) and *)
(* below another package (o3); a workspace "app" has its own, unaffected   *)
(* lodash@3 (o2).  qs (f2, o4) is installed in repository B, and a Maven   *)
(* package (f3, o5) in A.                                                  *)
(*                                                                         *)
(* Five trees a user moves between; and, when Rich, every pair of source  *)
(* files built from six walks and eight sets of imports, under five        *)
(* installations, which nobody edits.                                      *)
(***************************************************************************)
EXTENDS Pipeline

CONSTANT Rich

MCFindings == {"f1", "f2", "f3", "f4", "f5"}
MCSymbols == {"merge", "set"}
MCOccurrences == {"o1", "o2", "o3", "o4", "o5"}
MCPURLs == {"lodash@4", "lodash@3", "qs@6", "log4j@2"}
MCPackages == {"lodash", "qs"}
MCObservationIds == {"i1", "i2", "i3", "i4", "i5", "i6", "i7"}
MCRepos == {"A", "B"}
MCDirs == {"app"}

Vulnerable(purl, package, occs, kev) ==
    [purl |-> purl, package |-> package, occurrences |-> occs, kev |-> kev]
MCScanFindings == [f \in MCFindings |->
    CASE f = "f1" -> Vulnerable("lodash@4", "lodash", {"o1", "o3"}, FALSE)
      [] f = "f2" -> Vulnerable("qs@6", "qs", {"o4"}, FALSE)
      [] f = "f3" -> Vulnerable("log4j@2", Absent, {"o5"}, TRUE)
      [] f = "f4" -> Vulnerable("lodash@4", "lodash", {"o1", "o3"}, FALSE)
      [] f = "f5" -> Vulnerable("qs@6", "qs", {"o4"}, TRUE)]

V(nums, pre) == [nums |-> nums, pre |-> pre]
FixedIn(nums, pre) == [nums |-> nums, pre |-> pre, given |-> TRUE]
MCInstalled == [p \in MCPURLs |->
    CASE p = "lodash@4" -> V(<<4, 17, 4>>, << >>)
      [] p = "lodash@3" -> V(<<3, 10>>, << >>)
      [] p = "qs@6" -> V(<<6, 0>>, <<1>>)
      [] p = "log4j@2" -> V(<<2, 14>>, << >>)]
S(epss, cvss, fixed) == [epss |-> epss, cvss |-> cvss, fixed |-> fixed]
MCSignals == [f \in MCFindings |->
    CASE f = "f1" -> S(300, 74, FixedIn(<<4, 17, 12>>, <<1>>))
      [] f = "f2" -> S(0, 75, FixedIn(<<6, 0, 10>>, << >>))
      [] f = "f3" -> S(970, 100, FixedIn(<<2, 3, 1>>, << >>))
      [] f = "f4" -> S(500, 65, FixedIn(<<4, 17, 12>>, << >>))
      [] f = "f5" -> S(900, 0, FixedIn(<<6, 0>>, << >>))]
MCNameOrder == [x \in MCFindings \cup MCPURLs |->
    CASE x = "f1" -> 5 [] x = "f2" -> 6 [] x = "f3" -> 7 [] x = "f4" -> 8 [] x = "f5" -> 9
      [] x = "lodash@3" -> 1 [] x = "lodash@4" -> 2 [] x = "log4j@2" -> 3 [] x = "qs@6" -> 4]

All == [sections |-> {}, packages |-> {}, bands |-> {}, states |-> {}]
MCFilters ==
    {All, [All EXCEPT !.packages = {"lodash@3", "lodash@4"}],
     [All EXCEPT !.sections = {"update-first"}],
     [All EXCEPT !.states = {"usage_detected"}],
     [All EXCEPT !.bands = {"act_now"}, !.sections = {"no-direct-usage"}]}

Occ(purl, npm, repo, ws, nested) ==
    [purl |-> purl, npm |-> npm, repo |-> repo, workspace |-> ws, nested |-> nested]
MCOccurrenceInfo == [o \in MCOccurrences |->
    CASE o = "o1" -> Occ("lodash@4", "lodash", "A", "root", FALSE)
      [] o = "o2" -> Occ("lodash@3", "lodash", "A", "app", FALSE)
      [] o = "o3" -> Occ("lodash@4", "lodash", "A", "root", TRUE)
      [] o = "o4" -> Occ("qs@6", "qs", "B", "root", FALSE)
      [] o = "o5" -> Occ("log4j@2", Absent, "A", "root", FALSE)]

Cand(symbol) == [symbol |-> symbol, visibility |-> "public", exposedVia |-> {},
                 source |-> Absent, complete |-> FALSE]
Loc(method, confidence, candidates) ==
    [found |-> TRUE, method |-> method, confidence |-> confidence, candidates |-> candidates]
Patched == Loc("patch_reference", "high", {Cand("merge")})
Prose == Loc("advisory_text", "medium", {Cand("merge")})
Unlocalised == Loc("unknown", "none", {})
Replaced == Loc("patch_reference", "high", {Cand("set")})
Reported5(r1, r2, r4, r5) == [f \in MCFindings |->
    CASE f = "f1" -> r1 [] f = "f2" -> r2 [] f = "f3" -> Unlocalised [] f = "f4" -> r4 [] f = "f5" -> r5]
MCLocalisationReports ==
    {Reported5(Patched, Unlocalised, Replaced, Replaced),
     Reported5(Replaced, Replaced, Patched, Replaced),
     Reported5(Prose, Patched, Patched, Replaced),
     Reported5(Unlocalised, Patched, Patched, Patched)}

Imp(id, package, typeOnly, alias, calls) ==
    [id |-> id, package |-> package, relative |-> FALSE, typeOnly |-> typeOnly,
     alias |-> alias, calls |-> calls]
Call(site, symbol, steps) == [site |-> site, symbol |-> symbol, steps |-> steps]
Merge == Imp("i1", "lodash", FALSE, "none", {Call(1, "merge", 2)})
SetOnly == Imp("i2", "lodash", FALSE, "none", {Call(2, "set", 0)})
Escapes == Imp("i3", "lodash", FALSE, "none", {Call(3, Computed, 1)})
Types == Imp("i4", "lodash", TRUE, "none", {Call(4, "merge", 0)})
Dynamic == Imp("i5", Absent, FALSE, "none", {})
Qs == Imp("i6", "qs", FALSE, "target", {Call(6, "merge", 0)})
Alias == Imp("i7", "qs", FALSE, "no target", {})

File(repo, dir, walk, imports) == [repo |-> repo, dir |-> dir, walk |-> walk, imports |-> imports]
T(installed, local, files) == [installed |-> installed, local |-> local, files |-> files]

ImportSets == {{}, {Merge}, {SetOnly}, {Escapes}, {Types}, {SetOnly, Dynamic}, {Qs}, {SetOnly, Alias}}
RichTrees ==
    {T(installed, placed[1], {File("A", "root", w1, i1), File(placed[2], "app", "parsed", i2)}) :
        installed \in {{"o1"}, {"o1", "o2"}, {"o1", "o3"}, {"o2", "o4"}, {"o1", "o4", "o5"}},
        placed \in {<<{"A"}, "A">>, <<{"A", "B"}, "A">>, <<{"A", "B"}, "B">>},
        w1 \in Walks, i1 \in ImportSets,
        i2 \in {{}, {Merge}, {SetOnly}, {Qs}}}
    \cup {T({"o1", "o5"}, {}, {}), T({"o1"}, {"A"}, {})}

PlainTrees ==
    {T({"o1"}, {"A"}, {File("A", "root", "parsed", {SetOnly})}),
     T({"o1"}, {"A"}, {File("A", "root", "parsed", {Merge})}),
     T({"o1", "o4"}, {"A", "B"}, {File("A", "root", "parsed", {SetOnly}),
                                  File("B", "root", "parsed", {Qs})}),
     T({"o2"}, {"A"}, {File("A", "app", "parsed", {Merge})}),
     T({}, {"A"}, {File("A", "root", "parsed", {Escapes})})}

MCTrees == PlainTrees \cup IF Rich THEN RichTrees ELSE {}
MCEdited == PlainTrees
=============================================================================

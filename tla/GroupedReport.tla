---------------------------- MODULE GroupedReport ----------------------------
(***************************************************************************)
(* sbomber report: the packages of decision-results.json filed under       *)
(* sections, and the view a filter leaves of them (internal/report:        *)
(* build.go, filter.go).                                                   *)
(*                                                                         *)
(* The document is one decide wrote: every decision has a purl and is in   *)
(* its group, and every state and band is a known one, so what build.go    *)
(* does with a decision outside the groups, a group naming no decision or  *)
(* a value it does not know is left out.  The names listed by a --package  *)
(* flag are the purls that contain one of them.                            *)
(***************************************************************************)
EXTENDS Remediation

\* In the order they are shown.
SectionOrder == << "update-first", "insufficient-information",
                   "no-direct-usage", "lower-priority" >>

MovesToNoDirectUsage(d) == d.state = "no_usage_detected"

\* The most urgent section any of the findings calls for; those without usage
\* were taken out before.
ClassifyGroup(fs, v) ==
    CASE \E f \in fs : v[f].band = "act_now" -> "update-first"
      [] /\ \A f \in fs : v[f].band # "act_now"
         /\ \E f \in fs : \/ v[f].band = "insufficient_information"
                          \/ v[f].state \in {"unknown", "unsupported"} -> "insufficient-information"
      [] OTHER -> "lower-priority"

\* Mutant: the package is filed by the findings listed with it alone.
FiledByItsOwn(main, moved, v) == IF main = {} THEN {} ELSE {ClassifyGroup(main, v)}

\* The section of a package besides "no-direct-usage", if it has one: known
\* exploitation keeps it under "update-first" when the finding moved.
MainSection(main, moved, v) ==
    IF \E f \in moved : v[f].band = "act_now" THEN {"update-first"}
    ELSE IF main = {} THEN {} ELSE {ClassifyGroup(main, v)}

\* buildEntries: one entry in each of one or two sections.
Moved(g, v) == {f \in g.findings : MovesToNoDirectUsage(v[f])}
FiledUnder(g, v) == MainSection(g.findings \ Moved(g, v), Moved(g, v), v)

SectionsOf(g, v) ==
    FiledUnder(g, v) \cup IF Moved(g, v) = {} THEN {} ELSE {"no-direct-usage"}

\* The entry of g in a section, naming what the other one lists.
Entry(g, section, v) ==
    LET main == g.findings \ Moved(g, v)
        moved == Moved(g, v)
        aside == section = "no-direct-usage"
    IN  [purl |-> g.purl, section |-> section, fixed |-> g.fixed,
         findings |-> IF aside THEN moved ELSE main,
         total |-> Cardinality(g.findings),
         resolved |-> IF g.fixed.given
                      THEN Cardinality({f \in g.findings : Signals[f].fixed.given}) ELSE 0,
         elsewhere |-> IF ~aside THEN Cardinality(moved)
                       ELSE IF FiledUnder(g, v) = {} THEN 0 ELSE Cardinality(main)]

\* The elements of s at some places, in their order.
Only(s, at) == LET order == Ranked(at, {p \in at \X at : p[1] < p[2]})
               IN  [k \in DOMAIN order |-> s[order[k]]]

\* The entries of a section, in the order of the groups.
Listed(groups, section, v) ==
    LET filed == Only(groups, {i \in DOMAIN groups : section \in SectionsOf(groups[i], v)})
    IN  [k \in DOMAIN filed |-> Entry(filed[k], section, v)]

\* BuildReport: two of the sections are there even without an entry.
BuildReport(groups, v) ==
    LET full == [i \in DOMAIN SectionOrder |->
                    [section |-> SectionOrder[i], hidden |-> 0,
                     entries |-> Listed(groups, SectionOrder[i], v)]]
    IN  Only(full, {i \in DOMAIN full :
                       \/ full[i].entries # << >>
                       \/ full[i].section \in {"insufficient-information", "no-direct-usage"}})

-----------------------------------------------------------------------------
(* Filters.  An empty set matches everything.                               *)

MatchAny(allowed, value) == allowed = {} \/ value \in allowed

EntryMatches(filter, e) == /\ MatchAny(filter.sections, e.section)
                           /\ MatchAny(filter.packages, e.purl)

Kept(filter, e, v) ==
    {f \in e.findings : /\ EntryMatches(filter, e)
                        /\ MatchAny(filter.bands, v[f].band)
                        /\ MatchAny(filter.states, v[f].state)}

\* An entry without findings points to another section; it is kept when only
\* sections and packages are asked for, and they match.
KeptEmpty(filter, e) == /\ e.findings = {} /\ EntryMatches(filter, e)
                        /\ filter.bands = {} /\ filter.states = {}

Stays(filter, e, v) == Kept(filter, e, v) # {} \/ KeptEmpty(filter, e)

\* Mutant: the entries a filter drops are not counted.
CountedWhereKept(filter, s, v) ==
    SumFunction([i \in {j \in DOMAIN s.entries : Stays(filter, s.entries[j], v)} |->
                    Cardinality(s.entries[i].findings \ Kept(filter, s.entries[i], v))])

\* How many findings of a section a filter hides.
Hidden(filter, s, v) ==
    SumFunction([i \in DOMAIN s.entries |->
                    Cardinality(s.entries[i].findings \ Kept(filter, s.entries[i], v))])

View(filter, s, v) ==
    LET left == Only(s.entries, {i \in DOMAIN s.entries : Stays(filter, s.entries[i], v)})
    IN  [section |-> s.section, hidden |-> Hidden(filter, s, v),
         entries |-> [k \in DOMAIN left |->
                         [left[k] EXCEPT !.findings = Kept(filter, left[k], v)]]]

\* Apply: every section stays, and says how many of its findings are hidden.
Apply(report, filter, v) == [i \in DOMAIN report |-> View(filter, report[i], v)]
=============================================================================

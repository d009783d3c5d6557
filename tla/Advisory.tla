------------------------------- MODULE Advisory -------------------------------
(***************************************************************************)
(* What the localiser reads from an OSV record                             *)
(* (internal/localisation/advisory.go): whether the record is about the    *)
(* finding, the functions it names, the fixed version, and its links to    *)
(* commits and pull requests.                                              *)
(***************************************************************************)
EXTENDS Naturals, Sequences, SequencesExt

CONSTANTS WellFormed,  \* the identifiers that are CVE or GHSA identifiers
          Ghsa,        \* those that are GHSA identifiers
          Stopwords,   \* words of prose that never name a function
          NoRepo

ASSUME GhsaAssumption == Ghsa \subseteq WellFormed

NoVersion == 0

\* A finding: a vulnerability, with its aliases in order, of an installed
\* version of a package.
Finding(id, vulnerability, aliases, npm, package, version, fixed) ==
    [id |-> id, vulnerability |-> vulnerability, aliases |-> aliases, npm |-> npm,
     package |-> package, version |-> version, fixed |-> fixed]

\* An OSV record.  affected lists packages with the functions and the version
\* ranges given for them; words are the tokens of its prose.
Record(id, aliases, affected, functions, words, references) ==
    [id |-> id, aliases |-> aliases, affected |-> affected, functions |-> functions,
     words |-> words, references |-> references]

\* An advisory link: to a commit, a pull request, a repository or elsewhere.
Link(kind, repo, target, package) ==
    [kind |-> kind, repo |-> repo, target |-> target, package |-> package]

-----------------------------------------------------------------------------
\* The first identifier OSV has a record for, of the GHSA aliases, the primary
\* identifier and the other aliases; one it could not be asked with is passed over.
AdvisoryId(records, f) ==
    LET known(id) == id \in WellFormed /\ id \in DOMAIN records
        ghsa == {i \in DOMAIN f.aliases : f.aliases[i] \in Ghsa /\ known(f.aliases[i])}
        other == {i \in DOMAIN f.aliases : f.aliases[i] \notin Ghsa /\ known(f.aliases[i])}
        first(positions) == {f.aliases[i] : i \in {k \in positions : \A m \in positions : k =< m}}
    IN  IF ghsa # {} THEN first(ghsa)
        ELSE IF known(f.vulnerability) THEN {f.vulnerability} ELSE first(other)

NamesFinding(rec, ids) == ({rec.id} \cup rec.aliases) \cap ids # {}

Matching(rec, package) == {a \in rec.affected : a.ecosystem = "npm" /\ a.name = package}

AdvisoryVerified(rec, ids, package) == NamesFinding(rec, ids) /\ Matching(rec, package) # {}

-----------------------------------------------------------------------------
\* The introduced version in force at each fixed event of a range.
FixesIn(range) ==
    LET introduced(i) == LET before == {k \in 1 .. i : range[k].introduced # NoVersion}
                         IN  IF before = {} THEN NoVersion ELSE range[Max(before)].introduced
    IN  {[introduced |-> introduced(i), fixed |-> range[i].fixed] :
            i \in {k \in DOMAIN range : range[k].fixed # NoVersion}}

\* Mutant: any fixed version above the installed one will do.
AnyLaterFix(rec, package, installed) ==
    LET later == {r.fixed : r \in {x \in UNION {UNION {FixesIn(range) : range \in a.ranges} :
                                                 a \in Matching(rec, package)} : x.fixed > installed}}
    IN  IF later = {} THEN NoVersion ELSE Max(later)

\* The smallest fixed version above the installed one, of the ranges that have
\* been introduced by then.
FixedVersionFor(rec, package, installed) ==
    LET fixes == UNION {UNION {FixesIn(range) : range \in a.ranges} : a \in Matching(rec, package)}
        apply == {r.fixed : r \in {x \in fixes : installed < x.fixed /\ x.introduced =< installed}}
    IN  IF apply = {} THEN NoVersion ELSE Min(apply)

\* Functions named by structured fields, of the package's entries or the record.
StructuredFunctions(rec, package) ==
    rec.functions \cup UNION {a.functions : a \in Matching(rec, package)}

\* Functions named by prose: code-like tokens outside fenced code, without their
\* receiver, that are not stopwords, constants or the package itself.
FunctionsFromText(rec, package) ==
    {w.name : w \in {x \in rec.words :
        /\ x.form \in {"backtick", "function", "call", "quoted"}
        /\ x.receiver \notin Stopwords
        /\ x.name \notin Stopwords \cup {package}}}

-----------------------------------------------------------------------------
\* What is new is appended, once.
AddEvidence(have, ids) ==
    LET add(seq, x) == IF x \in ToSet(seq) THEN seq ELSE Append(seq, x)
    IN  FoldLeft(add, have, ids)

\* Commits and pull requests, each once and in order, and the repository: the
\* last link to one that is a PACKAGE, else the first, else a commit's or a pull
\* request's.  A link to anywhere else is never followed.
PatchReferences(rec) ==
    LET is(kind) == LET test(l) == l.kind = kind
                    IN  AddEvidence(<< >>, SelectSeq(rec.references, test))
        repos == is("repository")
        packages == {i \in DOMAIN repos : repos[i].package}
        linked == is("commit") \o is("pull")
    IN  [commits |-> is("commit"), pulls |-> is("pull"),
         repo |-> IF packages # {} THEN repos[Max(packages)].repo
                  ELSE IF repos # << >> THEN repos[1].repo
                  ELSE IF linked # << >> THEN linked[1].repo ELSE NoRepo]
===============================================================================

----------------------------- MODULE Remediation -----------------------------
(***************************************************************************)
(* Which package to update first, and to what (internal/decision/          *)
(* remediation.go): the decisions grouped by package URL, the fixed        *)
(* version a group reports, and the order of the groups.                   *)
(*                                                                         *)
(* A version is what parseVersion reads of its text: the numbers and the   *)
(* identifiers of the pre-release, each identifier the number of its place *)
(* in the order of comparePreIdent.  A text that is no version has no      *)
(* numbers.                                                                *)
(***************************************************************************)
EXTENDS DecisionRules, SequencesExt

CONSTANTS Signals,    \* findingId -> scores and fixed version
          Installed,  \* purl -> the version in it
          NameOrder   \* findingIds and purls -> their place in string order

Version == [nums : Seq(Nat), pre : Seq(Nat)]
NoFix == [nums |-> << >>, pre |-> << >>, given |-> FALSE]
Fix == [nums : Seq(Nat), pre : Seq(Nat), given : BOOLEAN]

\* EPSS in thousandths, CVSS in tenths, 0 when the scanner gave none.
Signal == [epss : Nat, cvss : Nat, fixed : Fix]

\* A scan reports finitely many findings.
ASSUME SignalsAreTyped ==
    /\ IsFiniteSet(Findings)
    /\ Signals \in [Findings -> Signal]
    /\ Installed \in [PURLs -> Version]
    /\ NameOrder \in [Findings \cup PURLs -> Nat]
    /\ IsInjective(NameOrder)

-----------------------------------------------------------------------------
(* Versions.                                                                *)

IsVersion(v) == v.nums # << >>

\* Missing numbers count as 0.
NumberAt(v, i) == IF i <= Len(v.nums) THEN v.nums[i] ELSE 0

\* Whether s comes after t, when the two are compared place by place.
AfterAt(s, t) == LET apart == {i \in DOMAIN s : s[i] # t[i]}
                 IN  apart # {} /\ s[Min(apart)] > t[Min(apart)]

PreReleaseAfter(p, q) ==
    LET n == Min({Len(p), Len(q)})
        head(s) == SubSeq(s, 1, n)
    IN  \/ p = << >> /\ q # << >>
        \/ p # << >> /\ q # << >> /\ head(p) = head(q) /\ Len(p) > Len(q)
        \/ p # << >> /\ q # << >> /\ AfterAt(head(p), head(q))

\* compareVersions(a, b) > 0.
Above(a, b) ==
    LET n == Max({Len(a.nums), Len(b.nums)})
        numbers(v) == [i \in 1 .. n |-> NumberAt(v, i)]
    IN  \/ AfterAt(numbers(a), numbers(b))
        \/ numbers(a) = numbers(b) /\ PreReleaseAfter(a.pre, b.pre)

-----------------------------------------------------------------------------
(* Groups.  v maps each finding decided to its decision.                    *)

BandRank(band) == CASE band = "act_now" -> 3
                    [] band = "insufficient_information" -> 2
                    [] band = "lower_priority" -> 1

FindingsAt(v, purl) == {f \in DOMAIN v : ScanFindings[f].purl = purl}

\* The findings of the group's highest band: the tie-break signals are theirs.
Highest(v, fs) ==
    {f \in fs : \A g \in fs : BandRank(v[g].band) <= BandRank(v[f].band)}

Epss(fs) == Max({Signals[f].epss : f \in fs})
Cvss(fs) == Max({Signals[f].cvss : f \in fs})

Fixes(fs) == {Signals[f].fixed : f \in {g \in fs : Signals[g].fixed.given}}

\* A fix that can be ordered and, when the installed version can be too, is
\* above it.
UpgradeTarget(fix, installed) ==
    /\ IsVersion(fix)
    /\ IsVersion(installed) => Above(fix, installed)

\* The highest fix reported, when every one is an upgrade target.
ReportedFixedVersion(fs, installed) ==
    LET fixes == Fixes(fs)
    IN  IF fixes = {} \/ \E x \in fixes : ~UpgradeTarget(x, installed) THEN NoFix
        ELSE CHOOSE x \in fixes : \A y \in fixes : ~Above(y, x)

\* A group keeps what the report reads of it; urgency is what it is ordered by.
Group(v, purl) ==
    LET fs == FindingsAt(v, purl)
        top == Highest(v, fs)
    IN  [purl |-> purl, findings |-> fs,
         fixed |-> ReportedFixedVersion(fs, Installed[purl]),
         urgency |-> << Max({BandRank(v[f].band) : f \in fs}),
                        IF \E f \in top : ScanFindings[f].kev THEN 1 ELSE 0,
                        Epss(top),
                        Cvss(top),
                        Cardinality(fs) >>]

\* Band, then KEV, EPSS, CVSS and number of findings, then the purl.
UpdatedBefore(a, b) == \/ AfterAt(a.urgency, b.urgency)
                       \/ a.urgency = b.urgency /\ NameOrder[a.purl] < NameOrder[b.purl]

\* The elements of a finite set that before, pairs of them, puts in order.
Ranked(S, before) ==
    [k \in 1 .. Cardinality(S) |->
        CHOOSE a \in S : Cardinality({b \in S : <<b, a>> \in before}) = k - 1]

BuildRemediationGroups(v) ==
    LET groups == {Group(v, ScanFindings[f].purl) : f \in DOMAIN v}
    IN  Ranked(groups, {p \in groups \X groups : UpdatedBefore(p[1], p[2])})
=============================================================================

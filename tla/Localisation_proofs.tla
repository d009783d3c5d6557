-------------------------- MODULE Localisation_proofs --------------------------
(***************************************************************************)
(* Theorems about the localiser, for every sequence of findings and every  *)
(* state of the services, rate limit and outages.  The tag checks spend    *)
(* requests of the same rate limit as the findings: they are the last to   *)
(* spend any.  A verification without errors vouches for the services as   *)
(* they are when it ends.  A finding is compared with the first release    *)
(* that fixes it, and a candidate that can support a negative names every  *)
(* way to it.                                                              *)
(***************************************************************************)
EXTENDS Localisation, WellFoundedInduction, FiniteSetTheorems, TLAPS

\* The first result without tag checks is the one after those checked; they are
\* checked only when no finding is left, and a finding is worked on only while
\* one is.
InTurn == /\ checked \in Nat
          /\ results \in Seq({results[i] : i \in DOMAIN results})
          /\ work.stage # "start" => ~Localised
          /\ checked # 0 => Localised
          /\ checked = 0 => \A i \in DOMAIN results : results[i].checks = << >>

\* The verification with the network, one request or judgement at a time.
Online == Refetch \/ JudgeCandidates \/ Recheck \/ NextResult

\* It leaves the document and the services alone.
LEMMA OnlyTheReport == Online => UNCHANGED Settled
BY DEF Online, Refetch, JudgeCandidates, Recheck, NextResult, Settled

\* A result is selected without tag checks.
LEMMA ResultHasNoChecks ==
    ASSUME NEW f, NEW method
    PROVE  Result(f, method).checks = << >>
BY DEF Result

\* Placing the candidates of a result leaves its tag checks alone.
LEMMA VisibilityKeepsChecks ==
    ASSUME NEW r, NEW tb, "checks" \in DOMAIN r
    PROVE  ResolveVisibility(r, tb).checks = r.checks
BY DEF ResolveVisibility

\* What a finding ends with.
LEMMA FinishKeepsOrder ==
    ASSUME InTurn, ~Localised, checked' = checked, scenario' = scenario,
           NEW result, result.checks = << >>, NEW todo, Finish(result, todo)
    PROVE  InTurn'
<1>1. results' = Append(results, result) /\ work' = NoWork
  BY DEF Finish
<1>2. results \in Seq({results[i] : i \in DOMAIN results}) /\ checked = 0
  BY DEF InTurn
<1> DEFINE S == {results[i] : i \in DOMAIN results} \cup {result}
<1>3. results \in Seq(S)
  BY <1>2
<1> HIDE DEF S
<1>4. /\ results' \in Seq(S)
      /\ \A i \in DOMAIN results' : i \in DOMAIN results \/ i = Len(results) + 1
      /\ \A i \in DOMAIN results : results'[i] = results[i]
      /\ results'[Len(results) + 1] = result
  BY <1>1, <1>3 DEF S
<1>5. results' \in Seq({results'[i] : i \in DOMAIN results'})
  BY <1>4
<1>6. \A i \in DOMAIN results' : results'[i].checks = << >>
  BY <1>2, <1>4 DEF InTurn
<1>7. (work.stage = "start")'
  BY <1>1 DEF NoWork
<1> QED
  BY <1>2, <1>5, <1>6, <1>7 DEF InTurn

\* The tag checks of one result begin when no finding is left.
LEMMA TagChecksKeepOrder ==
    ASSUME InTurn, RunTagChecks
    PROVE  InTurn'
<1>1. /\ Localised /\ work = NoWork /\ checked' = checked + 1 /\ checked + 1 \in DOMAIN results
      /\ UNCHANGED <<work, scenario>>
  BY DEF RunTagChecks, TagChecksDue
<1>2. PICK checks : \/ results' = results
                    \/ results' = [results EXCEPT ![checked + 1].checks = checks]
  BY DEF RunTagChecks
<1> DEFINE S == {results[i] : i \in DOMAIN results}
           changed == [results[checked + 1] EXCEPT !.checks = checks]
<1>3. results \in Seq(S \cup {changed})
  BY DEF InTurn
<1>4. results' = results \/ results' = [results EXCEPT ![checked + 1] = changed]
  BY <1>2
<1> HIDE DEF S, changed
<1>5. results' \in Seq(S \cup {changed}) /\ Len(results') = Len(results)
  BY <1>1, <1>3, <1>4
<1>6. results' \in Seq({results'[i] : i \in DOMAIN results'})
  BY <1>5
<1>7. Localised' /\ work'.stage = "start"
  BY <1>1, <1>5 DEF Localised, Findings, NoWork
<1>8. checked' \in Nat /\ checked' # 0
  BY <1>1 DEF InTurn
<1> QED
  BY <1>6, <1>7, <1>8 DEF InTurn

\* The findings come one after the other, then the tag checks.
LEMMA InTurnStep == InTurn /\ [Next]_vars => InTurn'
<1> SUFFICES ASSUME InTurn, [Next]_vars PROVE InTurn'
  OBVIOUS
<1>1. CASE NotNpm
  <2>1. PICK r : r = [Result(Current, "unknown") EXCEPT !.fixed = NoVersion, !.version = NoVersion]
    OBVIOUS
  <2>2. r.checks = << >>
    BY <2>1 DEF Result
  <2>3. ~Localised /\ Finish(r, NoTagWork) /\ checked' = checked /\ scenario' = scenario
    BY <1>1, <2>1 DEF NotNpm
  <2> QED
    BY <2>2, <2>3, FinishKeepsOrder
<1>2. CASE Select
  <2>1. ~Localised /\ checked' = checked /\ scenario' = scenario
    BY <1>2 DEF Select, InTurn
  <2>2. \E r, todo : r.checks = << >> /\ Finish(r, todo)
    <3> DEFINE hits == {i \in DOMAIN work.attempts : work.attempts[i].outcome = "hit"}
               sel == work.attempts[Min(hits)]
               patches == {a \in ToSet(work.attempts) : a.method = "patch_reference"}
               advisory == {Artefact(AdvisoryArtefactId, work.source, rec, TRUE) :
                              rec \in work.known}
               base == [Result(Current, IF hits = {} THEN "unknown" ELSE sel.method)
                          EXCEPT !.fixed = work.fixed, !.artefacts = advisory]
               result == [base EXCEPT
                            !.candidates = {Placed(c, Unplaced) : c \in sel.candidates},
                            !.artefacts = @ \cup sel.artefacts,
                            !.patch = IF sel.fixes = << >> THEN NoCommit
                                      ELSE sel.fixes[1].commit,
                            !.confidence = ConfidenceFor(sel, UNION {a.candidates : a \in patches})]
    <3>1. \E r, todo : /\ \/ r = base \/ r = result
                          \/ \E tb : r = ResolveVisibility(result, tb)
                       /\ Finish(r, todo)
      <4> HIDE DEF base, result, hits, sel
      <4> QED
        BY <1>2 DEF Select, base, result, hits, sel
    <3>2. base.checks = << >>
      BY DEF Result
    <3>3. "checks" \in DOMAIN result /\ result.checks = << >>
      BY DEF Result
    <3> HIDE DEF base, result
    <3> QED
      BY <3>1, <3>2, <3>3, VisibilityKeepsChecks
  <2> QED
    BY <2>1, <2>2, FinishKeepsOrder
<1>3. CASE RunTagChecks
  BY <1>3, TagChecksKeepOrder
<1>4. ASSUME ReadAdvisory \/ TryMetadata \/ TryPatch \/ TryText \/ TryVersionDiff
      PROVE  InTurn'
  <2>1. UNCHANGED <<scenario, results, checked>>
    BY <1>4 DEF ReadAdvisory, TryMetadata, TryPatch, TryText, TryVersionDiff
  <2>2. ~Localised
    BY <1>4 DEF ReadAdvisory, TryMetadata, TryPatch, TryText, TryVersionDiff, InTurn
  <2> QED
    BY <2>1, <2>2 DEF InTurn, Localised, Findings
<1>5. ASSUME Verify \/ ServicesChange \/ StartRefetch \/ Online \/ UNCHANGED vars
      PROVE  InTurn'
  <2>1. UNCHANGED <<scenario, work, results, checked>>
    BY <1>5, OnlyTheReport DEF Verify, ServicesChange, StartRefetch, Settled, vars
  <2> QED
    BY <2>1 DEF InTurn, Localised, Findings
<1> QED
  BY <1>1, <1>2, <1>3, <1>4, <1>5 DEF Next, Online

\* InTurn holds throughout.
THEOREM Invariant == Spec => []InTurn
<1>1. Init => InTurn
  BY DEF Init, InTurn, NoWork
<1> QED
  BY <1>1, InTurnStep, PTL DEF Spec

\* No finding is refused a request because a tag check has spent it: when one is,
\* no result has been checked yet (localise.go LocaliseAll).
THEOREM ChecksComeLast == Spec => TagChecksComeLast
<1> DEFINE None == \A i \in DOMAIN results : results[i].checks = << >>
<1>1. InTurn /\ [Next]_vars => [refused' # refused => None]_vars
  <2> SUFFICES ASSUME InTurn, Next, refused' # refused PROVE None
    OBVIOUS
  <2>1. TryPatch
    BY OnlyTheReport DEF Next, NotNpm, ReadAdvisory, TryMetadata, TryText, TryVersionDiff,
           Select, RunTagChecks, Verify, ServicesChange, StartRefetch, Online, Settled
  <2> QED
    BY <2>1 DEF TryPatch, InTurn
<1>2. Spec => [][refused' # refused => None]_vars
  <2> HIDE DEF None
  <2> QED
    BY <1>1, Invariant, PTL DEF Spec
<1> QED
  BY <1>2, PTL DEF TagChecksComeLast

-----------------------------------------------------------------------------
(***************************************************************************)
(* A report without errors vouches for the services as they are now.  What *)
(* is kept of a download says what the service holds, whichever result it  *)
(* was made for: that is what the next results rest on.                    *)
(***************************************************************************)
Truthful(a, answer) ==
    answer.severity # "error" =>
        /\ a.id.kind = "source_file" => world.trees[a.id.commit][a.id.path] = a.content
        /\ a.id.kind = "tarball" => world.tarballs[a.id.version] = a.content
        /\ a.id.kind = "advisory" => answer.body = {world.records[a.url]}

\* What a download gives is what the service holds.
LEMMA RefetchIsTruthful ==
    ASSUME NEW quota, NEW up, NEW a
    PROVE  Truthful(a, RefetchOne(world, quota, up, a))
<1>1. CASE a.id.kind = "source_file"
  BY <1>1 DEF Truthful, RefetchOne, Answer
<1>2. CASE a.id.kind = "tarball"
  BY <1>2 DEF Truthful, RefetchOne, Answer
<1>3. CASE a.id.kind \notin {"source_file", "tarball"}
  BY <1>3 DEF Truthful, RefetchOne, Answer
<1> QED
  BY <1>1, <1>2, <1>3

\* Without requests left no release is compared.
LEMMA NothingLeftToCompare ==
    ASSUME NEW repo, NEW head, NEW tag, NEW fixes
    PROVE  FirstComparable(world, 0, repo, head, tag, fixes).release = NoCommit
<1>1. \A release : /\ Place(world, 0, repo, release, fixes).release = NoCommit
                   /\ Place(world, 0, repo, release, fixes).left = 0
  BY DEF Place, Spend
<1> QED
  BY <1>1 DEF FirstComparable

\* A tag is found as it is now, or the requests are used up.
LEMMA TagIsCurrent ==
    ASSUME NEW quota, NEW repo, NEW version
    PROVE  LET found == TagCommit(world, quota, repo, version)
           IN  found.left = 0 \/ found.commit = TagNow(repo, version)
BY DEF TagCommit, TagNow, Spend

\* A verdict keeps the tag it is about, and without a release there is none.
LEMMA VerdictKeepsTag ==
    ASSUME NEW repo, NEW version, NEW role, NEW fixes, NEW head, NEW tag, NEW first, NEW content
    PROVE  LET given == Check(repo, version, role, fixes, head, tag)
               done == Judge(world, given, first, content).check
           IN  done.tag = tag /\ (first.release = NoCommit => done.result = "unavailable")
<1> DEFINE given == Check(repo, version, role, fixes, head, tag)
<1>1. "tag" \in DOMAIN given /\ given.tag = tag /\ given.result = "unavailable"
  BY DEF Check
<1> HIDE DEF given
<1>2. \A read : FixedVerdict(given, first, content, read).check.tag = tag
  BY <1>1 DEF FixedVerdict
<1>3. ByContent(world, given, first, content).check.tag = tag
  BY <1>2 DEF ByContent
<1>4. VulnerableVerdict(given, first).check.tag = tag
  BY <1>1 DEF VulnerableVerdict
<1>5. /\ Judge(world, given, first, content).check.tag = tag
      /\ first.release = NoCommit => Judge(world, given, first, content).check.result = "unavailable"
  BY <1>1, <1>3, <1>4 DEF Judge
<1> QED
  BY <1>5 DEF given

\* A check that finds its release has read the tag as it is now.
LEMMA CheckIsCurrent ==
    ASSUME NEW quota, NEW registry, NEW repo, NEW fixes, NEW content, NEW version, NEW role
    PROVE  LET check == OneCheck(world, quota, registry, repo, fixes, content, version, role).check
           IN  check.result = "verified" => check.tag = TagNow(repo, version)
<1>1. PICK head : head = IF registry THEN world.heads[version] ELSE NoCommit
  OBVIOUS
<1>2. PICK tag : tag = TagCommit(world, quota, repo, version)
  OBVIOUS
<1>3. PICK first : first = FirstComparable(world, tag.left, repo, head, tag.commit, fixes)
  OBVIOUS
<1>4. PICK check : check = Judge(world, Check(repo, version, role, fixes, head, tag.commit),
                                 first, content).check
  OBVIOUS
<1>5. check.tag = tag.commit /\ (first.release = NoCommit => check.result = "unavailable")
  BY <1>4, VerdictKeepsTag
<1>6. tag.left = 0 \/ tag.commit = TagNow(repo, version)
  BY <1>2, TagIsCurrent
<1>7. tag.left = 0 => check.result = "unavailable"
  BY <1>3, <1>5, NothingLeftToCompare
<1>8. check.result = "verified" => check.tag = TagNow(repo, version)
  BY <1>5, <1>6, <1>7
<1>9. OneCheck(world, quota, registry, repo, fixes, content, version, role).check = check
  BY <1>1, <1>2, <1>3, <1>4 DEF OneCheck, AgainstTag
<1> QED
  BY <1>8, <1>9

-----------------------------------------------------------------------------
\* Without an error so far: the results already passed, and of the one under
\* review what has been noted and made again.
VouchedFor ==
    /\ \A i \in 1 .. report.next : StillTrue(results[i])
    /\ \A a \in report.noted : StillThere(Reviewed, a)
    /\ \A k \in report.rechecked : StillTagged(Reviewed, Reviewed.checks[k])

Fields == DOMAIN NoReport

\* The document is complete before it is verified and does not change after.
Vouching ==
    /\ DOMAIN report = Fields
    /\ report.stage # "none" => Written
    /\ report.judged => report.stage = "online" /\ Unread = {}
    /\ report.stage = "offline" => /\ report.next = 0
                                   /\ report.fetched = {} /\ report.noted = {} /\ report.rechecked = {}
    /\ report.stage = "online" => /\ report.next \in Nat
                                  /\ \A x \in report.fetched : Truthful(x.key[2], x.answer)
                                  /\ Errors(report.issues) = {} => VouchedFor

\* An issue that is an error counts as one.
LEMMA ErrorCounts ==
    ASSUME NEW issues, NEW finding, NEW about, NEW what,
           Issue("error", finding, about, what) \in issues
    PROVE  Errors(issues) # {}
<1> DEFINE issue == Issue("error", finding, about, what)
<1>1. issue.severity = "error"
  BY DEF Issue
<1> HIDE DEF issue
<1>2. issue \in Errors(issues)
  BY <1>1 DEF Errors, issue
<1> QED
  BY <1>2

\* An artefact noted without an error is what its source holds, and its record is
\* about this result's own finding.
LEMMA NotedIsThere ==
    ASSUME NEW s, DOMAIN s = Fields, NEW r, NEW a, NEW answer, Truthful(a, answer),
           NEW t, t = Noted(s, r, a, answer)
    PROVE  /\ DOMAIN t = Fields
           /\ t.stage = s.stage /\ t.next = s.next /\ t.rechecked = s.rechecked /\ t.judged = s.judged
           /\ t.fetched = s.fetched \cup {[key |-> <<r.package, a>>, answer |-> answer]}
           /\ t.noted = s.noted \cup {a}
           /\ s.issues \subseteq t.issues
           /\ Errors(t.issues) = {} => StillThere(r, a)
<1> DEFINE said == IF answer.severity = "none" THEN {}
                   ELSE {Issue(answer.severity, r.finding, a.id.kind, answer.what)}
           identity == IF a.id.kind = "advisory" THEN IdentityIssues(r, answer) ELSE {}
<1>1. /\ DOMAIN t = Fields
      /\ t.stage = s.stage /\ t.next = s.next /\ t.rechecked = s.rechecked /\ t.judged = s.judged
      /\ t.fetched = s.fetched \cup {[key |-> <<r.package, a>>, answer |-> answer]}
      /\ t.noted = s.noted \cup {a}
      /\ t.issues = s.issues \cup said \cup identity
  BY DEF Noted, Fields, NoReport
<1>2. ASSUME Errors(t.issues) = {} PROVE StillThere(r, a)
  <2>1. answer.severity # "error"
    <3>1. answer.severity = "error" =>
            Issue("error", r.finding, a.id.kind, answer.what) \in said
      OBVIOUS
    <3> HIDE DEF said, identity
    <3> QED
      BY <1>1, <1>2, <3>1, ErrorCounts
  <2>2. ASSUME a.id.kind = "advisory"
        PROVE  AdvisoryVerified(world.records[a.url], {r.vulnerability}, r.package)
    <3>1. answer.body = {world.records[a.url]}
      BY <2>1, <2>2 DEF Truthful
    <3>2. ASSUME ~AdvisoryVerified(world.records[a.url], {r.vulnerability}, r.package)
          PROVE  FALSE
      <4>1. Issue("error", r.finding, "advisory", "another advisory") \in IdentityIssues(r, answer)
        BY <3>1, <3>2 DEF IdentityIssues
      <4>2. identity = IdentityIssues(r, answer)
        BY <2>2
      <4> HIDE DEF said, identity
      <4> QED
        BY <1>1, <1>2, <4>1, <4>2, ErrorCounts
    <3> QED
      BY <3>2
  <2> QED
    BY <2>1, <2>2 DEF Truthful, StillThere
<1> HIDE DEF said, identity
<1> QED
  BY <1>1, <1>2

\* With these issues, the check is still the case.
TagHolds(r, check, issues) ==
    Errors(issues) = {} /\ check.result = "verified"
    /\ Issue("warning", r.finding, check.role, "not re-run") \notin issues
    => check.tag = TagNow(check.repo, check.version)

\* A tag check made again with neither an error nor a warning is still the case.
LEMMA RecheckedIsTagged ==
    ASSUME NEW s, DOMAIN s = Fields, NEW registry, NEW r, NEW k,
           NEW t, t = Rechecked(world, s, registry, r, k)
    PROVE  /\ DOMAIN t = Fields
           /\ t.stage = s.stage /\ t.next = s.next /\ t.noted = s.noted /\ t.fetched = s.fetched
           /\ t.judged = s.judged
           /\ t.rechecked = s.rechecked \cup {k}
           /\ s.issues \subseteq t.issues
           /\ TagHolds(r, r.checks[k], t.issues)
<1>1. PICK check : check = r.checks[k]
  OBVIOUS
<1>2. PICK u : u = RefetchCheck(world, s, registry, r, check)
  OBVIOUS
<1>3. PICK fixes : fixes = FixesAgain(world, s, check)
  OBVIOUS
<1>4. PICK again : again = OneCheck(world, fixes.left, registry, check.repo, check.fixes, fixes.content,
                                    check.version, check.role)
  OBVIOUS
<1>5. again.check.result = "verified" => again.check.tag = TagNow(check.repo, check.version)
  BY <1>4, CheckIsCurrent
<1> DEFINE Keeps(v) == /\ DOMAIN v = Fields
                       /\ v.stage = s.stage /\ v.next = s.next /\ v.noted = s.noted
                       /\ v.fetched = s.fetched /\ v.rechecked = s.rechecked /\ v.judged = s.judged
                       /\ s.issues \subseteq v.issues
<1>6. ASSUME TagRecordInvalid(r, check) PROVE Keeps(u) /\ TagHolds(r, check, u.issues)
  <2>1. u = [s EXCEPT !.issues = @ \cup {Issue("error", r.finding, check.role, "invalid tag check")}]
    BY <1>2, <1>6 DEF RefetchCheck
  <2>2. Keeps(u)
    BY <2>1 DEF Fields, NoReport
  <2>3. Issue("error", r.finding, check.role, "invalid tag check") \in u.issues
    BY <2>1 DEF Fields, NoReport
  <2>4. Errors(u.issues) # {}
    BY <2>3, ErrorCounts
  <2> QED
    BY <2>2, <2>4 DEF TagHolds
<1>7. ASSUME ~TagRecordInvalid(r, check), ~fixes.ok PROVE Keeps(u) /\ TagHolds(r, check, u.issues)
  <2> DEFINE spent == [s EXCEPT !.left = fixes.left, !.read = fixes.read]
             unread == Issue("error", r.finding, check.role, "fix content not read")
  <2>1. u = [spent EXCEPT !.issues = @ \cup {unread}]
    BY <1>2, <1>3, <1>7 DEF RefetchCheck, CheckAgain
  <2>2. Keeps(u) /\ unread \in u.issues
    BY <2>1 DEF Fields, NoReport
  <2>3. Errors(u.issues) # {}
    BY <2>2, ErrorCounts
  <2> QED
    BY <2>2, <2>3 DEF TagHolds
<1>8. ASSUME ~TagRecordInvalid(r, check), fixes.ok PROVE Keeps(u) /\ TagHolds(r, check, u.issues)
  <2> DEFINE spent == [s EXCEPT !.left = fixes.left, !.read = fixes.read]
             said(severity, what) == Issue(severity, r.finding, check.role, what)
             new == IF again.check = check THEN {}
                    ELSE IF again.check.result = "unavailable" THEN {said("warning", "not re-run")}
                    ELSE {said("error", "another tag check")}
  <2>1. u = Compared(spent, r, check, again)
    BY <1>2, <1>3, <1>4, <1>8 DEF RefetchCheck, CheckAgain
  <2>2. u = [spent EXCEPT !.left = again.left, !.issues = @ \cup new]
    BY <2>1 DEF Compared
  <2>3. Keeps(u) /\ new \subseteq u.issues
    <3> HIDE DEF new
    <3> QED
      BY <2>2 DEF Fields, NoReport
  <2>4. CASE again.check = check
    BY <1>5, <2>3, <2>4 DEF TagHolds
  <2>5. CASE again.check # check /\ again.check.result = "unavailable"
    BY <2>3, <2>5 DEF TagHolds
  <2>6. CASE again.check # check /\ again.check.result # "unavailable"
    <3>1. said("error", "another tag check") \in u.issues
      BY <2>3, <2>6
    <3>2. Errors(u.issues) # {}
      BY <3>1, ErrorCounts
    <3> QED
      BY <2>3, <3>2 DEF TagHolds
  <2> QED
    BY <2>4, <2>5, <2>6
<1>9. Keeps(u) /\ TagHolds(r, check, u.issues)
  BY <1>6, <1>7, <1>8
<1>10. t = [u EXCEPT !.rechecked = @ \cup {k}]
  BY <1>1, <1>2 DEF Rechecked
<1>11. t.issues = u.issues
  BY <1>9, <1>10 DEF Fields, NoReport
<1>12. TagHolds(r, check, t.issues)
  BY <1>9, <1>11
<1>13. /\ DOMAIN t = Fields
       /\ t.stage = s.stage /\ t.next = s.next /\ t.noted = s.noted /\ t.fetched = s.fetched
       /\ t.judged = s.judged
       /\ t.rechecked = s.rechecked \cup {k}
       /\ s.issues \subseteq t.issues
  BY <1>9, <1>10 DEF Fields, NoReport
<1> QED
  BY <1>1, <1>12, <1>13

\* An error found is never taken back.
LEMMA ErrorsStay ==
    ASSUME NEW some, NEW more, some \subseteq more, Errors(more) = {}
    PROVE  Errors(some) = {}
BY DEF Errors

\* What is said of a tag check stays true while the tags do and issues are only
\* added.
LEMMA TaggedStays ==
    ASSUME NEW r, NEW check, StillTagged(r, check),
           world' = world, report.issues \subseteq report'.issues
    PROVE  StillTagged(r, check)'
BY DEF StillTagged, TagNow

LEMMA ThereStays ==
    ASSUME NEW r, NEW a, StillThere(r, a), world' = world
    PROVE  StillThere(r, a)'
BY DEF StillThere

LEMMA TrueStays ==
    ASSUME NEW r, StillTrue(r), world' = world, report.issues \subseteq report'.issues
    PROVE  StillTrue(r)'
<1>1. \A a \in r.artefacts : StillThere(r, a)'
  BY ThereStays DEF StillTrue
<1>2. \A check \in ToSet(r.checks) : StillTagged(r, check)'
  BY TaggedStays DEF StillTrue
<1> QED
  BY <1>1, <1>2 DEF StillTrue

\* A review goes on with what it already vouches for and what it adds.
LEMMA ReviewGrows ==
    ASSUME Vouching, report.stage = "online", UNCHANGED Settled,
           NEW r, r = Reviewed,
           DOMAIN report' = Fields,
           report'.stage = "online", report'.next = report.next,
           report'.judged => r.artefacts \subseteq report'.noted,
           report.issues \subseteq report'.issues,
           \A x \in report'.fetched : Truthful(x.key[2], x.answer),
           Errors(report'.issues) = {} =>
              /\ \A a \in report'.noted \ report.noted : StillThere(r, a)
              /\ \A k \in report'.rechecked \ report.rechecked : StillTagged(r, r.checks[k])'
    PROVE  Vouching'
<1>1. UNCHANGED <<world, scenario, results, checked>>
  BY DEF Settled
<1>2. Reviewed' = r
  BY <1>1 DEF Reviewed
<1>3. Written' /\ report'.next \in Nat
  BY <1>1 DEF Vouching, Written, Localised, Findings
<1>4. (\A x \in report.fetched : Truthful(x.key[2], x.answer))'
  BY <1>1 DEF Truthful
<1>5. ASSUME Errors(report'.issues) = {} PROVE VouchedFor'
  <2>1. VouchedFor
    BY <1>5, ErrorsStay DEF Vouching
  <2>2. \A i \in 1 .. report'.next : StillTrue(results[i])'
    BY <1>1, <2>1, TrueStays DEF VouchedFor
  <2>3. \A a \in report'.noted : StillThere(r, a)'
    BY <1>1, <1>5, <2>1, ThereStays DEF VouchedFor
  <2>4. \A k \in report'.rechecked : StillTagged(r, r.checks[k])'
    BY <1>1, <1>5, <2>1, TaggedStays DEF VouchedFor
  <2>5. (\A i \in 1 .. report.next : StillTrue(results[i]))'
    BY <1>1, <2>2
  <2>6. (\A a \in report.noted : StillThere(Reviewed, a))'
    BY <1>2, <2>3
  <2>7. (\A k \in report.rechecked : StillTagged(Reviewed, Reviewed.checks[k]))'
    BY <1>2, <2>4
  <2> QED
    BY <2>5, <2>6, <2>7 DEF VouchedFor
<1>6. report'.judged => Unread' = {}
  BY <1>2 DEF Unread
<1> QED
  BY <1>3, <1>4, <1>5, <1>6 DEF Vouching

\* One more artefact, asked for or known from an earlier result.
LEMMA RefetchVouches ==
    ASSUME Vouching, Refetch
    PROVE  Vouching'
<1>1. report.stage = "online" /\ UNCHANGED Settled /\ ~report.judged
  BY DEF Refetch, Reviewing, Vouching
<1>2. PICK r : r = Reviewed
  OBVIOUS
<1>3. PICK a, up : report' = RefetchArtefact(world, report, up, r, a)
  BY <1>2 DEF Refetch
<1>4. DOMAIN report = Fields /\ \A x \in report.fetched : Truthful(x.key[2], x.answer)
  BY <1>1 DEF Vouching
<1>5. PICK s, answer : /\ report' = Noted(s, r, a, answer)
                       /\ Truthful(a, answer)
                       /\ DOMAIN s = Fields
                       /\ s.stage = report.stage /\ s.next = report.next
                       /\ s.noted = report.noted /\ s.rechecked = report.rechecked
                       /\ s.fetched = report.fetched /\ s.issues = report.issues
                       /\ s.judged = report.judged
  <2> DEFINE spent == IF a.id.kind = "source_file" THEN [report EXCEPT !.left = Spend(@, 1)]
                      ELSE report
  <2>1. CASE Kept(report, r, a) = {}
    <3>1. report' = Noted(spent, r, a, RefetchOne(world, report.left, up, a))
      BY <1>3, <2>1 DEF RefetchArtefact
    <3>2. /\ DOMAIN spent = Fields
          /\ spent.stage = report.stage /\ spent.next = report.next
          /\ spent.noted = report.noted /\ spent.rechecked = report.rechecked
          /\ spent.fetched = report.fetched /\ spent.issues = report.issues
          /\ spent.judged = report.judged
      BY <1>4 DEF Fields, NoReport
    <3> HIDE DEF spent
    <3> QED
      BY <3>1, <3>2, RefetchIsTruthful
  <2>2. CASE Kept(report, r, a) # {}
    <3>1. PICK x : x = CHOOSE y \in Kept(report, r, a) : TRUE
      OBVIOUS
    <3>2. x \in report.fetched /\ x.key[2] = a
      BY <2>2, <3>1 DEF Kept
    <3>3. report' = Noted(report, r, a, x.answer)
      BY <1>3, <2>2, <3>1 DEF RefetchArtefact
    <3> QED
      BY <1>4, <3>2, <3>3
  <2> QED
    BY <2>1, <2>2
<1>6. /\ DOMAIN report' = Fields
      /\ report'.stage = s.stage /\ report'.next = s.next /\ report'.rechecked = s.rechecked
      /\ report'.judged = s.judged
      /\ report'.fetched = s.fetched \cup {[key |-> <<r.package, a>>, answer |-> answer]}
      /\ report'.noted = s.noted \cup {a}
      /\ s.issues \subseteq report'.issues
      /\ Errors(report'.issues) = {} => StillThere(r, a)
  BY <1>5, NotedIsThere
<1>7. \A x \in report'.fetched : Truthful(x.key[2], x.answer)
  BY <1>4, <1>5, <1>6
<1> QED
  BY <1>1, <1>2, <1>5, <1>6, <1>7, ReviewGrows

\* One more tag check made again.
LEMMA RecheckVouches ==
    ASSUME Vouching, Recheck
    PROVE  Vouching'
<1>1. report.stage = "online" /\ UNCHANGED Settled
  BY DEF Recheck, Reviewing
<1>2. PICK r : r = Reviewed
  OBVIOUS
<1>3. PICK k, up : report' = Rechecked(world, report, up, r, k)
  BY <1>2 DEF Recheck
<1>4. /\ DOMAIN report = Fields
      /\ \A x \in report.fetched : Truthful(x.key[2], x.answer)
      /\ report.judged => r.artefacts \subseteq report.noted
  BY <1>1, <1>2 DEF Vouching, Unread
<1>5. /\ DOMAIN report' = Fields
      /\ report'.stage = report.stage /\ report'.next = report.next
      /\ report'.noted = report.noted /\ report'.fetched = report.fetched
      /\ report'.judged = report.judged
      /\ report'.rechecked = report.rechecked \cup {k}
      /\ report.issues \subseteq report'.issues
      /\ TagHolds(r, r.checks[k], report'.issues)
  BY <1>3, <1>4, RecheckedIsTagged
<1>6. world' = world
  BY <1>1 DEF Settled
<1>7. Errors(report'.issues) = {} => StillTagged(r, r.checks[k])'
  BY <1>5, <1>6 DEF StillTagged, TagHolds, TagNow
<1> QED
  BY <1>1, <1>2, <1>4, <1>5, <1>7, ReviewGrows

\* The candidates only add issues.
LEMMA JudgingVouches ==
    ASSUME Vouching, JudgeCandidates
    PROVE  Vouching'
<1>1. report.stage = "online" /\ UNCHANGED Settled
  BY DEF JudgeCandidates, Reviewing
<1>2. PICK r : r = Reviewed
  OBVIOUS
<1>3. /\ DOMAIN report = Fields
      /\ \A x \in report.fetched : Truthful(x.key[2], x.answer)
      /\ r.artefacts \subseteq report.noted
  BY <1>1, <1>2 DEF Vouching, JudgeCandidates, Unread
<1>4. PICK more : report' = [report EXCEPT !.judged = TRUE, !.issues = @ \cup more]
  <2>1. report' = [report EXCEPT !.judged = TRUE,
                      !.issues = @ \cup (VisibilityIssues(r, report.got) \cup OccursIssues(r, report.got))]
    BY <1>2 DEF JudgeCandidates, Judged
  <2> QED
    BY <2>1
<1>5. /\ DOMAIN report' = Fields
      /\ report'.stage = report.stage /\ report'.next = report.next
      /\ report'.noted = report.noted /\ report'.fetched = report.fetched
      /\ report'.rechecked = report.rechecked
      /\ report.issues \subseteq report'.issues
  BY <1>3, <1>4 DEF Fields, NoReport
<1> QED
  BY <1>1, <1>2, <1>3, <1>5, ReviewGrows

\* A result whose every artefact is noted and whose every check is made again is
\* passed.
LEMMA NextResultVouches ==
    ASSUME Vouching, NextResult
    PROVE  Vouching'
<1>1. report.stage = "online" /\ UNCHANGED Settled /\ Unread = {} /\ Unchecked = {}
  BY DEF NextResult, Reviewing, Vouching
<1>2. UNCHANGED <<world, scenario, results, checked>>
  BY <1>1 DEF Settled
<1>3. report' = [report EXCEPT !.next = @ + 1, !.noted = {}, !.got = << >>, !.judged = FALSE,
                               !.rechecked = {}]
  BY DEF NextResult
<1>4. DOMAIN report = Fields /\ report.next \in Nat
  BY <1>1 DEF Vouching
<1>5. /\ DOMAIN report' = Fields
      /\ report'.stage = "online" /\ report'.next = report.next + 1
      /\ report'.noted = {} /\ report'.rechecked = {}
      /\ report'.fetched = report.fetched /\ report'.issues = report.issues
      /\ ~report'.judged
  BY <1>1, <1>3, <1>4 DEF Fields, NoReport
<1>6. Written' /\ (\A x \in report.fetched : Truthful(x.key[2], x.answer))'
  BY <1>1, <1>2, <1>5 DEF Vouching, Written, Localised, Findings, Truthful
<1>7. ASSUME Errors(report'.issues) = {} PROVE VouchedFor'
  <2>1. VouchedFor
    BY <1>1, <1>5, <1>7 DEF Vouching
  <2>2. StillTrue(Reviewed)
    <3>1. \A a \in Reviewed.artefacts : StillThere(Reviewed, a)
      BY <1>1, <2>1 DEF VouchedFor, Unread
    <3>2. \A k \in DOMAIN Reviewed.checks : StillTagged(Reviewed, Reviewed.checks[k])
      BY <1>1, <2>1 DEF VouchedFor, Unchecked
    <3> QED
      BY <3>1, <3>2 DEF StillTrue, ToSet
  <2>3. \A i \in 1 .. report.next + 1 : StillTrue(results[i])
    <3>1. \A i \in 1 .. report.next + 1 : i \in 1 .. report.next \/ i = report.next + 1
      BY <1>4
    <3> QED
      BY <2>1, <2>2, <3>1 DEF VouchedFor, Reviewed
  <2>4. \A i \in 1 .. report.next + 1 : StillTrue(results[i])'
    <3>1. world' = world /\ report.issues \subseteq report'.issues
      BY <1>2, <1>5
    <3>2. \A r : StillTrue(r) => StillTrue(r)'
      BY <3>1, TrueStays
    <3> QED
      BY <1>2, <2>3, <3>2
  <2>5. (\A i \in 1 .. report.next : StillTrue(results[i]))'
    BY <1>5, <2>4
  <2> QED
    BY <1>5, <2>5 DEF VouchedFor
<1> QED
  BY <1>4, <1>5, <1>6, <1>7 DEF Vouching

\* Nothing is localised and no tag is checked once the document is being verified.
LEMMA VerifiedIsDone ==
    ASSUME InTurn, Vouching,
           NotNpm \/ ReadAdvisory \/ TryMetadata \/ TryPatch \/ TryText \/ TryVersionDiff
           \/ Select \/ RunTagChecks
    PROVE  report.stage = "none" /\ report' = report
<1>1. report' = report
  BY DEF NotNpm, ReadAdvisory, TryMetadata, TryPatch, TryText, TryVersionDiff, Select, RunTagChecks
<1>2. CASE RunTagChecks
  <2>1. checked + 1 \in DOMAIN results /\ checked \in Nat /\ results \in Seq({results[i] : i \in DOMAIN results})
    BY <1>2 DEF RunTagChecks, TagChecksDue, InTurn
  <2>2. checked # Len(results)
    BY <2>1
  <2> QED
    BY <1>1, <2>2 DEF Vouching, Written
<1>3. ASSUME ~RunTagChecks PROVE ~Localised
  BY <1>3 DEF NotNpm, ReadAdvisory, TryMetadata, TryPatch, TryText, TryVersionDiff, Select, InTurn
<1> QED
  BY <1>1, <1>2, <1>3 DEF Vouching, Written

\* Every step keeps the report true to the services.
LEMMA VouchingStep == InTurn /\ Vouching /\ [Next]_vars => Vouching'
<1> SUFFICES ASSUME InTurn, Vouching, [Next]_vars PROVE Vouching'
  OBVIOUS
<1>1. ASSUME NotNpm \/ ReadAdvisory \/ TryMetadata \/ TryPatch \/ TryText \/ TryVersionDiff
             \/ Select \/ RunTagChecks
      PROVE  Vouching'
  <2>1. report.stage = "none" /\ report' = report
    BY <1>1, VerifiedIsDone
  <2> QED
    BY <2>1 DEF Vouching
<1>2. CASE Verify
  <2>1. /\ report' = [NoReport EXCEPT !.stage = "offline", !.issues = VerifyDocument(results)]
        /\ Written'
    BY <1>2 DEF Verify, Written, Localised, Findings
  <2>2. /\ DOMAIN report' = Fields /\ report'.stage = "offline" /\ ~report'.judged
        /\ report'.next = 0
        /\ report'.fetched = {} /\ report'.noted = {} /\ report'.rechecked = {}
    BY <2>1 DEF Fields, NoReport
  <2> QED
    BY <2>1, <2>2 DEF Vouching
<1>3. CASE ServicesChange
  <2>1. report' = report /\ report.stage = "offline" /\ Written'
    BY <1>3 DEF ServicesChange, Vouching, Written, Localised, Findings
  <2> QED
    BY <2>1 DEF Vouching
<1>4. CASE StartRefetch
  <2>1. PICK quota : report' = [report EXCEPT !.stage = "online", !.left = quota]
    BY <1>4 DEF StartRefetch
  <2>2. report.stage = "offline" /\ Written'
    BY <1>4 DEF StartRefetch, Vouching, Written, Localised, Findings
  <2>3. /\ DOMAIN report' = Fields /\ report'.stage = "online" /\ ~report'.judged
        /\ report'.next = 0
        /\ report'.fetched = {} /\ report'.noted = {} /\ report'.rechecked = {}
    BY <2>1, <2>2 DEF Vouching, Fields, NoReport
  <2>4. VouchedFor'
    BY <2>3 DEF VouchedFor
  <2> QED
    BY <2>2, <2>3, <2>4 DEF Vouching
<1>5. CASE Online
  BY <1>5, RefetchVouches, JudgingVouches, RecheckVouches, NextResultVouches DEF Online
<1>6. CASE UNCHANGED vars
  BY <1>6 DEF vars, Vouching, VouchedFor, Written, Localised, Findings, Truthful, StillTrue,
              StillThere, StillTagged, TagNow, Reviewed, Unread
<1> QED
  BY <1>1, <1>2, <1>3, <1>4, <1>5, <1>6 DEF Next, Online

LEMMA VouchingInvariant == Spec => []Vouching
<1>1. Init => Vouching
  BY DEF Init, Vouching, NoReport, Fields
<1> QED
  BY <1>1, VouchingStep, Invariant, PTL DEF Spec

\* A verification that ends without an error vouches for the services as they
\* are then, whatever changed since the document was written: every artefact of
\* every result is what its source holds, every record is about that result's
\* own finding, and every tag check that was made again has found its tag where
\* it was (verify.go Refetch).
THEOREM CleanReportHolds == Spec => []CleanReportIsCurrent
<1>1. InTurn /\ Vouching => CleanReportIsCurrent
  <2> SUFFICES ASSUME InTurn, Vouching, Refetched, Errors(report.issues) = {}
               PROVE  \A r \in ToSet(results) : StillTrue(r)
    BY DEF CleanReportIsCurrent
  <2>1. report.next = Len(results) /\ VouchedFor
    BY DEF Refetched, Vouching
  <2>2. DOMAIN results = 1 .. Len(results)
    BY DEF InTurn
  <2> QED
    BY <2>1, <2>2 DEF VouchedFor, ToSet
<1> QED
  BY <1>1, VouchingInvariant, Invariant, PTL

-----------------------------------------------------------------------------
(***************************************************************************)
(* The version a finding without one is compared with.  The fix that ends  *)
(* the range of the installed version is the first release out of every    *)
(* range: until it, the events of that range have the same last one.       *)
(***************************************************************************)
\* A set of natural numbers has a least one.
LEMMA LeastNatural ==
    ASSUME NEW S \in SUBSET Nat, S # {}
    PROVE  \E x \in S : \A y \in S : x <= y
<1>1. IsWellFoundedOn(OpToRel(<, Nat), Nat)
  BY NatLessThanWellFounded
<1>2. \E x \in S : \A y \in S : ~(<<y, x>> \in OpToRel(<, Nat))
  BY <1>1, WFMin
<1>3. \A x, y \in Nat : ~(<<y, x>> \in OpToRel(<, Nat)) => x <= y
  BY DEF OpToRel
<1> QED BY <1>2, <1>3

\* And one of positions a last one.
LEMMA LastPosition ==
    ASSUME NEW n \in Nat, NEW S \in SUBSET (1 .. n), S # {}
    PROVE  Max(S) \in S /\ \A y \in S : y <= Max(S)
<1> DEFINE Far == {k \in Nat : \E x \in S : k = n - x}
<1>1. PICK k \in Far : \A m \in Far : k <= m
  <2>1. \A x \in S : n - x \in Far
    OBVIOUS
  <2>2. Far # {} /\ Far \in SUBSET Nat
    BY <2>1
  <2> HIDE DEF Far
  <2> QED
    BY <2>2, LeastNatural
<1>2. PICK x \in S : k = n - x
  OBVIOUS
<1>3. \A y \in S : n - y \in Far
  OBVIOUS
<1>4. \A y \in S : y <= x
  BY <1>1, <1>2, <1>3
<1> HIDE DEF Far
<1> QED
  BY <1>4 DEF Max

LEMMA MinIs ==
    ASSUME NEW S \in SUBSET Nat, S # {}
    PROVE  Min(S) \in S /\ \A y \in S : Min(S) <= y
BY LeastNatural DEF Min

LEMMA MinOf ==
    ASSUME NEW S \in SUBSET Nat, NEW x \in S, \A y \in S : x <= y
    PROVE  Min(S) = x
<1>1. S # {}
  OBVIOUS
<1>2. Min(S) \in S /\ \A y \in S : Min(S) <= y
  BY <1>1, MinIs
<1>3. Min(S) <= x /\ x <= Min(S) /\ x \in Nat /\ Min(S) \in Nat
  BY <1>2
<1> QED
  BY <1>3

-----------------------------------------------------------------------------
\* The events of a range are numbered, and of versions.
LEMMA EventsAre ==
    ASSUME NEW range, Alternates(range)
    PROVE  /\ \E n \in Nat : DOMAIN range = 1 .. n
           /\ \A i \in DOMAIN range : /\ range[i].introduced \in Nat /\ range[i].fixed \in Nat
                                      /\ EventAt(range, i) \in Nat
<1> DEFINE Events == [introduced : Nat, fixed : Nat]
<1>1. range \in Seq(Events)
  BY DEF Alternates
<1>2. /\ DOMAIN range = 1 .. Len(range) /\ Len(range) \in Nat
      /\ \A i \in DOMAIN range : range[i] \in Events
  <2> HIDE DEF Events
  <2> QED
    BY <1>1
<1> QED
  BY <1>2 DEF EventAt

\* In a range whose last event up to the installed version introduces, that
\* event is the last one up to any version before the next.
LEMMA StillAffected ==
    ASSUME NEW range, Alternates(range), NEW v \in Nat, NEW j \in DOMAIN range,
           EventAt(range, j) <= v, \A i \in DOMAIN range : i > j => v < EventAt(range, i)
    PROVE  Max({i \in DOMAIN range : EventAt(range, i) =< v}) = j
<1> DEFINE past == {i \in DOMAIN range : EventAt(range, i) =< v}
<1>1. PICK n \in Nat : DOMAIN range = 1 .. n
  BY EventsAre
<1>2. j \in past /\ past \in SUBSET (1 .. n)
  BY <1>1
<1>3. Max(past) \in past /\ \A y \in past : y <= Max(past)
  BY <1>2, LastPosition
<1>4. \A i \in DOMAIN range : EventAt(range, i) \in Nat
  BY EventsAre
<1>5. \A i \in past : ~(i > j)
  BY <1>4
<1> HIDE DEF past
<1>6. Max(past) = j
  BY <1>1, <1>2, <1>3, <1>5
<1> QED
  BY <1>6 DEF past

\* Later events are of later versions.
LEMMA EventsInOrder ==
    ASSUME NEW range, Alternates(range), NEW i \in DOMAIN range, NEW k \in DOMAIN range, i < k
    PROVE  EventAt(range, i) < EventAt(range, k)
<1>1. PICK n \in Nat : DOMAIN range = 1 .. n
  BY EventsAre
<1>2. \A m \in DOMAIN range : EventAt(range, m) \in Nat
  BY EventsAre
<1>3. \A m \in DOMAIN range : m # 1 => EventAt(range, m - 1) < EventAt(range, m)
  BY DEF Alternates
<1> DEFINE Bad == {m \in Nat : m \in DOMAIN range /\ i < m /\ ~(EventAt(range, i) < EventAt(range, m))}
<1>4. Bad = {}
  <2> SUFFICES ASSUME Bad # {} PROVE FALSE
    OBVIOUS
  <2>1. PICK m \in Bad : \A y \in Bad : m <= y
    BY LeastNatural
  <2>2. m - 1 \in DOMAIN range /\ m # 1 /\ m - 1 \notin Bad /\ m \in DOMAIN range
    BY <1>1, <2>1
  <2>3. EventAt(range, m - 1) < EventAt(range, m)
    BY <1>3, <2>2
  <2>4. m - 1 = i \/ EventAt(range, i) < EventAt(range, m - 1)
    BY <1>1, <2>1, <2>2
  <2>5. EventAt(range, i) < EventAt(range, m)
    BY <1>2, <2>2, <2>3, <2>4
  <2> QED
    BY <2>1, <2>5
<1> QED
  BY <1>1, <1>4

\* The fix after an introducing event is one of that event.
LEMMA NextFix ==
    ASSUME NEW range, Alternates(range), NEW j \in DOMAIN range, range[j].fixed = NoVersion,
           j + 1 \in DOMAIN range
    PROVE  /\ range[j + 1].fixed # NoVersion
           /\ \E fix \in FixesIn(range) : /\ fix.fixed = range[j + 1].fixed
                                          /\ fix.introduced \in Nat
                                          /\ fix.introduced <= EventAt(range, j)
<1>1. PICK n \in Nat : DOMAIN range = 1 .. n
  BY EventsAre
<1>2. range[j + 1].fixed # NoVersion /\ range[j + 1].introduced = NoVersion
  <2>1. j + 1 # 1 /\ (j + 1) - 1 = j
    BY <1>1
  <2> QED
    BY <2>1 DEF Alternates
<1> DEFINE before == {k \in 1 .. j + 1 : range[k].introduced # NoVersion}
           intro == IF before = {} THEN NoVersion ELSE range[Max(before)].introduced
           fix == [introduced |-> intro, fixed |-> range[j + 1].fixed]
<1>3. fix \in FixesIn(range)
  BY <1>2 DEF FixesIn
<1>4. before = {} => intro = 0
  BY DEF NoVersion
<1>5. before # {} => /\ Max(before) \in before /\ Max(before) # j + 1
  <2>1. j + 1 \in Nat /\ before \in SUBSET (1 .. j + 1)
    BY <1>1
  <2> HIDE DEF before
  <2>2. before # {} => Max(before) \in before
    BY <2>1, LastPosition
  <2> QED
    BY <1>2, <2>2 DEF before
<1>6. \A k \in DOMAIN range : /\ range[k].introduced \in Nat /\ range[k].fixed \in Nat
                              /\ EventAt(range, k) \in Nat
                              /\ range[k].introduced # NoVersion => EventAt(range, k) = range[k].introduced
  <2>1. \A k \in DOMAIN range : k = 1 => range[k].fixed = NoVersion
    BY DEF Alternates
  <2>2. \A k \in DOMAIN range : k # 1 /\ range[k].fixed # NoVersion => range[k].introduced = NoVersion
    BY DEF Alternates
  <2> QED
    BY <2>1, <2>2, EventsAre DEF EventAt
<1>7. ASSUME before # {}
      PROVE  /\ Max(before) \in DOMAIN range /\ range[Max(before)].introduced # NoVersion
             /\ Max(before) <= j
  BY <1>1, <1>5, <1>7
<1>8. ASSUME before # {} PROVE intro \in Nat /\ intro <= EventAt(range, j)
  <2> HIDE DEF before
  <2>1. intro = EventAt(range, Max(before)) /\ intro \in Nat
    BY <1>6, <1>7, <1>8
  <2>2. CASE Max(before) = j
    BY <1>6, <2>1, <2>2
  <2>3. CASE Max(before) < j
    <3>1. EventAt(range, Max(before)) < EventAt(range, j)
      BY <1>7, <1>8, <2>3, EventsInOrder
    <3> QED
      BY <1>6, <1>7, <1>8, <2>1, <3>1
  <2> QED
    BY <1>1, <1>7, <1>8, <2>2, <2>3
<1>9. intro \in Nat /\ intro <= EventAt(range, j)
  BY <1>4, <1>6, <1>8
<1> HIDE DEF intro
<1> QED
  BY <1>2, <1>3, <1>9

-----------------------------------------------------------------------------
FixesOf(rec, package) ==
    UNION {UNION {FixesIn(range) : range \in a.ranges} : a \in Matching(rec, package)}
Applying(rec, package, v) ==
    {fix.fixed : fix \in {x \in FixesOf(rec, package) : v < x.fixed /\ x.introduced =< v}}

\* The releases after a version that are not affected.
Clean(rec, package, releases, v) == {u \in {w \in releases : w > v} : ~Affected(rec, package, u)}

\* A fix of a well-published record is a release that is not affected.
LEMMA FixIsClean ==
    ASSUME NEW rec, NEW package, NEW releases, WellPublished(rec, package, releases),
           NEW fix \in FixesOf(rec, package)
    PROVE  fix.fixed \in releases /\ ~Affected(rec, package, fix.fixed)
<1>1. PICK a \in Matching(rec, package) : \E range \in a.ranges : fix \in FixesIn(range)
  BY DEF FixesOf
<1>2. PICK range \in a.ranges : fix \in FixesIn(range)
  BY <1>1
<1>3. PICK i \in DOMAIN range : range[i].fixed # NoVersion /\ fix.fixed = range[i].fixed
  <2> DEFINE before(i) == {k \in 1 .. i : range[k].introduced # NoVersion}
             intro(i) == IF before(i) = {} THEN NoVersion ELSE range[Max(before(i))].introduced
  <2>1. fix \in {[introduced |-> intro(i), fixed |-> range[i].fixed] :
                    i \in {k \in DOMAIN range : range[k].fixed # NoVersion}}
    BY <1>2, Zenon DEF FixesIn
  <2> HIDE DEF intro
  <2> QED
    BY <2>1
<1> QED
  BY <1>3 DEF WellPublished

\* A version after the installed one, itself affected, is affected unless a fix
\* that applies is no later.
LEMMA AffectedUntilFixed ==
    ASSUME NEW rec, NEW package, NEW releases, WellPublished(rec, package, releases),
           NEW v \in Nat, Affected(rec, package, v), NEW u \in Nat, v < u,
           \A fix \in Applying(rec, package, v) : u < fix
    PROVE  Affected(rec, package, u)
<1>1. PICK a \in Matching(rec, package) : \E range \in a.ranges :
          LET past == {i \in DOMAIN range : EventAt(range, i) =< v}
          IN  past # {} /\ range[Max(past)].fixed = NoVersion
  BY DEF Affected
<1>2. PICK range \in a.ranges :
          LET past == {i \in DOMAIN range : EventAt(range, i) =< v}
          IN  past # {} /\ range[Max(past)].fixed = NoVersion
  BY <1>1
<1>3. Alternates(range)
  BY <1>2 DEF WellPublished
<1>4. PICK n \in Nat : DOMAIN range = 1 .. n
  BY <1>3, EventsAre
<1>5. \A i \in DOMAIN range : /\ range[i].introduced \in Nat /\ range[i].fixed \in Nat
                              /\ EventAt(range, i) \in Nat
  BY <1>3, EventsAre
<1> DEFINE past == {i \in DOMAIN range : EventAt(range, i) =< v}
           j == Max(past)
<1>6. past # {} /\ range[j].fixed = NoVersion
  BY <1>2
<1>7. j \in past /\ \A y \in past : y <= j
  <2>1. past \in SUBSET (1 .. n)
    BY <1>4
  <2> HIDE DEF past
  <2> QED
    BY <1>6, <2>1, LastPosition
<1>8. j \in DOMAIN range /\ EventAt(range, j) <= v
  BY <1>7
<1> HIDE DEF j
<1>9. \A i \in DOMAIN range : i > j => u < EventAt(range, i)
  <2> SUFFICES ASSUME NEW i \in DOMAIN range, i > j PROVE u < EventAt(range, i)
    OBVIOUS
  <2>1. j + 1 \in DOMAIN range /\ j + 1 <= i
    BY <1>4, <1>8
  <2>2. j + 1 \notin past
    <3> HIDE DEF past
    <3> QED
      BY <1>4, <1>7, <1>8
  <2>3. v < EventAt(range, j + 1)
    BY <1>5, <2>1, <2>2
  <2>4. PICK fix \in FixesIn(range) : /\ fix.fixed = range[j + 1].fixed
                                      /\ fix.introduced \in Nat
                                      /\ fix.introduced <= EventAt(range, j)
    BY <1>3, <1>6, <1>8, <2>1, NextFix
  <2>5. range[j + 1].fixed # NoVersion
    BY <1>3, <1>6, <1>8, <2>1, NextFix
  <2>6. EventAt(range, j + 1) = fix.fixed
    BY <2>4, <2>5 DEF EventAt
  <2>7. fix \in FixesOf(rec, package)
    BY <2>4 DEF FixesOf
  <2>8. fix.introduced <= v
    BY <1>5, <1>8, <2>4
  <2>9. u < EventAt(range, j + 1)
    BY <2>3, <2>6, <2>7, <2>8 DEF Applying
  <2>10. CASE i = j + 1
    BY <2>9, <2>10
  <2>11. CASE j + 1 < i
    <3>1. EventAt(range, j + 1) < EventAt(range, i)
      BY <1>3, <2>1, <2>11, EventsInOrder
    <3> QED
      BY <1>5, <2>1, <2>9, <3>1
  <2> QED
    BY <1>4, <2>1, <2>10, <2>11
<1>10. EventAt(range, j) <= u
  BY <1>5, <1>8
<1>11. Max({i \in DOMAIN range : EventAt(range, i) =< u}) = j
  BY <1>3, <1>8, <1>9, <1>10, StillAffected
<1>12. {i \in DOMAIN range : EventAt(range, i) =< u} # {}
  BY <1>8, <1>10
<1> QED
  BY <1>2, <1>6, <1>11, <1>12 DEF Affected

\* The version a well-published record is fixed in is the first release after
\* the installed one that is not affected.
LEMMA FirstFix ==
    ASSUME NEW rec, NEW package, NEW releases \in SUBSET Nat, WellPublished(rec, package, releases),
           NEW v \in Nat, Affected(rec, package, v)
    PROVE  FixedVersionFor(rec, package, v)
              = IF Clean(rec, package, releases, v) = {} THEN NoVersion
                ELSE Min(Clean(rec, package, releases, v))
<1> DEFINE clean == Clean(rec, package, releases, v)
           apply == Applying(rec, package, v)
<1>1. FixedVersionFor(rec, package, v) = IF apply = {} THEN NoVersion ELSE Min(apply)
  BY DEF FixedVersionFor, Applying, FixesOf
<1>2. apply \subseteq clean
  <2> SUFFICES ASSUME NEW m \in apply PROVE m \in clean
    OBVIOUS
  <2>1. PICK fix \in FixesOf(rec, package) : m = fix.fixed /\ v < fix.fixed
    BY DEF Applying
  <2>2. m \in releases /\ ~Affected(rec, package, m)
    BY <2>1, FixIsClean
  <2> QED
    BY <2>1, <2>2 DEF Clean
<1>3. \A u \in clean : \E m \in apply : m <= u
  <2> SUFFICES ASSUME NEW u \in clean, \A m \in apply : ~(m <= u) PROVE FALSE
    OBVIOUS
  <2>1. u \in Nat /\ v < u /\ ~Affected(rec, package, u)
    BY DEF Clean
  <2>2. \A m \in apply : u < m
    <3>1. \A m \in apply : m \in Nat
      BY <1>2 DEF Clean
    <3> QED
      BY <2>1, <3>1
  <2> QED
    BY <2>1, <2>2, AffectedUntilFixed
<1>4. clean \in SUBSET Nat /\ apply \in SUBSET Nat
  BY <1>2 DEF Clean
<1> HIDE DEF clean, apply
<1>5. CASE apply = {}
  BY <1>1, <1>3, <1>5 DEF clean
<1>6. CASE apply # {}
  <2>1. Min(apply) \in apply /\ \A m \in apply : Min(apply) <= m
    BY <1>4, <1>6, MinIs
  <2>2. Min(apply) \in clean
    BY <1>2, <2>1
  <2>3. \A u \in clean : Min(apply) <= u
    <3> SUFFICES ASSUME NEW u \in clean PROVE Min(apply) <= u
      OBVIOUS
    <3>1. PICK m \in apply : m <= u
      BY <1>3
    <3>2. Min(apply) \in Nat /\ m \in Nat /\ u \in Nat /\ Min(apply) <= m
      BY <1>4, <2>1
    <3> QED
      BY <3>1, <3>2
  <2>4. Min(clean) = Min(apply)
    BY <1>4, <2>2, <2>3, MinOf
  <2> QED
    BY <1>1, <1>6, <2>2, <2>4 DEF clean
<1> QED
  BY <1>5, <1>6

-----------------------------------------------------------------------------
\* Until the document is written the services are those of the scenario, and the
\* record read is one of theirs.
FixKnown ==
    /\ scenario \in Scenarios
    /\ Len(results) <= Len(Findings)
    /\ DOMAIN work = DOMAIN NoWork
    /\ ~Written => world = scenario.world
    /\ work.stage = "metadata" /\ work.known # {} /\ Current.fixed = NoVersion =>
          \E id \in DOMAIN scenario.world.records :
             /\ work.known = {scenario.world.records[id]}
             /\ work.fixed = FixedVersionFor(scenario.world.records[id], Current.package, Current.version)

\* At most one record is asked for, and one the services hold.
LEMMA OneRecord ==
    ASSUME NEW records, NEW f, NEW id \in AdvisoryId(records, f), NEW id2 \in AdvisoryId(records, f),
           f.aliases \in Seq(ToSet(f.aliases))
    PROVE  id \in DOMAIN records /\ id = id2
<1> DEFINE known(x) == x \in WellFormed /\ x \in DOMAIN records
           ghsa == {i \in DOMAIN f.aliases : f.aliases[i] \in Ghsa /\ known(f.aliases[i])}
           other == {i \in DOMAIN f.aliases : f.aliases[i] \notin Ghsa /\ known(f.aliases[i])}
           first(positions) == {f.aliases[i] : i \in {k \in positions : \A m \in positions : k =< m}}
<1>1. AdvisoryId(records, f) = IF ghsa # {} THEN first(ghsa)
                               ELSE IF known(f.vulnerability) THEN {f.vulnerability} ELSE first(other)
  BY Zenon DEF AdvisoryId
<1>2. \A S \in SUBSET DOMAIN f.aliases : \A x, y \in first(S) :
          x = y /\ \E i \in S : x = f.aliases[i]
  <2> SUFFICES ASSUME NEW S \in SUBSET DOMAIN f.aliases, NEW x \in first(S), NEW y \in first(S)
               PROVE  x = y /\ \E i \in S : x = f.aliases[i]
    OBVIOUS
  <2>1. PICK i \in S : x = f.aliases[i] /\ \A m \in S : i <= m
    OBVIOUS
  <2>2. PICK j \in S : y = f.aliases[j] /\ \A m \in S : j <= m
    OBVIOUS
  <2>3. i \in Nat /\ j \in Nat
    OBVIOUS
  <2> QED
    BY <2>1, <2>2, <2>3
<1>3. /\ \A x, y \in first(ghsa) : x = y /\ known(x)
      /\ \A x, y \in first(other) : x = y /\ known(x)
  <2>1. ghsa \in SUBSET DOMAIN f.aliases /\ other \in SUBSET DOMAIN f.aliases
    OBVIOUS
  <2>2. (\A i \in ghsa : known(f.aliases[i])) /\ (\A i \in other : known(f.aliases[i]))
    OBVIOUS
  <2> HIDE DEF ghsa, other, first, known
  <2> QED
    BY <1>2, <2>1, <2>2
<1>4. known(id) /\ id = id2
  <2> HIDE DEF ghsa, other, first, known
  <2> QED
    BY <1>1, <1>3
<1> QED
  BY <1>4

LEMMA ReadingKnowsTheFix ==
    ASSUME FixKnown, InTurn, Vouching, ReadAdvisory
    PROVE  FixKnown'
<1>2. world = scenario.world /\ UNCHANGED <<world, scenario, results>> /\ Current' = Current
  BY DEF FixKnown, ReadAdvisory, Current, Findings, Written
<1>3. ~Localised /\ Len(results) \in Nat
  BY DEF ReadAdvisory, InTurn
<1> DEFINE about(id) == AdvisoryVerified(world.records[id],
                             {Current.vulnerability} \cup ToSet(Current.aliases), Current.package)
           used(ids) == {id \in ids : about(id)}
           known(ids) == {world.records[id] : id \in used(ids)}
           later(ids) == {FixedVersionFor(r, Current.package, Current.version) : r \in known(ids)}
<1>4. PICK up \in BOOLEAN : LET ids == IF up THEN AdvisoryId(world.records, Current) ELSE {}
                            IN  work' = [NoWork EXCEPT
                  !.stage = "metadata", !.known = known(ids),
                  !.source = IF used(ids) = {} THEN "none" ELSE CHOOSE id \in used(ids) : TRUE,
                  !.fixed = IF Current.fixed # NoVersion \/ known(ids) = {} THEN Current.fixed
                            ELSE CHOOSE v \in later(ids) : TRUE]
  BY Zenon DEF ReadAdvisory
<1> DEFINE ids == IF up THEN AdvisoryId(world.records, Current) ELSE {}
<1>5. Findings \in Seq(ToSet(Findings)) /\ Len(results) + 1 \in DOMAIN Findings
  <2>1. Findings \in Seq(ToSet(Findings))
    BY ScenariosAssumption DEF FixKnown, Findings
  <2>2. Len(Findings) \in Nat /\ DOMAIN Findings = 1 .. Len(Findings)
    BY <2>1
  <2> QED
    BY <1>3, <2>1, <2>2 DEF FixKnown, Localised
<1>6. Current.aliases \in Seq(ToSet(Current.aliases))
  BY <1>5, ScenariosAssumption DEF FixKnown, Findings, Current
<1>7. \A x, y \in ids : x = y /\ x \in DOMAIN world.records
  BY <1>6, OneRecord
<1> HIDE DEF ids, about
<1>8. ASSUME known(ids) # {}, Current.fixed = NoVersion
      PROVE  \E id \in DOMAIN world.records :
                /\ work'.known = {world.records[id]}
                /\ work'.fixed = FixedVersionFor(world.records[id], Current.package, Current.version)
  <2>1. PICK id \in used(ids) : TRUE
    BY <1>8
  <2>2. used(ids) = {id} /\ id \in DOMAIN world.records
    BY <1>7, <2>1
  <2>3. known(ids) = {world.records[id]}
    BY <2>2
  <2>4. later(ids) = {FixedVersionFor(world.records[id], Current.package, Current.version)}
    BY <2>3
  <2>5. work'.known = known(ids) /\ work'.fixed = CHOOSE v \in later(ids) : TRUE
    <3> HIDE DEF used, known, later
    <3> QED
      BY <1>4, <1>8 DEF NoWork, ids
  <2> HIDE DEF used, known, later
  <2> QED
    BY <2>2, <2>3, <2>4, <2>5
<1>9. work'.known = known(ids) /\ DOMAIN work' = DOMAIN NoWork
  <2> HIDE DEF used, known, later
  <2> QED
    BY <1>4 DEF NoWork, ids
<1> HIDE DEF used, known, later
<1> QED
  BY <1>2, <1>3, <1>8, <1>9 DEF FixKnown, Findings, Localised, Written

\* Every step leaves the record alone or is the one that reads it.
LEMMA FixKnownStep == FixKnown /\ InTurn /\ Vouching /\ [Next]_vars => FixKnown'
<1> SUFFICES ASSUME FixKnown, InTurn, Vouching, [Next]_vars PROVE FixKnown'
  OBVIOUS
<1>1. CASE ReadAdvisory
  BY <1>1, ReadingKnowsTheFix
<1>2. ASSUME NotNpm \/ Select PROVE FixKnown'
  <2>1. UNCHANGED <<world, scenario>> /\ ~Localised
    BY <1>2 DEF NotNpm, Select, InTurn
  <2>2. work' = NoWork /\ \E r : results' = Append(results, r)
    BY <1>2, Zenon DEF NotNpm, Select, Finish
  <2>3. results \in Seq({results[i] : i \in DOMAIN results})
    BY DEF InTurn
  <2>4. Len(results') = Len(results) + 1 /\ Len(results) \in Nat
    BY <2>2, <2>3
  <2>5. Len(Findings) \in Nat
    BY ScenariosAssumption DEF FixKnown, Findings
  <2> QED
    BY <2>1, <2>2, <2>4, <2>5 DEF FixKnown, NoWork, Findings, Localised, Written
<1>3. ASSUME TryMetadata \/ TryPatch \/ TryText \/ TryVersionDiff PROVE FixKnown'
  <2>1. UNCHANGED <<world, scenario, results>> /\ ~Written
    BY <1>3 DEF TryMetadata, TryPatch, TryText, TryVersionDiff, InTurn, Written
  <2>2. \/ \E attempt, stage : stage # "metadata" /\ work' = Tried(attempt, stage)
        \/ \E stage : stage # "metadata" /\ work' = [work EXCEPT !.stage = stage]
    <3>1. /\ "metadata" # "patch" /\ "metadata" # "text" /\ "metadata" # "diff"
          /\ "metadata" # "select"
      OBVIOUS
    <3>2. CASE TryMetadata
      BY <3>1, <3>2, Zenon DEF TryMetadata
    <3>3. CASE TryPatch
      BY <3>1, <3>3, Zenon DEF TryPatch
    <3>4. CASE TryText
      BY <3>1, <3>4, Zenon DEF TryText
    <3>5. CASE TryVersionDiff
      BY <3>1, <3>5, Zenon DEF TryVersionDiff
    <3> QED
      BY <1>3, <3>2, <3>3, <3>4, <3>5
  <2>3. DOMAIN work = DOMAIN NoWork
    BY DEF FixKnown
  <2>4. work'.stage # "metadata" /\ DOMAIN work' = DOMAIN NoWork
    BY <2>2, <2>3 DEF Tried, NoWork
  <2> QED
    BY <2>1, <2>4 DEF FixKnown, Findings, Localised
<1>4. CASE RunTagChecks
  <2>1. UNCHANGED <<world, scenario, work>> /\ work = NoWork
    BY <1>4 DEF RunTagChecks
  <2>2. \/ results' = results
        \/ \E checks : results' = [results EXCEPT ![checked + 1].checks = checks]
    BY <1>4 DEF RunTagChecks
  <2>3. DOMAIN results' = DOMAIN results
    BY <2>2
  <2>4. InTurn'
    BY <1>4, TagChecksKeepOrder
  <2>5. Len(results') = Len(results)
    BY <2>3, <2>4 DEF InTurn
  <2>6. ~Written
    BY <1>4 DEF RunTagChecks, TagChecksDue, Written, InTurn
  <2> QED
    BY <2>1, <2>5, <2>6 DEF FixKnown, NoWork, Findings, Localised
<1>5. ASSUME Verify \/ ServicesChange \/ StartRefetch \/ Online PROVE FixKnown'
  <2>1. Written
    BY <1>5 DEF Verify, ServicesChange, StartRefetch, Online, Refetch, JudgeCandidates, Recheck,
                NextResult, Reviewing, Written, Vouching
  <2>2. UNCHANGED <<scenario, work, results, checked>>
    BY <1>5, OnlyTheReport DEF Verify, ServicesChange, StartRefetch, Settled
  <2> QED
    BY <2>1, <2>2 DEF FixKnown, Findings, Current, Localised, Written
<1>6. CASE UNCHANGED vars
  BY <1>6 DEF vars, FixKnown, Findings, Current, Localised, Written
<1> QED
  BY <1>1, <1>2, <1>3, <1>4, <1>5, <1>6 DEF Next, Online

\* Without a fixed version of its own, a finding is compared with the first
\* release after the installed one that its record does not call affected, for
\* every record OSV may publish (advisory.go FixedVersionFor).
THEOREM FixedIsFirst == Spec => []FixedIsTheFirstFixed
<1>1. Init => FixKnown
  BY ScenariosAssumption DEF Init, FixKnown, NoWork, Findings
<1>2. FixKnown /\ InTurn /\ Vouching => FixedIsTheFirstFixed
  <2> SUFFICES ASSUME FixKnown, InTurn, Vouching,
                      work.stage = "metadata", work.known # {}, Current.fixed = NoVersion,
                      Affected(Rec, Current.package, Current.version)
               PROVE  LET after == {v \in DOMAIN world.tarballs : v > Current.version}
                          clean == {v \in after : ~Affected(Rec, Current.package, v)}
                      IN  work.fixed = IF clean = {} THEN NoVersion ELSE Min(clean)
    BY Zenon DEF FixedIsTheFirstFixed
  <2>1. PICK id \in DOMAIN scenario.world.records :
             /\ work.known = {scenario.world.records[id]}
             /\ work.fixed = FixedVersionFor(scenario.world.records[id], Current.package, Current.version)
    BY DEF FixKnown
  <2>2. Rec = scenario.world.records[id]
    BY <2>1 DEF Rec
  <2>3. ~Localised /\ Len(results) \in Nat
    BY DEF InTurn
  <2>5. world = scenario.world
    BY <2>3 DEF FixKnown, Written
  <2>6. Len(results) + 1 \in DOMAIN Findings
    <3>1. Findings \in Seq(ToSet(Findings))
      BY ScenariosAssumption DEF FixKnown, Findings
    <3>2. Len(Findings) \in Nat /\ DOMAIN Findings = 1 .. Len(Findings)
      BY <3>1
    <3> QED
      BY <2>3, <3>2 DEF FixKnown, Localised
  <2>7. /\ Current.version \in Nat /\ DOMAIN world.tarballs \in SUBSET Nat
        /\ WellPublished(Rec, Current.package, DOMAIN world.tarballs)
    BY <2>2, <2>5, <2>6, ScenariosAssumption DEF FixKnown, Findings, Current
  <2>8. work.fixed = FixedVersionFor(Rec, Current.package, Current.version)
    BY <2>1, <2>2
  <2> DEFINE clean == Clean(Rec, Current.package, DOMAIN world.tarballs, Current.version)
  <2>9. Affected(Rec, Current.package, Current.version)
    OBVIOUS
  <2>10. FixedVersionFor(Rec, Current.package, Current.version)
            = IF clean = {} THEN NoVersion ELSE Min(clean)
    BY <2>7, <2>9, FirstFix
  <2> QED
    BY <2>8, <2>10, Zenon DEF Clean
<1> QED
  BY <1>1, <1>2, FixKnownStep, Invariant, VouchingInvariant, PTL DEF Spec

-----------------------------------------------------------------------------
(***************************************************************************)
(* The names of a closed candidate.  A walk over the importers of one file *)
(* is compared with everything a package may run: the exports followed to  *)
(* any depth, the calls any number of times.  Below an entry module that   *)
(* is the top, the other files know neither it nor the file (Sealed), so   *)
(* that each stays what its exports say (Sound) however far one follows.   *)
(***************************************************************************)
\* One more re-export is followed.
MoreExports(files, exported) ==
    [path \in DOMAIN files |->
        UNION {NamesGiven(exported, files[path], path, e) : e \in files[path].exports}]

Levels(L, files, depth) ==
    L = [d \in 0 .. depth |->
            [path \in DOMAIN files |->
                IF d = 0 THEN {}
                ELSE UNION {NamesGiven(L[d - 1], files[path], path, e) : e \in files[path].exports}]]

\* The exports can be followed to every depth.
LEMMA LevelsExist ==
    ASSUME NEW files, NEW depth \in Nat
    PROVE  \E L : Levels(L, files, depth)
<1> DEFINE None == {n \in Nat : ~\E L : Levels(L, files, n)}
           Given(E, d) == [path \in DOMAIN files |->
                IF d = 0 THEN {}
                ELSE UNION {NamesGiven(E[d - 1], files[path], path, e) : e \in files[path].exports}]
<1> SUFFICES ASSUME None # {} PROVE FALSE
  OBVIOUS
<1>1. PICK n \in None : \A m \in None : n <= m
  BY LeastNatural
<1>2. \E C : \A d \in 0 .. n - 1 : C[d] = Given(C, d)
  <2>1. CASE n = 0
    BY <2>1
  <2>2. CASE n # 0
    <3>1. n - 1 \in Nat /\ n - 1 \notin None
      BY <1>1, <2>2
    <3>2. PICK C : Levels(C, files, n - 1)
      BY <3>1
    <3>3. C = [d \in 0 .. n - 1 |-> Given(C, d)]
      BY <3>2, Zenon DEF Levels
    <3> HIDE DEF Given
    <3> QED
      BY <3>3
  <2> QED
    BY <2>1, <2>2
<1>3. PICK C : \A d \in 0 .. n - 1 : C[d] = Given(C, d)
  BY <1>2
<1> DEFINE L == [d \in 0 .. n |-> Given(C, d)]
<1>4. \A d \in 0 .. n - 1 : L[d] = C[d]
  <2> HIDE DEF Given
  <2> QED
    BY <1>1, <1>3
<1>5. \A d \in 0 .. n : Given(C, d) = Given(L, d)
  <2> SUFFICES ASSUME NEW d \in 0 .. n PROVE Given(C, d) = Given(L, d)
    OBVIOUS
  <2>1. CASE d = 0
    BY <2>1
  <2>2. CASE d # 0
    <3>1. d - 1 \in 0 .. n - 1
      BY <1>1, <2>2
    <3>2. L[d - 1] = C[d - 1]
      BY <1>4, <3>1
    <3> HIDE DEF L
    <3> QED
      BY <3>2
  <2> QED
    BY <2>1, <2>2
<1>6. L = [d \in 0 .. n |-> Given(L, d)]
  <2> HIDE DEF Given
  <2> QED
    BY <1>5
<1>7. Levels(L, files, n)
  <2> HIDE DEF L
  <2> QED
    BY <1>6, Zenon DEF Levels
<1> QED
  BY <1>1, <1>7

\* What is exported at the last level follows from the one before.
LEMMA ExportedAre ==
    ASSUME NEW files, NEW depth \in Nat
    PROVE  \E L : /\ Exported(files, depth) = L[depth]
                  /\ L[0] = [path \in DOMAIN files |-> {}]
                  /\ \A d \in 1 .. depth : L[d] = MoreExports(files, L[d - 1])
<1> DEFINE L == CHOOSE M : Levels(M, files, depth)
<1>1. Levels(L, files, depth)
  BY LevelsExist
<1>2. Exported(files, depth) = L[depth]
  BY Zenon DEF Exported, Levels
<1> HIDE DEF L
<1>3. L[0] = [path \in DOMAIN files |-> {}]
  <2>1. 0 \in 0 .. depth
    OBVIOUS
  <2> QED
    BY <1>1, <2>1 DEF Levels
<1>4. ASSUME NEW d \in 1 .. depth PROVE L[d] = MoreExports(files, L[d - 1])
  <2>1. d \in 0 .. depth /\ d # 0
    OBVIOUS
  <2> QED
    BY <1>1, <2>1 DEF Levels, MoreExports
<1> QED
  BY <1>2, <1>3, <1>4

-----------------------------------------------------------------------------
Steps(S, files, exported, from, count) ==
    S = [n \in 0 .. count |->
            IF n = 0 THEN from
            ELSE S[n - 1] \cup UNION {Callees(files, exported, v) : v \in S[n - 1]}]

\* The calls can be followed any number of times.
LEMMA StepsExist ==
    ASSUME NEW files, NEW exported, NEW from, NEW count \in Nat
    PROVE  \E S : Steps(S, files, exported, from, count)
<1> DEFINE None == {n \in Nat : ~\E S : Steps(S, files, exported, from, n)}
           Given(E, n) == IF n = 0 THEN from
                          ELSE E[n - 1] \cup UNION {Callees(files, exported, v) : v \in E[n - 1]}
<1> SUFFICES ASSUME None # {} PROVE FALSE
  OBVIOUS
<1>1. PICK n \in None : \A m \in None : n <= m
  BY LeastNatural
<1>2. \E C : \A d \in 0 .. n - 1 : C[d] = Given(C, d)
  <2>1. CASE n = 0
    BY <2>1
  <2>2. CASE n # 0
    <3>1. n - 1 \in Nat /\ n - 1 \notin None
      BY <1>1, <2>2
    <3>2. PICK C : Steps(C, files, exported, from, n - 1)
      BY <3>1
    <3>3. C = [d \in 0 .. n - 1 |-> Given(C, d)]
      BY <3>2, Zenon DEF Steps
    <3> HIDE DEF Given
    <3> QED
      BY <3>3
  <2> QED
    BY <2>1, <2>2
<1>3. PICK C : \A d \in 0 .. n - 1 : C[d] = Given(C, d)
  BY <1>2
<1> DEFINE S == [d \in 0 .. n |-> Given(C, d)]
<1>4. \A d \in 0 .. n - 1 : S[d] = C[d]
  <2> HIDE DEF Given
  <2> QED
    BY <1>1, <1>3
<1>5. \A d \in 0 .. n : Given(C, d) = Given(S, d)
  <2> SUFFICES ASSUME NEW d \in 0 .. n PROVE Given(C, d) = Given(S, d)
    OBVIOUS
  <2>1. CASE d = 0
    BY <2>1
  <2>2. CASE d # 0
    <3>1. d - 1 \in 0 .. n - 1
      BY <1>1, <2>2
    <3>2. S[d - 1] = C[d - 1]
      BY <1>4, <3>1
    <3> HIDE DEF S
    <3> QED
      BY <3>2
  <2> QED
    BY <2>1, <2>2
<1>6. S = [d \in 0 .. n |-> Given(S, d)]
  <2> HIDE DEF Given
  <2> QED
    BY <1>5
<1>7. Steps(S, files, exported, from, n)
  <2> HIDE DEF S
  <2> QED
    BY <1>6, Zenon DEF Steps
<1> QED
  BY <1>1, <1>7

\* A set of functions closed under their calls holds all they reach.
LEMMA ReachStays ==
    ASSUME NEW files, NEW exported, NEW from, IsFiniteSet(AllBlocks(files)),
           NEW Within, from \subseteq Within,
           \A v \in Within : Callees(files, exported, v) \subseteq Within
    PROVE  Reachable(files, exported, from) \subseteq Within
<1> DEFINE count == Cardinality(AllBlocks(files))
<1>1. count \in Nat
  BY FS_CardinalityType
<1> DEFINE S == CHOOSE M : Steps(M, files, exported, from, count)
<1>2. Steps(S, files, exported, from, count)
  BY <1>1, StepsExist
<1>3. Reachable(files, exported, from) = S[count]
  BY Zenon DEF Reachable, Steps
<1> HIDE DEF S, count
<1>4. /\ S[0] = from
      /\ \A n \in 1 .. count : S[n] = S[n - 1] \cup UNION {Callees(files, exported, v) : v \in S[n - 1]}
  <2>1. 0 \in 0 .. count /\ \A n \in 1 .. count : n \in 0 .. count /\ n # 0
    BY <1>1
  <2> QED
    BY <1>2, <2>1 DEF Steps
<1> DEFINE Outside == {n \in 0 .. count : ~(S[n] \subseteq Within)}
<1>5. Outside = {}
  <2> SUFFICES ASSUME Outside # {} PROVE FALSE
    OBVIOUS
  <2>1. PICK n \in Outside : \A m \in Outside : n <= m
    <3>1. Outside \in SUBSET Nat
      BY <1>1
    <3> HIDE DEF Outside
    <3> QED
      BY <3>1, LeastNatural
  <2>2. n # 0
    BY <1>4, <2>1
  <2>3. n \in 1 .. count /\ n - 1 \in 0 .. count /\ n - 1 \notin Outside
    BY <1>1, <2>1, <2>2
  <2>4. S[n - 1] \subseteq Within
    BY <2>3
  <2>5. S[n] = S[n - 1] \cup UNION {Callees(files, exported, v) : v \in S[n - 1]}
    BY <1>4, <2>3
  <2>6. S[n] \subseteq Within
    BY <2>4, <2>5
  <2> QED
    BY <2>1, <2>6
<1>6. count \in 0 .. count
  BY <1>1
<1> QED
  BY <1>3, <1>5, <1>6

\* The modules and functions of some of the files.
BlocksOf(files, some) == UNION {{FunctionValue(p, i) : i \in FunctionBlocks(files[p])} : p \in some}
ValuesOfAll(files, some) == {ModuleValue(p) : p \in some} \cup BlocksOf(files, some)

Others(files, entry, path) == DOMAIN files \ {entry, path}

\* The entry module is the top of a package whose file is loaded by it alone,
\* and not from inside its functions; every name the two export is known.
Sealed(files, entry, path) ==
    /\ entry \in DOMAIN files /\ path \in DOMAIN files /\ NoFile \notin DOMAIN files
    /\ \A p \in DOMAIN files : IsModule(files, files[p]) /\ ~Minified(files[p])
    /\ \A p \in DOMAIN files : entry \notin Requires(files[p])
    /\ \A p \in DOMAIN files : path \in Requires(files[p]) => p = entry
    /\ \A i \in DOMAIN files[entry].blocks : \A l \in files[entry].blocks[i].loads : l.module # path
    /\ ~Dynamic(files[path]) /\ ~Dynamic(files[entry])

\* What a file of such a package names, binds and loads is a file of its own.
LEMMA RequiredAreFiles ==
    ASSUME NEW files, NEW entry, NEW path, Sealed(files, entry, path), NEW p \in DOMAIN files
    PROVE  /\ \A e \in files[p].exports : e.kind = "module" =>
                 e.module \in DOMAIN files /\ e.module \in Requires(files[p])
           /\ \A b \in files[p].binds : b.module \in DOMAIN files /\ b.module \in Requires(files[p])
           /\ \A i \in DOMAIN files[p].blocks : \A l \in files[p].blocks[i].loads :
                 l.module \in DOMAIN files /\ l.module \in Requires(files[p])
<1>1. IsModule(files, files[p]) /\ ~Minified(files[p])
  BY DEF Sealed
<1> QED
  BY <1>1 DEF IsModule, Requires

\* None but the entry module reaches out of the other files, and it to the file
\* itself only.
LEMMA OthersRequireOthers ==
    ASSUME NEW files, NEW entry, NEW path, Sealed(files, entry, path),
           NEW p \in DOMAIN files, p # entry \/ path = entry
    PROVE  /\ \A e \in files[p].exports : e.kind = "module" => e.module \in Others(files, entry, path)
           /\ \A b \in files[p].binds : b.module \in Others(files, entry, path)
           /\ \A i \in DOMAIN files[p].blocks : \A l \in files[p].blocks[i].loads :
                 l.module \in Others(files, entry, path)
<1>1. \A m \in Requires(files[p]) : m # entry /\ m # path
  BY DEF Sealed
<1> QED
  BY <1>1, RequiredAreFiles DEF Others

LEMMA EntryRequires ==
    ASSUME NEW files, NEW entry, NEW path, Sealed(files, entry, path)
    PROVE  /\ \A e \in files[entry].exports : e.kind = "module" =>
                 e.module = path \/ e.module \in Others(files, entry, path)
           /\ \A b \in files[entry].binds : b.module = path \/ b.module \in Others(files, entry, path)
           /\ \A i \in DOMAIN files[entry].blocks : \A l \in files[entry].blocks[i].loads :
                 l.module \in Others(files, entry, path)
<1>1. entry \in DOMAIN files /\ \A m \in Requires(files[entry]) : m # entry
  BY DEF Sealed
<1>2. \A i \in DOMAIN files[entry].blocks : \A l \in files[entry].blocks[i].loads : l.module # path
  BY DEF Sealed
<1> QED
  BY <1>1, <1>2, RequiredAreFiles DEF Others

\* A function is a block of its file; it is no module.
LEMMA BlocksAre ==
    ASSUME NEW files, NEW some \in SUBSET DOMAIN files, \A p \in some : IsModule(files, files[p])
    PROVE  /\ \A v \in BlocksOf(files, some) :
                 /\ v.path \in some /\ v.block \in FunctionBlocks(files[v.path]) /\ v.block # 0
                 /\ v.block \in DOMAIN files[v.path].blocks /\ v = FunctionValue(v.path, v.block)
           /\ \A v \in ValuesOfAll(files, some) :
                 v.path \in some /\ (v.block = 0 \/ v \in BlocksOf(files, some))
           /\ \A p \in some : \A i \in FunctionBlocks(files[p]) :
                 FunctionValue(p, i) \in BlocksOf(files, some) /\ i # 0
           /\ \A p \in some : ModuleValue(p) \in ValuesOfAll(files, some)
           /\ BlocksOf(files, some) \subseteq ValuesOfAll(files, some)
<1>1. \A p \in some : \A i \in FunctionBlocks(files[p]) : i \in DOMAIN files[p].blocks /\ i # 0
  <2> SUFFICES ASSUME NEW p \in some, NEW i \in FunctionBlocks(files[p])
               PROVE  i \in DOMAIN files[p].blocks /\ i # 0
    OBVIOUS
  <2>1. i \in DOMAIN files[p].blocks
    BY DEF FunctionBlocks
  <2> DEFINE S == {files[p].blocks[k] : k \in DOMAIN files[p].blocks}
  <2>2. files[p].blocks \in Seq(S)
    BY DEF IsModule
  <2> HIDE DEF S
  <2>3. DOMAIN files[p].blocks = 1 .. Len(files[p].blocks) /\ Len(files[p].blocks) \in Nat
    BY <2>2
  <2> QED
    BY <2>1, <2>3
<1>2. \A v \in BlocksOf(files, some) : \E p \in some : \E i \in FunctionBlocks(files[p]) : v = FunctionValue(p, i)
  BY DEF BlocksOf
<1>3. \A p \in some : \A i \in FunctionBlocks(files[p]) : FunctionValue(p, i) \in BlocksOf(files, some)
  BY DEF BlocksOf
<1>4. \A p, i : FunctionValue(p, i).path = p /\ FunctionValue(p, i).block = i
  BY DEF FunctionValue
<1>5. \A v \in BlocksOf(files, some) :
          /\ v.path \in some /\ v.block \in FunctionBlocks(files[v.path]) /\ v.block # 0
          /\ v.block \in DOMAIN files[v.path].blocks /\ v = FunctionValue(v.path, v.block)
  BY <1>1, <1>2, <1>4
<1>6. \A p : ModuleValue(p).path = p /\ ModuleValue(p).block = 0
  BY DEF ModuleValue
<1> QED
  BY <1>1, <1>3, <1>5, <1>6 DEF ValuesOfAll

-----------------------------------------------------------------------------
\* A name of a file for a function of its own.
Own(files, p, x) ==
    /\ x.value \in BlocksOf(files, {p}) /\ x.name # "*"
    /\ LET local == files[p].blocks[x.value.block].name
       IN  /\ local # NoName
           /\ [name |-> x.name, target |-> Target(local, NoFile, Whole)] \in Names(files[p])

\* A name the entry module gives what is in the file.
Passed(files, entry, path, x) ==
    \E n \in Names(files[entry]) :
        /\ n.target.module = path
        /\ \/ n.name = "*" /\ Own(files, path, x)
           \/ n.name = x.name /\ x.name # "*" /\ n.target.member = Whole /\ x.value = ModuleValue(path)
           \/ /\ n.name = x.name /\ x.name # "*" /\ n.target.member # Whole
              /\ Own(files, path, Name(n.target.member, x.value))

\* What the other files export is theirs; the file exports that and its own
\* functions; the entry module that, its own functions and what it passes on.
Sound(files, entry, path, exported) ==
    LET others == ValuesOfAll(files, Others(files, entry, path))
    IN  /\ \A p \in Others(files, entry, path) : \A x \in exported[p] : x.value \in others
        /\ \A x \in exported[path] : x.value \in others \/ Own(files, path, x)
        /\ path # entry => \A x \in exported[entry] :
              x.value \in others \/ Own(files, entry, x) \/ Passed(files, entry, path, x)

\* A value an export of a file gives itself is one of its functions.
LEMMA LocalIsOwn ==
    ASSUME NEW files, NEW p \in DOMAIN files, IsModule(files, files[p]), ~Dynamic(files[p]),
           NEW e \in files[p].exports, e.kind # "module", e.name # "*",
           NEW v \in Local(files[p], p, e.local)
    PROVE  Own(files, p, Name(e.name, v))
<1>1. PICK i \in FunctionBlocks(files[p]) : files[p].blocks[i].name = e.local /\ v = FunctionValue(p, i)
  BY DEF Local
<1>2. v \in BlocksOf(files, {p})
  BY <1>1 DEF BlocksOf
<1>3. e.kind # "call" /\ ~Minified(files[p])
  BY DEF Dynamic, Minified
<1>4. e.local # NoName
  BY DEF IsModule
<1>5. {b \in files[p].binds : b.local = e.local} = {}
  BY <1>1 DEF IsModule
<1>6. TargetsOf(files[p], e) = {Target(e.local, NoFile, Whole)}
  BY <1>3, <1>5 DEF TargetsOf
<1>7. [name |-> e.name, target |-> Target(e.local, NoFile, Whole)] \in Names(files[p])
  BY <1>3, <1>6 DEF Names
<1>8. Name(e.name, v).value = v /\ Name(e.name, v).name = e.name /\ v.block = i
  BY <1>1 DEF Name, FunctionValue
<1> QED
  BY <1>1, <1>2, <1>4, <1>7, <1>8 DEF Own

\* A value of another file is what that file exports.
LEMMA MembersOfOthers ==
    ASSUME NEW files, NEW entry, NEW path, Sealed(files, entry, path),
           NEW exported, Sound(files, entry, path, exported),
           NEW p \in Others(files, entry, path), NEW m
    PROVE  Member(exported, p, m) \subseteq ValuesOfAll(files, Others(files, entry, path))
<1>1. \A x \in exported[p] : x.value \in ValuesOfAll(files, Others(files, entry, path))
  BY DEF Sound
<1>2. ModuleValue(p) \in ValuesOfAll(files, Others(files, entry, path))
  BY DEF ValuesOfAll
<1> QED
  BY <1>1, <1>2 DEF Member

\* What an export of a file that loads other files only gives.
LEMMA GivenByOthers ==
    ASSUME NEW files, NEW entry, NEW path, Sealed(files, entry, path),
           NEW exported, Sound(files, entry, path, exported),
           NEW p \in DOMAIN files, p # entry \/ path = entry,
           NEW e \in files[p].exports, NEW x \in NamesGiven(exported, files[p], p, e)
    PROVE  \/ x.value \in ValuesOfAll(files, Others(files, entry, path))
           \/ /\ e.kind # "module" /\ e.name # "*"
              /\ \E v \in Local(files[p], p, e.local) : x = Name(e.name, v)
<1> DEFINE others == ValuesOfAll(files, Others(files, entry, path))
<1>1. \A e2 \in files[p].exports : e2.kind = "module" => e2.module \in Others(files, entry, path)
  BY OthersRequireOthers
<1>2. \A b \in files[p].binds : b.module \in Others(files, entry, path)
  BY OthersRequireOthers
<1>3. e.name = "*" => e.kind = "module"
  BY DEF Sealed, IsModule
<1>4. CASE e.name = "*"
  <2>1. x \in exported[e.module]
    BY <1>4 DEF NamesGiven
  <2>2. e.module \in Others(files, entry, path)
    BY <1>1, <1>3, <1>4
  <2> QED
    BY <2>1, <2>2 DEF Sound
<1>5. CASE e.name # "*"
  <2>1. PICK v \in ValuesOf(exported, files[p], p, e) : x = Name(e.name, v)
    BY <1>5 DEF NamesGiven
  <2>2. x.value = v
    BY <2>1 DEF Name
  <2>3. CASE e.kind = "module"
    <3>1. v \in Member(exported, e.module, e.member)
      BY <2>1, <2>3 DEF ValuesOf
    <3>2. Member(exported, e.module, e.member) \subseteq others
      BY <1>1, <2>3, MembersOfOthers
    <3> QED
      BY <2>2, <3>1, <3>2
  <2>4. CASE e.kind # "module"
    <3>1. \/ v \in Local(files[p], p, e.local)
          \/ \E b \in files[p].binds : v \in Member(exported, b.module, b.member)
      BY <2>1, <2>4 DEF ValuesOf
    <3>2. ASSUME NEW b \in files[p].binds, v \in Member(exported, b.module, b.member)
          PROVE  v \in others
      <4>1. Member(exported, b.module, b.member) \subseteq others
        BY <1>2, MembersOfOthers
      <4> QED
        BY <3>2, <4>1
    <3> HIDE DEF others
    <3>3. v \in others \/ v \in Local(files[p], p, e.local)
      BY <3>1, <3>2
    <3> QED
      BY <1>5, <2>1, <2>2, <2>4, <3>3 DEF others
  <2> QED
    BY <2>3, <2>4
<1> QED
  BY <1>4, <1>5

\* What a name bound by the entry module to a member of a file gives.
LEMMA PassedMember ==
    ASSUME NEW files, NEW entry, NEW path, Sealed(files, entry, path),
           NEW exported, Sound(files, entry, path, exported),
           NEW n \in Names(files[entry]), n.target.module = path, n.name # "*",
           NEW v \in Member(exported, path, n.target.member)
    PROVE  \/ v \in ValuesOfAll(files, Others(files, entry, path))
           \/ Passed(files, entry, path, Name(n.name, v))
<1>1. Name(n.name, v).name = n.name /\ Name(n.name, v).value = v
  BY DEF Name
<1>2. CASE n.target.member = Whole
  <2>1. v = ModuleValue(path)
    BY <1>2 DEF Member
  <2> QED
    BY <1>1, <1>2, <2>1 DEF Passed
<1>3. CASE n.target.member # Whole
  <2>1. PICK y \in exported[path] : y.name = n.target.member /\ v = y.value
    BY <1>3 DEF Member
  <2>2. y.value \in ValuesOfAll(files, Others(files, entry, path)) \/ Own(files, path, y)
    BY DEF Sound
  <2>3. Own(files, path, y) => Own(files, path, Name(n.target.member, v))
    <3>1. Name(n.target.member, v).name = y.name /\ Name(n.target.member, v).value = y.value
      BY <2>1 DEF Name
    <3> QED
      BY <3>1 DEF Own
  <2> QED
    BY <1>1, <1>3, <2>1, <2>2, <2>3 DEF Passed
<1> QED
  BY <1>2, <1>3

\* What an export of the entry module gives.
LEMMA GivenByEntry ==
    ASSUME NEW files, NEW entry, NEW path, Sealed(files, entry, path), path # entry,
           NEW exported, Sound(files, entry, path, exported),
           NEW e \in files[entry].exports, NEW x \in NamesGiven(exported, files[entry], entry, e)
    PROVE  \/ x.value \in ValuesOfAll(files, Others(files, entry, path))
           \/ Own(files, entry, x) \/ Passed(files, entry, path, x)
<1> DEFINE others == ValuesOfAll(files, Others(files, entry, path))
           f == files[entry]
<1>0. entry \in DOMAIN files /\ IsModule(files, f) /\ ~Minified(f) /\ ~Dynamic(f)
  BY DEF Sealed
<1>1. e.kind = "module" => e.module = path \/ e.module \in Others(files, entry, path)
  BY EntryRequires
<1>2. \A b \in f.binds : b.module = path \/ b.module \in Others(files, entry, path)
  BY EntryRequires
<1>3. e.name = "*" => e.kind = "module"
  BY <1>0 DEF IsModule
<1>4. \A t \in TargetsOf(f, e) : [name |-> e.name, target |-> t] \in Names(f)
  BY <1>0 DEF Names
<1>5. e.kind = "module" => TargetsOf(f, e) = {Target(NoName, e.module, e.member)}
  BY DEF TargetsOf
<1>6. \A l, m, k : Target(l, m, k).module = m /\ Target(l, m, k).member = k
  BY DEF Target
<1>7. CASE e.name = "*"
  <2>1. x \in exported[e.module]
    BY <1>7 DEF NamesGiven
  <2>2. CASE e.module \in Others(files, entry, path)
    BY <2>1, <2>2 DEF Sound
  <2>3. CASE e.module = path
    <3>1. x.value \in others \/ Own(files, path, x)
      BY <2>1, <2>3 DEF Sound
    <3> DEFINE n == [name |-> e.name, target |-> Target(NoName, e.module, e.member)]
    <3>2. n \in Names(f) /\ n.target.module = path /\ n.name = "*"
      BY <1>3, <1>4, <1>5, <1>6, <1>7, <2>3
    <3> HIDE DEF n
    <3> QED
      BY <3>1, <3>2 DEF Passed
  <2> QED
    BY <1>1, <1>3, <1>7, <2>2, <2>3
<1>8. CASE e.name # "*"
  <2>1. PICK v \in ValuesOf(exported, f, entry, e) : x = Name(e.name, v)
    BY <1>8 DEF NamesGiven
  <2>2. x.value = v
    BY <2>1 DEF Name
  <2>3. ASSUME NEW m, NEW k, Target(NoName, m, k) \in TargetsOf(f, e),
               m = path \/ m \in Others(files, entry, path), v \in Member(exported, m, k)
        PROVE  v \in others \/ Passed(files, entry, path, x)
    <3>1. CASE m = path
      <4> DEFINE n == [name |-> e.name, target |-> Target(NoName, m, k)]
      <4>1. n \in Names(f) /\ n.target.module = path /\ n.target.member = k /\ n.name = e.name
        BY <1>4, <1>6, <2>3, <3>1
      <4> HIDE DEF n
      <4>2. v \in Member(exported, path, n.target.member)
        BY <2>3, <3>1, <4>1
      <4>3. v \in others \/ Passed(files, entry, path, Name(n.name, v))
        BY <1>8, <4>1, <4>2, PassedMember
      <4> QED
        BY <2>1, <4>1, <4>3
    <3>2. CASE m \in Others(files, entry, path)
      <4>1. Member(exported, m, k) \subseteq others
        BY <3>2, MembersOfOthers
      <4> QED
        BY <2>3, <4>1
    <3> QED
      BY <2>3, <3>1, <3>2
  <2>4. CASE e.kind = "module"
    <3>1. v \in Member(exported, e.module, e.member)
      BY <2>1, <2>4 DEF ValuesOf
    <3> QED
      BY <1>1, <1>5, <2>2, <2>3, <2>4, <3>1
  <2>5. CASE e.kind # "module"
    <3>1. \/ v \in Local(f, entry, e.local)
          \/ \E b \in f.binds : /\ e.kind = "local" /\ b.local = e.local
                                /\ v \in Member(exported, b.module, b.member)
      BY <2>1, <2>5 DEF ValuesOf
    <3>2. ASSUME v \in Local(f, entry, e.local) PROVE Own(files, entry, x)
      <4>1. Own(files, entry, Name(e.name, v))
        BY <1>0, <1>8, <2>5, <3>2, LocalIsOwn
      <4> QED
        BY <2>1, <4>1
    <3>3. ASSUME NEW b \in f.binds, e.kind = "local", b.local = e.local,
                 v \in Member(exported, b.module, b.member)
          PROVE  v \in others \/ Passed(files, entry, path, x)
      <4>1. Target(NoName, b.module, b.member) \in TargetsOf(f, e)
        BY <3>3 DEF TargetsOf
      <4> QED
        BY <1>2, <2>3, <3>3, <4>1
    <3> HIDE DEF others
    <3>4. v \in others \/ Own(files, entry, x) \/ Passed(files, entry, path, x)
      BY <3>1, <3>2, <3>3
    <3> QED
      BY <2>2, <3>4 DEF others
  <2> QED
    BY <2>4, <2>5
<1> QED
  BY <1>7, <1>8

\* Following one more re-export leaves the exports sound.
LEMMA SoundStep ==
    ASSUME NEW files, NEW entry, NEW path, Sealed(files, entry, path),
           NEW exported, Sound(files, entry, path, exported)
    PROVE  Sound(files, entry, path, MoreExports(files, exported))
<1> DEFINE others == ValuesOfAll(files, Others(files, entry, path))
           more == MoreExports(files, exported)
<1>1. \A p \in DOMAIN files : \A x \in more[p] :
          \E e \in files[p].exports : x \in NamesGiven(exported, files[p], p, e)
  BY DEF MoreExports
<1> HIDE DEF more
<1>2. ASSUME NEW p \in Others(files, entry, path), NEW x \in more[p] PROVE x.value \in others
  <2>1. p \in DOMAIN files /\ p # entry /\ p # path
    BY DEF Others
  <2>2. PICK e \in files[p].exports : x \in NamesGiven(exported, files[p], p, e)
    BY <1>1, <2>1
  <2>3. \/ x.value \in others
        \/ \E v \in Local(files[p], p, e.local) : x = Name(e.name, v)
    BY <2>1, <2>2, GivenByOthers
  <2>4. ASSUME NEW v \in Local(files[p], p, e.local) PROVE v \in others
    BY DEF Local, ValuesOfAll, BlocksOf
  <2> HIDE DEF others
  <2> QED
    BY <2>3, <2>4 DEF Name
<1>3. ASSUME NEW x \in more[path] PROVE x.value \in others \/ Own(files, path, x)
  <2>1. path \in DOMAIN files /\ IsModule(files, files[path]) /\ ~Dynamic(files[path])
    BY DEF Sealed
  <2>2. PICK e \in files[path].exports : x \in NamesGiven(exported, files[path], path, e)
    BY <1>1, <2>1
  <2>3. \/ x.value \in others
        \/ /\ e.kind # "module" /\ e.name # "*"
           /\ \E v \in Local(files[path], path, e.local) : x = Name(e.name, v)
    BY <2>1, <2>2, GivenByOthers
  <2> HIDE DEF others
  <2> QED
    BY <2>1, <2>3, LocalIsOwn
<1>4. ASSUME path # entry, NEW x \in more[entry]
      PROVE  x.value \in others \/ Own(files, entry, x) \/ Passed(files, entry, path, x)
  <2>1. entry \in DOMAIN files
    BY DEF Sealed
  <2>2. PICK e \in files[entry].exports : x \in NamesGiven(exported, files[entry], entry, e)
    BY <1>1, <2>1
  <2> QED
    BY <1>4, <2>2, GivenByEntry
<1> HIDE DEF others
<1> QED
  BY <1>2, <1>3, <1>4, Zenon DEF Sound, others, more

\* The exports are sound however many re-exports are followed.
LEMMA SoundExports ==
    ASSUME NEW files, NEW entry, NEW path, Sealed(files, entry, path), NEW depth \in Nat
    PROVE  Sound(files, entry, path, Exported(files, depth))
<1>1. PICK L : /\ Exported(files, depth) = L[depth]
               /\ L[0] = [p \in DOMAIN files |-> {}]
               /\ \A d \in 1 .. depth : L[d] = MoreExports(files, L[d - 1])
  BY ExportedAre
<1>2. Sound(files, entry, path, L[0])
  <2>1. \A p \in DOMAIN files : L[0][p] = {}
    BY <1>1
  <2>2. path \in DOMAIN files /\ entry \in DOMAIN files /\ Others(files, entry, path) \subseteq DOMAIN files
    BY DEF Sealed, Others
  <2> QED
    BY <2>1, <2>2 DEF Sound
<1> DEFINE Bad == {d \in 0 .. depth : ~Sound(files, entry, path, L[d])}
<1>3. Bad = {}
  <2> SUFFICES ASSUME Bad # {} PROVE FALSE
    OBVIOUS
  <2>1. PICK d \in Bad : \A m \in Bad : d <= m
    <3>1. Bad \in SUBSET Nat
      OBVIOUS
    <3> HIDE DEF Bad
    <3> QED
      BY <3>1, LeastNatural
  <2>2. d # 0
    BY <1>2, <2>1
  <2>3. d \in 1 .. depth /\ d - 1 \in 0 .. depth /\ d - 1 \notin Bad
    BY <2>1, <2>2
  <2>4. Sound(files, entry, path, L[d - 1])
    BY <2>3
  <2>5. L[d] = MoreExports(files, L[d - 1])
    BY <1>1, <2>3
  <2>6. Sound(files, entry, path, L[d])
    BY <2>4, <2>5, SoundStep
  <2> QED
    BY <2>1, <2>6
<1>4. depth \in 0 .. depth
  OBVIOUS
<1> QED
  BY <1>1, <1>3, <1>4

\* The functions of a member of another file are its own.
LEMMA FunctionsOfOthers ==
    ASSUME NEW files, NEW entry, NEW path, Sealed(files, entry, path),
           NEW exported, Sound(files, entry, path, exported),
           NEW v \in ValuesOfAll(files, Others(files, entry, path))
    PROVE  Functions(exported, v) \subseteq BlocksOf(files, Others(files, entry, path))
<1> DEFINE some == Others(files, entry, path)
<1>1. some \in SUBSET DOMAIN files /\ \A p \in some : IsModule(files, files[p])
  BY DEF Others, Sealed
<1>2. \A w \in ValuesOfAll(files, some) : w.path \in some /\ (w.block = 0 \/ w \in BlocksOf(files, some))
  BY <1>1, BlocksAre
<1>3. \A x \in exported[v.path] : x.value \in ValuesOfAll(files, some)
  BY <1>2 DEF Sound
<1>4. CASE v.block # 0
  BY <1>2, <1>4 DEF Functions
<1>5. CASE v.block = 0
  BY <1>2, <1>3, <1>5 DEF Functions
<1> QED
  BY <1>4, <1>5

\* A function that uses only other files calls only theirs and its own file's.
LEMMA CalleesAre ==
    ASSUME NEW files, NEW entry, NEW path, Sealed(files, entry, path),
           NEW exported, Sound(files, entry, path, exported),
           NEW p \in DOMAIN files, NEW i \in DOMAIN files[p].blocks,
           \A b \in files[p].binds : b.local \in files[p].blocks[i].uses =>
               b.module \in Others(files, entry, path),
           \A l \in files[p].blocks[i].loads : l.module \in Others(files, entry, path),
           NEW v \in Callees(files, exported, FunctionValue(p, i))
    PROVE  \/ v \in BlocksOf(files, Others(files, entry, path))
           \/ \E u \in files[p].blocks[i].uses : v \in Local(files[p], p, u)
<1> DEFINE others == BlocksOf(files, Others(files, entry, path))
           block == files[p].blocks[i]
           uses == block.uses \ {block.alias}
           functions(q, m) == UNION {Functions(exported, w) : w \in Member(exported, q, m)}
<1>1. ASSUME NEW q \in Others(files, entry, path), NEW m PROVE functions(q, m) \subseteq others
  <2>1. \A w \in Member(exported, q, m) : w \in ValuesOfAll(files, Others(files, entry, path))
    BY MembersOfOthers
  <2> QED
    BY <2>1, FunctionsOfOthers
<1>2. FunctionValue(p, i).path = p /\ FunctionValue(p, i).block = i
  BY DEF FunctionValue
<1>3. \/ \E u \in block.uses : v \in Local(files[p], p, u)
      \/ \E b \in files[p].binds : b.local \in block.uses /\ v \in functions(b.module, b.member)
      \/ \E l \in block.loads : v \in functions(l.module, l.member)
  <2>1. Callees(files, exported, FunctionValue(p, i)) =
            (UNION {Local(files[p], p, u) : u \in uses})
            \cup (UNION {functions(b.module, b.member) : b \in {x \in files[p].binds : x.local \in uses}})
            \cup UNION {functions(l.module, l.member) : l \in block.loads}
    BY <1>2, Zenon DEF Callees
  <2> HIDE DEF functions, block
  <2> QED
    BY <2>1
<1> HIDE DEF functions, others
<1> QED
  BY <1>1, <1>3 DEF others

\* The other files stay among themselves.
LEMMA OthersStay ==
    ASSUME NEW files, NEW entry, NEW path, Sealed(files, entry, path),
           NEW exported, Sound(files, entry, path, exported),
           NEW v \in BlocksOf(files, Others(files, entry, path))
    PROVE  Callees(files, exported, v) \subseteq BlocksOf(files, Others(files, entry, path))
<1> DEFINE some == Others(files, entry, path)
<1>1. some \in SUBSET DOMAIN files /\ \A p \in some : IsModule(files, files[p])
  BY DEF Others, Sealed
<1>2. PICK p, i : /\ p \in some /\ i \in DOMAIN files[p].blocks /\ v = FunctionValue(p, i)
  BY <1>1, BlocksAre
<1>3. p \in DOMAIN files /\ p # entry
  BY <1>2 DEF Others
<1>4. /\ \A b \in files[p].binds : b.module \in some
      /\ \A l \in files[p].blocks[i].loads : l.module \in some
  BY <1>2, <1>3, OthersRequireOthers
<1>5. ASSUME NEW w \in Callees(files, exported, v) PROVE w \in BlocksOf(files, some)
  <2>1. w \in BlocksOf(files, some) \/ \E u \in files[p].blocks[i].uses : w \in Local(files[p], p, u)
    BY <1>2, <1>3, <1>4, <1>5, CalleesAre
  <2>2. \A u : Local(files[p], p, u) \subseteq BlocksOf(files, some)
    BY <1>2 DEF Local, BlocksOf
  <2> QED
    BY <2>1, <2>2
<1> QED
  BY <1>5

\* What a function of the file reaches in it is that function, or one that some
\* other block of the file uses by its name.
UsedByAnother(files, path, v) ==
    \E b \in DOMAIN files[path].blocks :
        b # v.block /\ files[path].blocks[v.block].name \in files[path].blocks[b].uses

LEMMA OwnReach ==
    ASSUME NEW files, NEW entry, NEW path, Sealed(files, entry, path), IsFiniteSet(AllBlocks(files)),
           NEW exported, Sound(files, entry, path, exported), NEW from \in BlocksOf(files, {path}),
           NEW v \in Reachable(files, exported, {from}), v.path = path
    PROVE  v \in BlocksOf(files, {path}) /\ (v = from \/ UsedByAnother(files, path, v))
<1> DEFINE some == Others(files, entry, path)
           mine == {w \in BlocksOf(files, {path}) : w = from \/ UsedByAnother(files, path, w)}
           Within == BlocksOf(files, some) \cup mine
<1>1. path \in DOMAIN files /\ IsModule(files, files[path])
  BY DEF Sealed
<1>2. some \in SUBSET DOMAIN files /\ \A p \in some : IsModule(files, files[p])
  BY DEF Others, Sealed
<1>3. \A w \in BlocksOf(files, {path}) :
          /\ w.path = path /\ w.block \in DOMAIN files[path].blocks /\ w = FunctionValue(path, w.block)
  <2>1. {path} \in SUBSET DOMAIN files /\ \A p \in {path} : IsModule(files, files[p])
    BY <1>1
  <2> QED
    BY <2>1, BlocksAre
<1>4. ASSUME NEW w \in Within PROVE Callees(files, exported, w) \subseteq Within
  <2>1. CASE w \in BlocksOf(files, some)
    <3>1. Callees(files, exported, w) \subseteq BlocksOf(files, some)
      BY <2>1, OthersStay
    <3> QED
      BY <3>1
  <2>2. CASE w \in mine
    <3>1. w.block \in DOMAIN files[path].blocks /\ w = FunctionValue(path, w.block)
      BY <1>3, <2>2
    <3>2. path # entry \/ path = entry
      OBVIOUS
    <3>3. /\ \A b \in files[path].binds : b.module \in some
          /\ \A l \in files[path].blocks[w.block].loads : l.module \in some
      BY <1>1, <3>1, <3>2, OthersRequireOthers
    <3>4. ASSUME NEW c \in Callees(files, exported, w) PROVE c \in Within
      <4>1. \/ c \in BlocksOf(files, some)
            \/ \E u \in files[path].blocks[w.block].uses : c \in Local(files[path], path, u)
        BY <1>1, <3>1, <3>3, <3>4, CalleesAre
      <4>2. ASSUME NEW u \in files[path].blocks[w.block].uses, c \in Local(files[path], path, u)
            PROVE  c \in mine
        <5>1. PICK k \in FunctionBlocks(files[path]) :
                  files[path].blocks[k].name = u /\ c = FunctionValue(path, k)
          BY <4>2 DEF Local
        <5>2. c \in BlocksOf(files, {path}) /\ c.block = k
          BY <5>1 DEF BlocksOf, FunctionValue
        <5>3. CASE k = w.block
          BY <2>2, <3>1, <5>1, <5>3
        <5>4. CASE k # w.block
          <6>1. UsedByAnother(files, path, c)
            BY <3>1, <4>2, <5>1, <5>2, <5>4 DEF UsedByAnother
          <6> QED
            BY <5>2, <6>1
        <5> QED
          BY <5>3, <5>4
      <4> HIDE DEF mine
      <4> QED
        BY <4>1, <4>2
    <3> HIDE DEF Within
    <3> QED
      BY <3>4
  <2> QED
    BY <1>4, <2>1, <2>2
<1>5. {from} \subseteq Within
  OBVIOUS
<1>6. Reachable(files, exported, {from}) \subseteq Within
  <2> HIDE DEF Within
  <2> QED
    BY <1>4, <1>5, ReachStays
<1>7. v \notin BlocksOf(files, some)
  <2>1. \A w \in BlocksOf(files, some) : w.path \in some
    BY <1>2, BlocksAre
  <2> QED
    BY <2>1 DEF Others
<1> QED
  BY <1>6, <1>7

\* The other files do not reach the file.
LEMMA OthersDoNotReach ==
    ASSUME NEW files, NEW entry, NEW path, Sealed(files, entry, path), IsFiniteSet(AllBlocks(files)),
           NEW exported, Sound(files, entry, path, exported),
           NEW from \in BlocksOf(files, Others(files, entry, path)),
           NEW v \in Reachable(files, exported, {from})
    PROVE  v.path # path
<1> DEFINE some == Others(files, entry, path)
           Within == BlocksOf(files, some)
<1>1. some \in SUBSET DOMAIN files /\ \A p \in some : IsModule(files, files[p])
  BY DEF Others, Sealed
<1>2. \A w \in Within : w.path \in some
  BY <1>1, BlocksAre
<1>3. \A w \in Within : Callees(files, exported, w) \subseteq Within
  BY OthersStay
<1>4. Reachable(files, exported, {from}) \subseteq Within
  <2>1. {from} \subseteq Within
    OBVIOUS
  <2> HIDE DEF Within
  <2> QED
    BY <1>3, <2>1, ReachStays
<1> QED
  BY <1>2, <1>4 DEF Others

\* The entry module's own functions reach the file only through a binding one of
\* its blocks uses.
LEMMA EntryReach ==
    ASSUME NEW files, NEW entry, NEW path, Sealed(files, entry, path), IsFiniteSet(AllBlocks(files)),
           path # entry, ~BoundAndUsed(files[entry], path),
           NEW exported, Sound(files, entry, path, exported),
           NEW from \in BlocksOf(files, {entry}),
           NEW v \in Reachable(files, exported, {from})
    PROVE  v.path # path
<1> DEFINE some == Others(files, entry, path)
           f == files[entry]
           Within == BlocksOf(files, some) \cup BlocksOf(files, {entry})
<1>1. some \in SUBSET DOMAIN files /\ \A p \in some : IsModule(files, files[p])
  BY DEF Others, Sealed
<1>2. entry \in DOMAIN files /\ IsModule(files, f)
  BY DEF Sealed
<1>3. \A w \in BlocksOf(files, {entry}) :
          /\ w.path = entry /\ w.block \in DOMAIN f.blocks /\ w.block # 0 /\ w = FunctionValue(entry, w.block)
  <2>1. {entry} \in SUBSET DOMAIN files /\ \A p \in {entry} : IsModule(files, files[p])
    BY <1>2
  <2> QED
    BY <2>1, BlocksAre
<1>4. ASSUME NEW w \in BlocksOf(files, {entry}) PROVE Callees(files, exported, w) \subseteq Within
  <2>1. w.block \in DOMAIN f.blocks /\ w.block # 0 /\ w = FunctionValue(entry, w.block)
    BY <1>3
  <2>2. ASSUME NEW b \in f.binds, b.local \in f.blocks[w.block].uses PROVE b.module \in some
    <3>1. UsedOutside(f, b.local, 0)
      BY <2>1, <2>2 DEF UsedOutside
    <3>2. b.module # path
      BY <3>1 DEF BoundAndUsed
    <3> QED
      BY <3>2, EntryRequires
  <2>3. \A l \in f.blocks[w.block].loads : l.module \in some
    BY <2>1, EntryRequires
  <2>4. ASSUME NEW c \in Callees(files, exported, w) PROVE c \in Within
    <3>1. \/ c \in BlocksOf(files, some)
          \/ \E u \in f.blocks[w.block].uses : c \in Local(f, entry, u)
      BY <1>2, <2>1, <2>2, <2>3, <2>4, CalleesAre
    <3>2. \A u : Local(f, entry, u) \subseteq BlocksOf(files, {entry})
      BY DEF Local, BlocksOf
    <3> QED
      BY <3>1, <3>2
  <2> QED
    BY <2>4
<1>5. \A w \in BlocksOf(files, some) : Callees(files, exported, w) \subseteq Within
  <2>1. \A w \in BlocksOf(files, some) : Callees(files, exported, w) \subseteq BlocksOf(files, some)
    BY OthersStay
  <2> QED
    BY <2>1
<1>6. \A w \in Within : Callees(files, exported, w) \subseteq Within
  <2>1. \A w \in Within : w \in BlocksOf(files, some) \/ w \in BlocksOf(files, {entry})
    OBVIOUS
  <2> HIDE DEF Within
  <2> QED
    BY <1>4, <1>5, <2>1
<1>7. {from} \subseteq Within
  OBVIOUS
<1>8. Reachable(files, exported, {from}) \subseteq Within
  <2> HIDE DEF Within
  <2> QED
    BY <1>6, <1>7, ReachStays
<1>9. \A w \in BlocksOf(files, some) : w.path \in some
  BY <1>1, BlocksAre
<1> QED
  BY <1>3, <1>8, <1>9 DEF Others

\* The names of the file that reach one of a candidate's owners.
OwnersOf(f, symbol) == {Owner(f, s) : s \in SpansOf(f, symbol)}
NamesOf(f, symbol) == UNION {OwnerNames(f, o).names : o \in OwnersOf(f, symbol)}

\* The owner of a span is the function of its block.
LEMMA OwnerIs ==
    ASSUME NEW f, NEW symbol, NEW s \in SpansOf(f, symbol)
    PROVE  /\ s.block \in FunctionBlocks(f)
           /\ Owner(f, s) \in OwnersOf(f, symbol)
           /\ Owner(f, s).name = f.blocks[s.block].name
           /\ Owner(f, s).block = s.block
<1>1. s \in Spans(f)
  BY DEF SpansOf
<1>2. ~Minified(f)
  BY <1>1 DEF Spans
<1> DEFINE outer(i) == Span(f.blocks[i].name, f.blocks[i].alias, i, StartLine(f, i), EndLine(f, i), 0)
           inner(i) == Span(f.blocks[i].inner, NoName, i, EndLine(f, i), EndLine(f, i), 1)
<1>3. \A t : t \in Spans(f) <=> \/ \E i \in FunctionBlocks(f) : t = outer(i)
                                \/ \E i \in FunctionBlocks(f) : f.blocks[i].inner # NoName /\ t = inner(i)
  BY <1>2 DEF Spans
<1>4. \A i : /\ outer(i).block = i /\ outer(i).depth = 0 /\ outer(i).name = f.blocks[i].name
             /\ inner(i).block = i /\ inner(i).depth = 1
  BY DEF Span
<1> HIDE DEF outer, inner
<1>5. s.block \in FunctionBlocks(f)
  BY <1>1, <1>3, <1>4
<1>6. \E o \in Spans(f) : o.block = s.block /\ o.depth = 0
  BY <1>3, <1>4, <1>5
<1>7. Owner(f, s) \in Spans(f) /\ Owner(f, s).block = s.block /\ Owner(f, s).depth = 0
  BY <1>6 DEF Owner
<1>8. \A o \in Spans(f) : o.depth = 0 => o.name = f.blocks[o.block].name
  BY <1>3, <1>4
<1> QED
  BY <1>5, <1>7, <1>8 DEF OwnersOf

\* A name of the file whose function reaches the candidate is one of those.
LEMMA OwnNameIsKnown ==
    ASSUME NEW files, NEW entry, NEW path, Sealed(files, entry, path), IsFiniteSet(AllBlocks(files)),
           NEW exported, Sound(files, entry, path, exported), NEW symbol,
           NEW x, Own(files, path, x),
           Reachable(files, exported, {x.value}) \cap Holding(files, symbol, path) # {}
    PROVE  x.name \in NamesOf(files[path], symbol)
<1> DEFINE f == files[path]
<1>1. PICK s \in SpansOf(f, symbol) : FunctionValue(path, s.block) \in Reachable(files, exported, {x.value})
  BY DEF Holding
<1>2. PICK v : v = FunctionValue(path, s.block)
  OBVIOUS
<1>3. v.path = path /\ v.block = s.block
  BY <1>2 DEF FunctionValue
<1>4. x.value \in BlocksOf(files, {path})
  BY DEF Own
<1>5. v = x.value \/ UsedByAnother(files, path, v)
  BY <1>1, <1>2, <1>3, <1>4, OwnReach
<1>6. PICK o \in OwnersOf(f, symbol) : o.name = f.blocks[s.block].name /\ o.block = s.block
  BY OwnerIs
<1> DEFINE local == f.blocks[x.value.block].name
           n == [name |-> x.name, target |-> Target(local, NoFile, Whole)]
<1>7. n \in Names(f) /\ x.name # "*" /\ local # NoName
  BY DEF Own
<1>8. x.name \in AllNames(f)
  BY <1>7 DEF AllNames
<1>9. OwnerNames(f, o).names = ExportsOf(f, o) \/ OwnerNames(f, o).names = AllNames(f)
  BY DEF OwnerNames
<1>10. CASE v = x.value
  <2>1. o.name = local
    BY <1>3, <1>6, <1>10
  <2>2. n.target.local = local /\ n.name = x.name
    BY DEF Target
  <2>3. x.name \in ExportsOf(f, o)
    <3> HIDE DEF n, local
    <3> QED
      BY <1>7, <2>1, <2>2 DEF ExportsOf, SpanNames
  <2> QED
    BY <1>6, <1>8, <1>9, <2>3 DEF NamesOf
<1>11. CASE UsedByAnother(files, path, v)
  <2>1. PICK b \in DOMAIN f.blocks : b # s.block /\ o.name \in f.blocks[b].uses
    BY <1>3, <1>6, <1>11 DEF UsedByAnother
  <2>2. o.name \notin {NoName, "default"}
    <3>1. IsModule(files, f)
      BY DEF Sealed
    <3> QED
      BY <2>1, <3>1 DEF IsModule
  <2>3. UsedOutside(f, o.name, o.block)
    BY <1>6, <2>1 DEF UsedOutside
  <2>4. OwnerNames(f, o).names = AllNames(f)
    BY <2>2, <2>3 DEF OwnerNames, SpanNames
  <2> QED
    BY <1>6, <1>8, <2>4 DEF NamesOf
<1> QED
  BY <1>5, <1>10, <1>11

-----------------------------------------------------------------------------
\* A name of the surface that reaches the candidate: where it comes from.
LEMMA SurfaceReaches ==
    ASSUME NEW files, NEW entry, NEW path, Sealed(files, entry, path), IsFiniteSet(AllBlocks(files)),
           NEW exported, Sound(files, entry, path, exported), NEW symbol,
           NEW v \in ValuesOfAll(files, Others(files, entry, path)), v.block # 0
    PROVE  Reachable(files, exported, {v}) \cap Holding(files, symbol, path) = {}
<1>1. v \in BlocksOf(files, Others(files, entry, path))
  <2>1. Others(files, entry, path) \in SUBSET DOMAIN files
        /\ \A p \in Others(files, entry, path) : IsModule(files, files[p])
    BY DEF Others, Sealed
  <2> QED
    BY <2>1, BlocksAre
<1>2. \A w \in Reachable(files, exported, {v}) : w.path # path
  BY <1>1, OthersDoNotReach
<1>3. \A w \in Holding(files, symbol, path) : w.path = path
  BY DEF Holding, FunctionValue
<1> QED
  BY <1>2, <1>3

\* What an application gets under a name of a file: the function, or the members
\* of the module.
Under(exported, x) ==
    IF x.value.block # 0 THEN {x}
    ELSE {IF y.name = "default" THEN Name(x.name, y.value) ELSE y :
             y \in {z \in exported[x.value.path] : z.value.block # 0}}

\* An application's way to the candidate through a name of the file itself.
LEMMA ThroughTheFile ==
    ASSUME NEW files, NEW entry, NEW path, Sealed(files, entry, path), IsFiniteSet(AllBlocks(files)),
           NEW exported, Sound(files, entry, path, exported), NEW symbol,
           NEW x \in exported[path], NEW y \in Under(exported, x),
           Reachable(files, exported, {y.value}) \cap Holding(files, symbol, path) # {}
    PROVE  y.name \in NamesOf(files[path], symbol)
<1> DEFINE some == Others(files, entry, path)
<1>1. some \in SUBSET DOMAIN files /\ \A p \in some : IsModule(files, files[p])
  BY DEF Others, Sealed
<1>2. \A v \in ValuesOfAll(files, some) : v.path \in some
  BY <1>1, BlocksAre
<1>3. CASE x.value \in ValuesOfAll(files, some)
  <2>1. y.value \in ValuesOfAll(files, some) /\ y.value.block # 0
    <3>1. CASE x.value.block # 0
      BY <1>3, <3>1 DEF Under
    <3>2. CASE x.value.block = 0
      <4>1. \A z \in exported[x.value.path] : z.value \in ValuesOfAll(files, some)
        BY <1>2, <1>3 DEF Sound
      <4>2. PICK z \in exported[x.value.path] : z.value.block # 0 /\ y.value = z.value
        BY <3>2 DEF Under, Name
      <4> QED
        BY <4>1, <4>2
    <3> QED
      BY <3>1, <3>2
  <2> QED
    BY <2>1, SurfaceReaches
<1>4. CASE Own(files, path, x)
  <2>1. x.value \in BlocksOf(files, {path})
    BY <1>4 DEF Own
  <2>2. x.value.block # 0
    <3>1. {path} \in SUBSET DOMAIN files /\ \A p \in {path} : IsModule(files, files[p])
      BY DEF Sealed
    <3> QED
      BY <2>1, <3>1, BlocksAre
  <2>3. y = x
    BY <2>2 DEF Under
  <2> QED
    BY <1>4, <2>3, OwnNameIsKnown
<1> QED
  BY <1>3, <1>4 DEF Sound

\* Through a name of another file there is no way.
LEMMA NotThroughOthers ==
    ASSUME NEW files, NEW entry, NEW path, Sealed(files, entry, path), IsFiniteSet(AllBlocks(files)),
           NEW exported, Sound(files, entry, path, exported), NEW symbol,
           NEW x, x.value \in ValuesOfAll(files, Others(files, entry, path)),
           NEW y \in Under(exported, x)
    PROVE  Reachable(files, exported, {y.value}) \cap Holding(files, symbol, path) = {}
<1> DEFINE some == Others(files, entry, path)
<1>1. some \in SUBSET DOMAIN files /\ \A p \in some : IsModule(files, files[p])
  BY DEF Others, Sealed
<1>2. \A v \in ValuesOfAll(files, some) : v.path \in some
  BY <1>1, BlocksAre
<1>3. y.value \in ValuesOfAll(files, some) /\ y.value.block # 0
  <2>1. CASE x.value.block # 0
    BY <2>1 DEF Under
  <2>2. CASE x.value.block = 0
    <3>1. \A z \in exported[x.value.path] : z.value \in ValuesOfAll(files, some)
      BY <1>2 DEF Sound
    <3>2. PICK z \in exported[x.value.path] : z.value.block # 0 /\ y.value = z.value
      BY <2>2 DEF Under, Name
    <3> QED
      BY <3>1, <3>2
  <2> QED
    BY <2>1, <2>2
<1> QED
  BY <1>3, SurfaceReaches

\* The names the entry module gives to what is in the file.
RoutesOf(files, entry, path, names) ==
    (UNION {RouteNames(n, names) : n \in {m \in Names(files[entry]) : m.target.module = path}})
    \cup (IF BoundAndUsed(files[entry], path) THEN AllNames(files[entry]) ELSE {})

LEMMA ThroughTheEntry ==
    ASSUME NEW files, NEW entry, NEW path, Sealed(files, entry, path), IsFiniteSet(AllBlocks(files)),
           path # entry,
           NEW exported, Sound(files, entry, path, exported), NEW symbol,
           NEW x \in exported[entry], NEW y \in Under(exported, x),
           Reachable(files, exported, {y.value}) \cap Holding(files, symbol, path) # {}
    PROVE  y.name \in RoutesOf(files, entry, path, NamesOf(files[path], symbol))
<1> DEFINE some == Others(files, entry, path)
           names == NamesOf(files[path], symbol)
           routes == RoutesOf(files, entry, path, names)
<1>0. \A p \in DOMAIN files : \A v \in BlocksOf(files, {p}) : v.block # 0
  <2> SUFFICES ASSUME NEW p \in DOMAIN files PROVE \A v \in BlocksOf(files, {p}) : v.block # 0
    OBVIOUS
  <2>1. {p} \in SUBSET DOMAIN files /\ \A q \in {p} : IsModule(files, files[q])
    BY DEF Sealed
  <2> QED
    BY <2>1, BlocksAre
<1>1. entry \in DOMAIN files /\ path \in DOMAIN files
  BY DEF Sealed
<1>2. \A n \in Names(files[entry]) : n.target.module = path => RouteNames(n, names) \subseteq routes
  BY DEF RoutesOf
<1>3. x.value \notin ValuesOfAll(files, some)
  BY NotThroughOthers
<1>4. CASE Own(files, entry, x)
  <2>1. x.value \in BlocksOf(files, {entry})
    BY <1>4 DEF Own
  <2>2. y = x
    BY <1>0, <1>1, <2>1 DEF Under
  <2>3. BoundAndUsed(files[entry], path)
    <3>1. PICK v \in Reachable(files, exported, {x.value}) : v.path = path
      BY <2>2 DEF Holding, FunctionValue
    <3> QED
      BY <2>1, <3>1, EntryReach
  <2>4. x.name \in AllNames(files[entry])
    <3> DEFINE n == [name |-> x.name,
                     target |-> Target(files[entry].blocks[x.value.block].name, NoFile, Whole)]
    <3>1. n \in Names(files[entry]) /\ n.name = x.name /\ x.name # "*"
      BY <1>4 DEF Own
    <3> QED
      BY <3>1 DEF AllNames
  <2> QED
    BY <2>2, <2>3, <2>4 DEF RoutesOf
<1>5. CASE Passed(files, entry, path, x)
  <2>1. PICK n \in Names(files[entry]) :
        /\ n.target.module = path
        /\ \/ n.name = "*" /\ Own(files, path, x)
           \/ n.name = x.name /\ x.name # "*" /\ n.target.member = Whole /\ x.value = ModuleValue(path)
           \/ /\ n.name = x.name /\ x.name # "*" /\ n.target.member # Whole
              /\ Own(files, path, Name(n.target.member, x.value))
    BY <1>5 DEF Passed
  <2>2. RouteNames(n, names) \subseteq routes
    BY <1>2, <2>1
  <2> SUFFICES y.name \in RouteNames(n, names)
    BY <2>2
  <2>3. CASE n.name = "*" /\ Own(files, path, x)
    <3>1. y = x
      BY <1>0, <1>1, <2>3 DEF Under, Own
    <3>2. x.name \in names
      BY <2>3, <3>1, OwnNameIsKnown
    <3> QED
      BY <2>3, <3>1, <3>2 DEF RouteNames
  <2>4. CASE n.name = x.name /\ x.name # "*" /\ n.target.member = Whole /\ x.value = ModuleValue(path)
    <3>1. x.value.block = 0 /\ x.value.path = path
      BY <2>4 DEF ModuleValue
    <3>2. PICK z \in exported[path] : /\ z.value.block # 0
                                      /\ y = IF z.name = "default" THEN Name(x.name, z.value) ELSE z
      BY <3>1 DEF Under
    <3>3. y.value = z.value
      BY <3>2 DEF Name
    <3>4. z \in Under(exported, z)
      BY <3>2 DEF Under
    <3>5. z.name \in names
      BY <3>3, <3>4, ThroughTheFile
    <3>6. RouteNames(n, names) = {n.name} \cup (names \ {"default"})
      BY <2>4 DEF RouteNames
    <3>7. CASE z.name = "default"
      <4>1. y.name = x.name
        BY <3>2, <3>7 DEF Name
      <4> QED
        BY <2>4, <3>6, <4>1
    <3>8. CASE z.name # "default"
      BY <3>2, <3>5, <3>6, <3>8
    <3> QED
      BY <3>7, <3>8
  <2>5. CASE /\ n.name = x.name /\ x.name # "*" /\ n.target.member # Whole
             /\ Own(files, path, Name(n.target.member, x.value))
    <3> DEFINE z == Name(n.target.member, x.value)
    <3>1. z.name = n.target.member /\ z.value = x.value
      BY DEF Name
    <3> HIDE DEF z
    <3>2. y = x
      BY <1>0, <1>1, <2>5, <3>1 DEF Under, Own, z
    <3>3. z.name \in names
      BY <2>5, <3>1, <3>2, OwnNameIsKnown DEF z
    <3> QED
      BY <2>5, <3>1, <3>2, <3>3 DEF RouteNames
  <2> QED
    BY <2>1, <2>3, <2>4, <2>5
<1> QED
  BY <1>3, <1>4, <1>5 DEF Sound

-----------------------------------------------------------------------------
\* What is known of a package whose closed candidate is in a file below the entry.
LEMMA ClosedIsSealed ==
    ASSUME NEW tb, IsPackage(tb), NEW path, NEW symbol,
           BuildPackageModel(tb) # NoModel,
           Closed(Resolve(BuildPackageModel(tb), symbol, path)), EntryIsTheTop(tb, path)
    PROVE  /\ Sealed(tb.files, Entry(tb), path)
           /\ ~Problems(tb)
           /\ JoinNames(Resolve(BuildPackageModel(tb), symbol, path), symbol)
                 = PublicNames(BuildPackageModel(tb), path, NamesOf(tb.files[path], symbol)).names
<1> DEFINE pm == BuildPackageModel(tb)
           f == pm.files[path]
           entry == Entry(tb)
           files == tb.files
           names == NamesOf(f, symbol)
           public == PublicNames(pm, path, names)
           v == Resolve(pm, symbol, path)
<1>1. /\ pm.entry = entry /\ pm.files = files /\ pm.problems = Problems(tb) /\ entry # NoFile
  BY DEF BuildPackageModel
<1>2. entry \in DOMAIN files
  BY <1>1 DEF Entry, Resolved
<1> DEFINE complete == /\ public.complete
                       /\ \A o \in OwnersOf(f, symbol) : SpanNames(o) \cap UsedOnLoad(f) = {}
                       /\ Definers(pm, symbol) \subseteq {path}
                       /\ ~pm.problems
<1>3. /\ path \in DOMAIN files
      /\ \/ v = Visibility("public", {}, TRUE) /\ complete /\ public.names = {symbol}
         \/ v = Visibility("internal", public.names, complete)
         \/ v = Unknown
  <2>1. path \notin DOMAIN files => v = Unknown
    BY <1>1 DEF Resolve
  <2>2. Unknown.kind = "unknown"
    BY DEF Unknown, Visibility
  <2>3. ~Closed(Unknown)
    BY <2>2 DEF Closed
  <2>4. path \in DOMAIN files
    BY <2>1, <2>3
  <2>5. \/ v = Visibility("public", {}, TRUE) /\ complete /\ public.names = {symbol}
        \/ v = Visibility("internal", public.names, complete)
        \/ v = Unknown
    <3>1. \A any : \/ Resolve(any, symbol, path) = Unknown
                   \/ LET g == any.files[path]
                          given == PublicNames(any, path, NamesOf(g, symbol))
                          all == /\ given.complete
                                 /\ \A o \in OwnersOf(g, symbol) : SpanNames(o) \cap UsedOnLoad(g) = {}
                                 /\ Definers(any, symbol) \subseteq {path}
                                 /\ ~any.problems
                      IN  \/ /\ Resolve(any, symbol, path) = Visibility("public", {}, TRUE)
                             /\ all /\ given.names = {symbol}
                          \/ Resolve(any, symbol, path) = Visibility("internal", given.names, all)
      BY Zenon DEF Resolve, NamesOf, OwnersOf
    <3> HIDE DEF pm
    <3> QED
      BY <3>1, Zenon
  <2> QED
    BY <2>4, <2>5
<1> HIDE DEF v
<1>4. complete /\ JoinNames(v, symbol) = public.names
  <2>1. Unknown.kind = "unknown"
    BY DEF Unknown, Visibility
  <2>2. ~Closed(Unknown)
    BY <2>1 DEF Closed
  <2>3. Closed(v)
    BY DEF v
  <2> HIDE DEF public, complete
  <2>4. CASE v = Visibility("public", {}, TRUE) /\ complete /\ public.names = {symbol}
    BY <2>4 DEF JoinNames, Visibility
  <2>5. CASE v = Visibility("internal", public.names, complete)
    BY <2>3, <2>5 DEF JoinNames, Visibility, Closed
  <2> QED
    BY <1>3, <2>2, <2>3, <2>4, <2>5
<1>5. ~Problems(tb)
  BY <1>1, <1>4
<1>6. /\ ~Dynamic(files[path]) /\ ~Dynamic(files[entry])
      /\ IF path = entry THEN Importers(pm, path) = {} ELSE Importers(pm, path) \subseteq {entry}
  <2>1. public.complete
    BY <1>4
  <2> HIDE DEF pm
  <2> QED
    BY <1>1, <2>1 DEF PublicNames
<1>7. \A p \in DOMAIN files : path \in Requires(files[p]) => p = entry
  <2> HIDE DEF pm
  <2> QED
    BY <1>1, <1>6 DEF Importers
<1>8. \A p \in DOMAIN files : IsModule(files, files[p]) /\ ~Minified(files[p])
  BY <1>5 DEF IsPackage, Problems, Minified
<1>9. /\ \A p \in DOMAIN files : entry \notin Requires(files[p])
      /\ \A i \in DOMAIN files[entry].blocks : \A l \in files[entry].blocks[i].loads : l.module # path
  BY DEF EntryIsTheTop
<1>10. NoFile \notin DOMAIN files
  BY DEF IsPackage
<1>11. Sealed(files, entry, path)
  BY <1>2, <1>3, <1>6, <1>7, <1>8, <1>9, <1>10 DEF Sealed
<1>12. names = NamesOf(files[path], symbol)
  BY <1>1
<1> HIDE DEF pm, names
<1> QED
  BY <1>4, <1>5, <1>11, <1>12 DEF v, pm

\* Two targets are more than one.
LEMMA OneTarget ==
    ASSUME NEW S, IsFiniteSet(S), ~(Cardinality(S) > 1), NEW x \in S, NEW y \in S
    PROVE  x = y
<1> SUFFICES ASSUME x # y PROVE FALSE
  OBVIOUS
<1>1. IsFiniteSet({x}) /\ Cardinality({x}) = 1
  BY FS_Singleton
<1>2. IsFiniteSet({x} \cup {y}) /\ Cardinality({x} \cup {y}) = 2
  <2> DEFINE one == {x}
  <2>1. y \notin one /\ IsFiniteSet(one) /\ Cardinality(one) = 1
    BY <1>1
  <2> HIDE DEF one
  <2>2. /\ IsFiniteSet(one \cup {y})
        /\ Cardinality(one \cup {y}) = IF y \in one THEN Cardinality(one) ELSE Cardinality(one) + 1
    BY <2>1, FS_AddElement
  <2> QED
    BY <2>1, <2>2 DEF one
<1>3. ({x} \cup {y}) \in SUBSET S
  OBVIOUS
<1>4. Cardinality({x} \cup {y}) <= Cardinality(S)
  BY <1>3, FS_Subset
<1>5. Cardinality(S) \in Nat
  BY FS_CardinalityType
<1> QED
  BY <1>2, <1>4, <1>5

\* A file an application can load is the entry module, or one the code takes to
\* be importable by its path.
LEMMA LoadableIsKnown ==
    ASSUME NEW tb, IsPackage(tb), BuildPackageModel(tb) # NoModel, ~Problems(tb),
           NEW path \in PublicFiles(tb), path # Entry(tb)
    PROVE  LET pm == BuildPackageModel(tb) IN pm.deep \/ path \in pm.subpaths
<1> DEFINE pm == BuildPackageModel(tb)
           man == tb.manifest
           map == ExportsMap(man, tb.files)
           of(key) == {e \in man.exports : e.key = key}
           pattern == \E e \in man.exports : e.key = "pattern"
           targets == UNION {{e.targets[c] : c \in DOMAIN e.targets} : e \in man.exports}
<1>1. /\ pm.deep = (IF man.exports = NoExports THEN TRUE ELSE map.pattern)
      /\ pm.subpaths = IF man.exports = NoExports THEN {} ELSE map.subs
  BY DEF BuildPackageModel
<1>2. /\ map.dot = {ConditionTarget(e.targets) : e \in of(".")} \ {NoFile}
      /\ map.subs = {Resolved(ConditionTarget(e.targets), tb.files) : e \in of("subpath")} \ {NoFile}
      /\ map.pattern <=> of("pattern") # {}
  BY DEF ExportsMap
<1>3. CASE man.exports = NoExports
  BY <1>1, <1>3
<1>4. CASE pattern /\ man.exports # NoExports
  BY <1>1, <1>2, <1>4
<1>5. CASE ~pattern /\ man.exports # NoExports
  <2>1. path \in (targets \cup {Entry(tb), man.module}) \cap DOMAIN tb.files
    BY <1>5, Zenon DEF PublicFiles
  <2>2. NoFile \notin DOMAIN tb.files
    BY DEF IsPackage
  <2>3. path # man.module
    <3>1. man.module # NoFile => Resolved(man.module, tb.files) = Entry(tb)
      BY DEF Problems
    <3> QED
      BY <2>1, <2>2, <3>1 DEF Resolved
  <2>4. PICK e \in man.exports : path \in {e.targets[c] : c \in DOMAIN e.targets}
    BY <2>1, <2>3
  <2> DEFINE S == {e.targets[c] : c \in DOMAIN e.targets}
  <2>5. ~(Cardinality(S) > 1) /\ ConditionTarget(e.targets) # NoFile
    BY <1>5 DEF Problems, ExportsUnresolved
  <2>6. IsFiniteSet(S) /\ e.key \in {".", "subpath", "pattern"}
    BY <1>5 DEF IsPackage
  <2>7. ConditionTarget(e.targets) \in S
    BY <2>5 DEF ConditionTarget
  <2>8. ConditionTarget(e.targets) = path
    <3> HIDE DEF S
    <3>1. path \in S
      BY <2>4 DEF S
    <3> QED
      BY <2>5, <2>6, <2>7, <3>1, OneTarget
  <2>9. path \in DOMAIN tb.files /\ path # NoFile /\ Resolved(path, tb.files) = path
    BY <2>1, <2>2 DEF Resolved
  <2>10. e.key # "pattern"
    BY <1>5
  <2>11. CASE e.key = "subpath"
    <3>1. path \in map.subs
      BY <1>2, <2>8, <2>9, <2>11
    <3> QED
      BY <1>1, <1>5, <3>1
  <2>12. CASE e.key = "."
    <3>1. of(".") = {e}
      BY <1>5, <2>12 DEF IsPackage
    <3> HIDE DEF of, map
    <3>2. map.dot = {path}
      BY <1>2, <2>8, <2>9, <3>1
    <3>3. Entry(tb) = path
      <4>1. Entry(tb) = Resolved(IF map.dot = {} THEN man.main ELSE CHOOSE d \in map.dot : TRUE, tb.files)
        BY <1>5, Zenon DEF Entry, map
      <4> QED
        BY <2>9, <3>2, <4>1
    <3> QED
      BY <3>3
  <2> QED
    BY <2>6, <2>10, <2>11, <2>12
<1> QED
  BY <1>3, <1>4, <1>5

\* A closed candidate of a package, under an entry module that is its top, names
\* every way an application reaches it.
LEMMA RoutesAreNamed ==
    ASSUME NEW tb, IsPackage(tb), NEW path, NEW symbol,
           BuildPackageModel(tb) # NoModel,
           Closed(Resolve(BuildPackageModel(tb), symbol, path)), EntryIsTheTop(tb, path)
    PROVE  NamesTheRoutes(tb, symbol, path, Resolve(BuildPackageModel(tb), symbol, path))
<1> DEFINE pm == BuildPackageModel(tb)
           entry == Entry(tb)
           files == tb.files
           names == NamesOf(files[path], symbol)
           public == PublicNames(pm, path, names).names
           depth == Cardinality(DOMAIN files) + 1
           exported == Exported(files, depth)
           reaches(v) == Reachable(files, exported, {v}) \cap Holding(files, symbol, path) # {}
<1>1. /\ Sealed(files, entry, path) /\ ~Problems(tb)
      /\ JoinNames(Resolve(pm, symbol, path), symbol) = public
  BY ClosedIsSealed
<1>2. IsFiniteSet(AllBlocks(files)) /\ depth \in Nat
  BY FS_CardinalityType DEF IsPackage
<1>3. Sound(files, entry, path, exported)
  <2> HIDE DEF depth
  <2> QED
    BY <1>1, <1>2, SoundExports
<1>4. pm.entry = entry /\ pm.files = files
  BY DEF BuildPackageModel
<1>5. /\ pm.deep \/ path \in pm.subpaths => names \subseteq public
      /\ path = entry => names \subseteq public
      /\ path # entry => RoutesOf(files, entry, path, names) \subseteq public
  <2> HIDE DEF pm, names
  <2> QED
    BY <1>4 DEF PublicNames, RoutesOf
<1>6. PublicFiles(tb) \subseteq DOMAIN files
  BY DEF PublicFiles
<1> HIDE DEF exported
<1>7. ASSUME NEW p \in PublicFiles(tb), NEW x \in exported[p], NEW y \in Under(exported, x),
             reaches(y.value)
      PROVE  y.name \in public
  <2>1. CASE p = path
    <3>1. y.name \in names
      BY <1>1, <1>2, <1>3, <1>7, <2>1, ThroughTheFile
    <3>2. path = entry \/ pm.deep \/ path \in pm.subpaths
      BY <1>1, <1>7, <2>1, LoadableIsKnown
    <3> HIDE DEF public, names, pm
    <3> QED
      BY <1>5, <3>1, <3>2
  <2>2. CASE p = entry /\ p # path
    <3>1. y.name \in RoutesOf(files, entry, path, names)
      BY <1>1, <1>2, <1>3, <1>7, <2>2, ThroughTheEntry
    <3> HIDE DEF public, names, pm
    <3> QED
      BY <1>5, <2>2, <3>1
  <2>3. CASE p # entry /\ p # path
    <3>1. p \in Others(files, entry, path)
      BY <1>6, <1>7, <2>3 DEF Others
    <3>2. x.value \in ValuesOfAll(files, Others(files, entry, path))
      BY <1>3, <3>1 DEF Sound
    <3> QED
      BY <1>1, <1>2, <1>3, <1>7, <3>2, NotThroughOthers
  <2> QED
    BY <2>1, <2>2, <2>3
<1>8. Surface(tb, exported) = UNION {UNION {Under(exported, x) : x \in exported[p]} : p \in PublicFiles(tb)}
  BY Zenon DEF Surface, Under
<1>9. CalledNames(tb, symbol, path) = {x.name : x \in {y \in Surface(tb, exported) : reaches(y.value)}}
  BY Zenon DEF CalledNames, exported
<1> HIDE DEF reaches, public
<1>10. CalledNames(tb, symbol, path) \subseteq public
  BY <1>7, <1>8, <1>9
<1> QED
  BY <1>1, <1>10 DEF NamesTheRoutes

-----------------------------------------------------------------------------
\* The visibility of a closed candidate is that of its package as published.
Sourced(r, published) ==
    /\ {"candidates", "version"} \subseteq DOMAIN r
    /\ \A c \in r.candidates : Closed(c.visibility) =>
          /\ r.version \in DOMAIN published /\ published[r.version] \notin {Missing, TooLarge}
          /\ BuildPackageModel(published[r.version]) # NoModel
          /\ c.visibility = Resolve(BuildPackageModel(published[r.version]), c.symbol, c.path)

\* The attempts hold the vulnerable tarball or none, and the results what was
\* read in it.
Published == scenario.world.tarballs

Placing ==
    /\ work.attempts \in Seq({work.attempts[i] : i \in DOMAIN work.attempts})
    /\ \A i \in DOMAIN work.attempts : work.attempts[i].tarball \in {Missing, Published[Current.version]}
    /\ \A i \in DOMAIN results : Sourced(results[i], Published)

\* A candidate that is not placed, or in no readable tarball, is not closed.
LEMMA PlacedIsSourced ==
    ASSUME NEW r, NEW published, r.version \in DOMAIN published,
           "candidates" \in DOMAIN r, "version" \in DOMAIN r, "artefacts" \in DOMAIN r,
           NEW tb \in {Missing, published[r.version]}
    PROVE  Sourced(ResolveVisibility(r, tb), published)
<1> DEFINE s == ResolveVisibility(r, tb)
           model == BuildPackageModel(tb)
<1> SUFFICES Sourced(s, published)
  OBVIOUS
<1>1. s.version = r.version /\ DOMAIN s = DOMAIN r
  BY DEF ResolveVisibility
<1>2. \/ \A c \in s.candidates : c.visibility = Unknown
      \/ /\ tb \notin {Missing, TooLarge} /\ model # NoModel
         /\ \A c \in s.candidates : c.visibility = Resolve(model, c.symbol, c.path)
  <2>1. \A c, v : Placed(c, v).visibility = v /\ Placed(c, v).symbol = c.symbol /\ Placed(c, v).path = c.path
    BY DEF Placed
  <2> DEFINE unknowns == {Placed(c, Unknown) : c \in r.candidates}
             resolved == {Placed(c, Resolve(model, c.symbol, c.path)) : c \in r.candidates}
  <2>2. \/ s.candidates = unknowns
        \/ tb \notin {Missing, TooLarge} /\ model # NoModel /\ s.candidates = resolved
    <3>1. CASE tb \in {Missing, TooLarge}
      <4>1. s = [r EXCEPT !.candidates = unknowns]
        BY <3>1, Zenon DEF ResolveVisibility
      <4> HIDE DEF unknowns, s
      <4> QED
        BY <4>1
    <3>2. CASE tb \notin {Missing, TooLarge} /\ ~tb.verified
      <4>1. s = [r EXCEPT !.candidates = unknowns]
        BY <3>2, Zenon DEF ResolveVisibility
      <4> HIDE DEF unknowns, s
      <4> QED
        BY <4>1
    <3>3. CASE tb \notin {Missing, TooLarge} /\ tb.verified
      <4>1. s = [r EXCEPT !.artefacts = @ \cup {TarballArtefact(r.version)},
                          !.candidates = IF model = NoModel THEN unknowns ELSE resolved]
        BY <3>3, Zenon DEF ResolveVisibility
      <4> HIDE DEF unknowns, resolved, s, model
      <4> QED
        BY <3>3, <4>1
    <3> QED
      BY <3>1, <3>2, <3>3
  <2>3. CASE s.candidates = unknowns
    <3> HIDE DEF s
    <3> QED
      BY <2>1, <2>3
  <2>4. CASE tb \notin {Missing, TooLarge} /\ model # NoModel /\ s.candidates = resolved
    <3> HIDE DEF s, model
    <3> QED
      BY <2>1, <2>4
  <2> QED
    BY <2>2, <2>3, <2>4
<1>3. ~Closed(Unknown)
  <2>1. Unknown.kind = "unknown"
    BY DEF Unknown, Visibility
  <2> QED
    BY <2>1 DEF Closed
<1>4. CASE \A c \in s.candidates : c.visibility = Unknown
  <2> HIDE DEF s
  <2> QED
    BY <1>1, <1>3, <1>4 DEF Sourced
<1>5. CASE /\ tb \notin {Missing, TooLarge} /\ model # NoModel
           /\ \A c \in s.candidates : c.visibility = Resolve(model, c.symbol, c.path)
  <2>1. tb = published[r.version]
    BY <1>5
  <2> HIDE DEF s
  <2> QED
    BY <1>1, <1>5, <2>1 DEF Sourced
<1> QED
  BY <1>2, <1>4, <1>5

\* What a finding ends with is sourced when its result is.
LEMMA FinishIsPlaced ==
    ASSUME Placing, InTurn, scenario' = scenario,
           NEW r, Sourced(r, Published), NEW todo, Finish(r, todo)
    PROVE  Placing'
<1>1. results' = Append(results, r) /\ work' = NoWork
  BY DEF Finish
<1> DEFINE S == {results[i] : i \in DOMAIN results} \cup {r}
<1>2. results \in Seq(S)
  BY DEF InTurn
<1> HIDE DEF S
<1>3. \A i \in DOMAIN results' : (i \in DOMAIN results /\ results'[i] = results[i]) \/ results'[i] = r
  <2>1. r \in S
    BY DEF S
  <2> QED
    BY <1>1, <1>2, <2>1
<1>4. \A i \in DOMAIN results' : Sourced(results'[i], Published)
  BY <1>3 DEF Placing
<1>5. work'.attempts = << >>
  BY <1>1 DEF NoWork
<1> QED
  BY <1>4, <1>5 DEF Placing, Published

\* One more attempt, with the vulnerable tarball or none.
LEMMA TriedIsPlaced ==
    ASSUME Placing, DOMAIN work = DOMAIN NoWork, UNCHANGED <<scenario, results>>,
           NEW attempt, attempt.tarball \in {Missing, Published[Current.version]},
           NEW stage, work' = Tried(attempt, stage)
    PROVE  Placing'
<1>1. work'.attempts = Append(work.attempts, attempt)
  BY DEF Tried, NoWork
<1> DEFINE S == {work.attempts[i] : i \in DOMAIN work.attempts} \cup {attempt}
           old == work.attempts
<1>2. old \in Seq(S)
  BY DEF Placing
<1>3. attempt \in S
  OBVIOUS
<1> HIDE DEF S
<1>4. /\ work'.attempts \in Seq(S)
      /\ \A i \in DOMAIN work'.attempts :
            (i \in DOMAIN old /\ work'.attempts[i] = old[i]) \/ work'.attempts[i] = attempt
  BY <1>1, <1>2, <1>3
<1>5. work'.attempts \in Seq({work'.attempts[i] : i \in DOMAIN work'.attempts})
  BY <1>4
<1>6. Current' = Current /\ Published' = Published
  BY DEF Current, Findings, Published
<1>7. \A i \in DOMAIN work'.attempts : work'.attempts[i].tarball \in {Missing, Published[Current.version]}
  BY <1>4 DEF Placing
<1> QED
  BY <1>5, <1>6, <1>7 DEF Placing

\* The first hit, of those tried.
LEMMA SelectIsPlaced ==
    ASSUME Placing, InTurn, FixKnown, Select
    PROVE  Placing'
<1>1. ~Localised /\ UNCHANGED <<world, scenario>>
  BY DEF Select, InTurn
<1>2. world = scenario.world
  BY <1>1 DEF FixKnown, Written
<1>3. Current.version \in DOMAIN Published
  <2>1. Findings \in Seq(ToSet(Findings))
    BY ScenariosAssumption DEF FixKnown, Findings
  <2>2. Len(Findings) \in Nat /\ DOMAIN Findings = 1 .. Len(Findings)
    BY <2>1
  <2>3. Len(results) + 1 \in DOMAIN Findings
    BY <1>1, <2>2 DEF FixKnown, Localised, InTurn
  <2> QED
    BY <2>3, ScenariosAssumption DEF FixKnown, Findings, Current, Published
<1> DEFINE hits == {i \in DOMAIN work.attempts : work.attempts[i].outcome = "hit"}
           sel == work.attempts[Min(hits)]
           patches == {a \in ToSet(work.attempts) : a.method = "patch_reference"}
           advisory == {Artefact(AdvisoryArtefactId, work.source, rec, TRUE) : rec \in work.known}
           base == [Result(Current, IF hits = {} THEN "unknown" ELSE sel.method)
                      EXCEPT !.fixed = work.fixed, !.artefacts = advisory]
           result == [base EXCEPT
                        !.candidates = {Placed(c, Unplaced) : c \in sel.candidates},
                        !.artefacts = @ \cup sel.artefacts,
                        !.patch = IF sel.fixes = << >> THEN NoCommit ELSE sel.fixes[1].commit,
                        !.confidence = ConfidenceFor(sel, UNION {a.candidates : a \in patches})]
<1>4. ASSUME hits # {} PROVE sel.tarball \in {Missing, Published[Current.version]}
  <2> DEFINE S == {work.attempts[i] : i \in DOMAIN work.attempts}
  <2>1. work.attempts \in Seq(S)
    BY DEF Placing
  <2> HIDE DEF S
  <2>2. DOMAIN work.attempts \in SUBSET Nat
    BY <2>1
  <2>3. hits \in SUBSET Nat
    BY <2>2
  <2> HIDE DEF hits
  <2>4. Min(hits) \in hits
    BY <1>4, <2>3, MinIs
  <2> QED
    BY <2>4 DEF Placing, hits
<1>5. \E r, todo : /\ \/ r = base \/ r = result
                      \/ hits # {} /\ r = ResolveVisibility(result, sel.tarball)
                      \/ \E tb \in {Missing, world.tarballs[Current.version]} :
                            r = ResolveVisibility(result, tb)
                   /\ Finish(r, todo)
  <2> HIDE DEF base, result, hits, sel
  <2> QED
    BY DEF Select, base, result, hits, sel
<1>6. /\ base.candidates = {} /\ base.version = Current.version
      /\ {"candidates", "version", "artefacts", "confidence", "patch"} \subseteq DOMAIN base
  BY DEF Result
<1>7. /\ result.version = Current.version
      /\ result.candidates = {Placed(c, Unplaced) : c \in sel.candidates}
      /\ {"candidates", "version", "artefacts"} \subseteq DOMAIN result
  <2> HIDE DEF base, sel
  <2> QED
    BY <1>6
<1> HIDE DEF base, result, sel, hits
<1>8. Sourced(base, Published)
  BY <1>6 DEF Sourced
<1>9. Sourced(result, Published)
  <2>1. ~Closed(Unplaced)
    BY DEF Closed, Unplaced
  <2>2. \A c : Placed(c, Unplaced).visibility = Unplaced
    BY DEF Placed
  <2> QED
    BY <1>7, <2>1, <2>2 DEF Sourced
<1>10. \A tb \in {Missing, Published[Current.version]} : Sourced(ResolveVisibility(result, tb), Published)
  BY <1>3, <1>7, PlacedIsSourced
<1>11. world.tarballs = Published
  BY <1>2 DEF Published
<1>12. \E r, todo : Sourced(r, Published) /\ Finish(r, todo)
  BY <1>4, <1>5, <1>8, <1>9, <1>10, <1>11
<1> QED
  BY <1>1, <1>12, FinishIsPlaced

\* The attempts of a finding.
LEMMA TryingIsPlaced ==
    ASSUME Placing, InTurn, FixKnown, TryMetadata \/ TryPatch \/ TryText \/ TryVersionDiff
    PROVE  Placing'
<1> DEFINE tarballs == {Missing, Published[Current.version]}
<1>1. UNCHANGED <<world, scenario, results>> /\ ~Written /\ DOMAIN work = DOMAIN NoWork
  BY DEF TryMetadata, TryPatch, TryText, TryVersionDiff, InTurn, Written, FixKnown
<1>2. world.tarballs = Published
  BY <1>1 DEF FixKnown, Published
<1>3. \A method, outcome, candidates, artefacts, notes :
          Attempt(method, outcome, candidates, artefacts, notes).tarball = Missing
  BY DEF Attempt
<1>4. \A method, names : Named(method, names).tarball = Missing
  BY <1>3 DEF Named, WithAdvisory
<1>5. \A up, rec, searched, fixed : AttemptPatch(world, left, rec, up, searched, fixed).attempt.tarball = Missing
  <2>1. \A s, commits, found : PatchAttempt(s, commits, found).tarball = Missing
    BY DEF PatchAttempt, Attempt
  <2>2. \A s, commits : Attributed(s, commits).attempt.tarball = Missing
    BY <2>1 DEF Attributed
  <2>3. \A commits, wanted : ReadCommits(world, commits, wanted).attempt.tarball = Missing
    BY <2>2, Zenon DEF ReadCommits
  <2> QED
    BY <2>3 DEF AttemptPatch
<1>6. \A up, fixed : VersionDiff(up, Current.version, fixed).tarball \in tarballs
  <2> SUFFICES ASSUME NEW up, NEW fixed PROVE VersionDiff(up, Current.version, fixed).tarball \in tarballs
    OBVIOUS
  <2>1. \/ \E outcome : VersionDiff(up, Current.version, fixed) = Attempt("version_diff", outcome, {}, {}, {})
        \/ \E outcome, candidates, artefacts, notes, excluded :
              VersionDiff(up, Current.version, fixed) =
                  [Attempt("version_diff", outcome, candidates, artefacts, notes)
                      EXCEPT !.excluded = excluded, !.tarball = world.tarballs[Current.version]]
    BY Zenon DEF VersionDiff
  <2> QED
    BY <1>2, <1>3, <2>1 DEF Attempt
<1> HIDE DEF tarballs
<1>7. \/ \E attempt, stage : attempt.tarball \in tarballs /\ work' = Tried(attempt, stage)
      \/ \E stage : work' = [work EXCEPT !.stage = stage]
  <2>0. Missing \in tarballs
    BY DEF tarballs
  <2>1. CASE TryMetadata
    BY <1>4, <2>0, <2>1 DEF TryMetadata
  <2>2. CASE TryPatch
    <3>1. \/ \E stage : work' = [work EXCEPT !.stage = stage]
          \/ \E stage : work.known = {} /\ work' = Tried(WithAdvisory("patch_reference", << >>), stage)
          \/ \E up, stage : work' = Tried(AttemptPatch(world, left, Rec, up, "search" \in options,
                                                       work.fixed).attempt, stage)
      BY <2>2, Zenon DEF TryPatch
    <3>2. work.known = {} => WithAdvisory("patch_reference", << >>).tarball = Missing
      BY <1>3 DEF WithAdvisory
    <3> QED
      BY <1>5, <2>0, <3>1, <3>2
  <2>3. CASE TryText
    BY <1>4, <2>0, <2>3 DEF TryText
  <2>4. CASE TryVersionDiff
    BY <1>6, <2>4 DEF TryVersionDiff
  <2> QED
    BY <2>1, <2>2, <2>3, <2>4
<1>8. ASSUME NEW stage, work' = [work EXCEPT !.stage = stage] PROVE Placing'
  <2>1. work'.attempts = work.attempts
    BY <1>8
  <2> QED
    BY <1>1, <2>1 DEF Placing, Published, Current, Findings
<1> QED
  BY <1>1, <1>7, <1>8, TriedIsPlaced DEF tarballs

\* Every step leaves the visibilities where they were read.
LEMMA PlacingStep == Placing /\ InTurn /\ FixKnown /\ [Next]_vars => Placing'
<1> SUFFICES ASSUME Placing, InTurn, FixKnown, [Next]_vars PROVE Placing'
  OBVIOUS
<1>1. CASE NotNpm
  <2>1. PICK r : r = [Result(Current, "unknown") EXCEPT !.fixed = NoVersion, !.version = NoVersion]
    OBVIOUS
  <2>2. r.candidates = {} /\ {"candidates", "version"} \subseteq DOMAIN r
    BY <2>1 DEF Result
  <2>3. Finish(r, NoTagWork) /\ scenario' = scenario
    BY <1>1, <2>1 DEF NotNpm
  <2>4. Sourced(r, Published)
    BY <2>2 DEF Sourced
  <2> QED
    BY <2>3, <2>4, FinishIsPlaced
<1>2. CASE Select
  BY <1>2, SelectIsPlaced
<1>3. CASE TryMetadata \/ TryPatch \/ TryText \/ TryVersionDiff
  BY <1>3, TryingIsPlaced
<1>4. CASE ReadAdvisory
  <2>1. UNCHANGED <<scenario, results>>
    BY <1>4 DEF ReadAdvisory
  <2>2. work'.attempts = << >>
    <3> DEFINE about(id) == AdvisoryVerified(world.records[id],
                             {Current.vulnerability} \cup ToSet(Current.aliases), Current.package)
               used(ids) == {id \in ids : about(id)}
               known(ids) == {world.records[id] : id \in used(ids)}
               later(ids) == {FixedVersionFor(r, Current.package, Current.version) : r \in known(ids)}
               source(ids) == IF used(ids) = {} THEN "none" ELSE CHOOSE id \in used(ids) : TRUE
               fixed(ids) == IF Current.fixed # NoVersion \/ known(ids) = {} THEN Current.fixed
                             ELSE CHOOSE v \in later(ids) : TRUE
    <3>1. PICK up \in BOOLEAN : LET ids == IF up THEN AdvisoryId(world.records, Current) ELSE {}
                                IN  work' = [NoWork EXCEPT !.stage = "metadata", !.known = known(ids),
                                                !.source = source(ids), !.fixed = fixed(ids)]
      BY <1>4, Zenon DEF ReadAdvisory
    <3> HIDE DEF known, source, fixed
    <3> QED
      BY <3>1 DEF NoWork
  <2> QED
    BY <2>1, <2>2 DEF Placing, Published
<1>5. CASE RunTagChecks
  <2>1. UNCHANGED <<scenario, work>> /\ work = NoWork
    BY <1>5 DEF RunTagChecks
  <2>2. \/ results' = results
        \/ \E checks : results' = [results EXCEPT ![checked + 1].checks = checks]
    BY <1>5 DEF RunTagChecks
  <2>3. \A i \in DOMAIN results' : /\ i \in DOMAIN results
                                   /\ \/ results'[i] = results[i]
                                      \/ \E checks : results'[i] = [results[i] EXCEPT !.checks = checks]
    BY <2>2
  <2>4. \A i \in DOMAIN results' : results'[i].candidates = results[i].candidates
                                   /\ results'[i].version = results[i].version
    <3> SUFFICES ASSUME NEW i \in DOMAIN results'
                 PROVE  results'[i].candidates = results[i].candidates
                        /\ results'[i].version = results[i].version
      OBVIOUS
    <3>1. PICK r : r = results[i] /\ {"candidates", "version"} \subseteq DOMAIN r
      BY <2>3 DEF Placing, Sourced
    <3>2. results'[i] = r \/ \E checks : results'[i] = [r EXCEPT !.checks = checks]
      BY <2>3, <3>1
    <3>3. results'[i].candidates = r.candidates /\ results'[i].version = r.version
      BY <3>1, <3>2
    <3> QED
      BY <3>1, <3>3
  <2>5. \A i \in DOMAIN results' : Sourced(results'[i], Published)
    <3> SUFFICES ASSUME NEW i \in DOMAIN results' PROVE Sourced(results'[i], Published)
      OBVIOUS
    <3>1. DOMAIN results'[i] = DOMAIN results[i]
      BY <2>3
    <3>2. Sourced(results[i], Published)
      BY <2>3 DEF Placing
    <3> QED
      BY <2>4, <3>1, <3>2 DEF Sourced
  <2>6. work'.attempts = << >>
    BY <2>1 DEF NoWork
  <2> QED
    BY <2>1, <2>5, <2>6 DEF Placing, Published
<1>6. CASE Verify \/ ServicesChange \/ StartRefetch \/ Online \/ UNCHANGED vars
  <2>1. UNCHANGED <<scenario, work, results>>
    BY <1>6, OnlyTheReport DEF Verify, ServicesChange, StartRefetch, Settled, vars
  <2> QED
    BY <2>1 DEF Placing, Published, Current, Findings
<1> QED
  BY <1>1, <1>2, <1>3, <1>4, <1>5, <1>6 DEF Next, Online

\* A candidate that can support a negative names every way an application reaches
\* it, for every published package whose entry module is its top and does not load
\* the file from inside one of its functions (visibility.go resolve).
THEOREM RoutesNamed == Spec => []ClosedNamesTheRoutes
<1>1. Init => Placing
  BY DEF Init, Placing, NoWork
<1>2. Init => FixKnown
  BY ScenariosAssumption DEF Init, FixKnown, NoWork, Findings
<1>3. Placing /\ FixKnown /\ InTurn => ClosedNamesTheRoutes
  <2> SUFFICES ASSUME Placing, FixKnown, InTurn, NEW i \in DOMAIN results, Fresh(i),
                      NEW c \in results[i].candidates, Closed(c.visibility),
                      EntryIsTheTop(world.tarballs[results[i].version], c.path)
               PROVE  NamesTheRoutes(world.tarballs[results[i].version], c.symbol, c.path, c.visibility)
    BY Zenon DEF ClosedNamesTheRoutes
  <2> DEFINE tb == world.tarballs[results[i].version]
  <2>1. world = scenario.world
    <3>1. checked # Len(results)
      <4> DEFINE S == {results[k] : k \in DOMAIN results}
      <4>1. results \in Seq(S)
        BY DEF InTurn
      <4> HIDE DEF S
      <4>2. i # 0
        BY <4>1
      <4> QED
        BY <4>2 DEF Fresh
    <3> QED
      BY <3>1 DEF FixKnown, Written
  <2>2. /\ results[i].version \in DOMAIN world.tarballs /\ tb \notin {Missing, TooLarge}
        /\ BuildPackageModel(tb) # NoModel
        /\ c.visibility = Resolve(BuildPackageModel(tb), c.symbol, c.path)
    BY <2>1 DEF Placing, Sourced, Published
  <2>3. IsPackage(tb)
    BY <2>1, <2>2, ScenariosAssumption DEF FixKnown
  <2> HIDE DEF tb
  <2>4. NamesTheRoutes(tb, c.symbol, c.path, Resolve(BuildPackageModel(tb), c.symbol, c.path))
    BY <2>2, <2>3, RoutesAreNamed DEF tb
  <2> QED
    BY <2>2, <2>4 DEF tb
<1> QED
  BY <1>1, <1>2, <1>3, PlacingStep, FixKnownStep, Invariant, VouchingInvariant, PTL DEF Spec
===============================================================================

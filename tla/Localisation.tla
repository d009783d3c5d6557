----------------------------- MODULE Localisation -----------------------------
(***************************************************************************)
(* The localiser (internal/localisation/localise.go): for each finding the *)
(* methods in their fallback order, the first hit selected and its         *)
(* candidates placed in the published package; the release tag checks      *)
(* after every finding; then the document is verified, without the network *)
(* and, when the services may have changed, with it.  One step is one      *)
(* method of one finding.  OSV and the registry answer or not, and GitHub  *)
(* answers while its rate limit lasts.                                     *)
(***************************************************************************)
EXTENDS VerifyProvenance, PackageRoutes

CONSTANT Scenarios   \* what the services hold, what the findings and flags are

\* Versions a record says are affected, of those the registry has: the last event
\* of a range that is not after the version introduces.
EventAt(range, i) == IF range[i].fixed # NoVersion THEN range[i].fixed ELSE range[i].introduced

Affected(rec, package, v) ==
    \E a \in Matching(rec, package) : \E range \in a.ranges :
        LET past == {i \in DOMAIN range : EventAt(range, i) =< v}
        IN  past # {} /\ range[Max(past)].fixed = NoVersion

\* A record as OSV publishes it: the events of a range introduce and fix in turn,
\* in the order of the versions, and a version that fixes is a release no range
\* calls affected.
Alternates(range) ==
    /\ range \in Seq([introduced : Nat, fixed : Nat])
    /\ \A i \in DOMAIN range :
          IF i = 1 THEN range[i].fixed = NoVersion
          ELSE /\ EventAt(range, i - 1) < EventAt(range, i)
               /\ range[i].fixed = NoVersion <=> range[i - 1].fixed # NoVersion
               /\ range[i].fixed # NoVersion => range[i].introduced = NoVersion

WellPublished(rec, package, releases) ==
    \A a \in Matching(rec, package) : \A range \in a.ranges :
        /\ Alternates(range)
        /\ \A i \in DOMAIN range : range[i].fixed # NoVersion =>
              range[i].fixed \in releases /\ ~Affected(rec, package, range[i].fixed)

ASSUME ScenariosAssumption ==
    \A s \in Scenarios :
        /\ DOMAIN s.world.tarballs \subseteq Nat
        /\ \A v \in DOMAIN s.world.tarballs :
              s.world.tarballs[v] \in {Missing, TooLarge} \/ IsPackage(s.world.tarballs[v])
        /\ s.findings \in Seq(ToSet(s.findings))
        /\ \A i \in DOMAIN s.findings :
              /\ s.findings[i].version \in DOMAIN s.world.tarballs
              /\ s.findings[i].aliases \in Seq(ToSet(s.findings[i].aliases))
              /\ \A id \in DOMAIN s.world.records :
                    WellPublished(s.world.records[id], s.findings[i].package, DOMAIN s.world.tarballs)

VARIABLES world,     \* OSV, GitHub and the registry as they are now
          scenario,  \* the one this behaviour started from
          options,   \* the command's flags
          left,      \* requests GitHub still allows
          outages,   \* bound: how often a service may still fail to answer
          work,      \* the finding being localised
          results,   \* the document, one result per finding
          pending,   \* what each result needs for its tag checks
          checked,   \* results whose tag checks have run
          refused,   \* results one of whose requests the rate limit refused
          report     \* the verification of the document

vars == <<world, scenario, options, left, outages, work, results, pending, checked, refused, report>>

NoWork == [stage |-> "start", known |-> {}, source |-> "none", fixed |-> NoVersion,
           attempts |-> << >>]

NoReport == [stage |-> "none", next |-> 0, left |-> 0, fetched |-> {}, read |-> {}, issues |-> {},
             noted |-> {}, got |-> << >>, judged |-> FALSE, rechecked |-> {}]

Findings == scenario.findings
Current == Findings[Len(results) + 1]
Localised == Len(results) = Len(Findings)

Init == /\ scenario \in Scenarios
        /\ world = scenario.world
        /\ options \in scenario.options
        /\ left \in scenario.quotas
        /\ outages = scenario.outages
        /\ work = NoWork
        /\ results = << >> /\ pending = << >> /\ checked = 0 /\ refused = {}
        /\ report = NoReport

-----------------------------------------------------------------------------
\* A service answers, or one of the outages is used up.
Answers(up) == IF up THEN UNCHANGED outages ELSE outages > 0 /\ outages' = outages - 1

Hit(attempts) == \E i \in DOMAIN attempts : attempts[i].outcome = "hit"

\* A hit ends the search, unless every method is asked for.
Stopped == "allMethods" \notin options /\ Hit(work.attempts)

Tried(attempt, stage) == [work EXCEPT !.attempts = Append(@, attempt), !.stage = stage]

\* A method that needs the advisory fails without it.
WithAdvisory(method, attempt) ==
    IF work.known = {} THEN Attempt(method, "error", {}, {}, {}) ELSE attempt

Rec == CHOOSE rec \in work.known : TRUE

TagWork(f, fixed, attempt) ==
    [fixes |-> attempt.fixes, content |-> attempt.content, version |-> f.version, fixed |-> fixed]

NoTagWork == [fixes |-> << >>, content |-> << >>, version |-> NoVersion, fixed |-> NoVersion]

Finish(result, todo) ==
    /\ results' = Append(results, result)
    /\ pending' = Append(pending, todo)
    /\ work' = NoWork

\* A package of another ecosystem is not localised.
NotNpm == /\ ~Localised /\ work.stage = "start" /\ ~Current.npm
          /\ Finish([Result(Current, "unknown") EXCEPT !.fixed = NoVersion, !.version = NoVersion],
                    NoTagWork)
          /\ UNCHANGED <<world, scenario, options, left, outages, checked, refused, report>>

\* The record must be about the finding's vulnerability and its package.
ReadAdvisory ==
    /\ ~Localised /\ work.stage = "start" /\ Current.npm
    /\ \E up \in BOOLEAN :
        LET ids == IF up THEN AdvisoryId(world.records, Current) ELSE {}
            about(id) == AdvisoryVerified(world.records[id],
                             {Current.vulnerability} \cup ToSet(Current.aliases), Current.package)
            used == {id \in ids : about(id)}
            known == {world.records[id] : id \in used}
            later == {FixedVersionFor(r, Current.package, Current.version) : r \in known}
        IN  /\ Answers(up)
            /\ work' = [NoWork EXCEPT
                  !.stage = "metadata", !.known = known,
                  !.source = IF used = {} THEN "none" ELSE CHOOSE id \in used : TRUE,
                  !.fixed = IF Current.fixed # NoVersion \/ known = {} THEN Current.fixed
                            ELSE CHOOSE v \in later : TRUE]
    /\ UNCHANGED <<world, scenario, options, left, results, pending, checked, refused, report>>

\* Functions named by the record, without a file.
Named(method, names) ==
    WithAdvisory(method, Attempt(method, IF names = {} THEN "empty" ELSE "hit",
                                 {Candidate(n, NoFile, {AdvisoryArtefactId}) : n \in names}, {}, {}))

TryMetadata ==
    /\ work.stage = "metadata"
    /\ work' = Tried(Named("advisory_metadata", StructuredFunctions(Rec, Current.package)), "patch")
    /\ UNCHANGED <<world, scenario, options, left, outages, results, pending, checked, refused, report>>

TryPatch ==
    /\ work.stage = "patch"
    /\ IF Stopped \/ work.known = {}
       THEN /\ work' = IF Stopped THEN [work EXCEPT !.stage = "text"]
                       ELSE Tried(WithAdvisory("patch_reference", << >>), "text")
            /\ UNCHANGED <<left, outages, refused>>
       ELSE \E up \in BOOLEAN :
            LET found == AttemptPatch(world, left, Rec, up, "search" \in options, work.fixed)
            IN  /\ Answers(up)
                /\ work' = Tried(found.attempt, "text")
                /\ left' = found.left
                /\ refused' = refused \cup (IF found.refused THEN {Len(results) + 1} ELSE {})
    /\ UNCHANGED <<world, scenario, options, results, pending, checked, report>>

TryText ==
    /\ work.stage = "text"
    /\ work' = IF Stopped THEN [work EXCEPT !.stage = "diff"]
               ELSE Tried(Named("advisory_text", FunctionsFromText(Rec, Current.package)), "diff")
    /\ UNCHANGED <<world, scenario, options, left, outages, results, pending, checked, refused, report>>

TarballArtefact(version) ==
    Artefact(TarballId(version), "npm", world.tarballs[version], world.tarballs[version].verified)

\* Both tarballs, then every source file that differs; one whose bytes are not
\* the registry's is used, and its candidates are not verified.
VersionDiff(registry, version, fixed) ==
    LET old == world.tarballs[version]
        new == world.tarballs[fixed]
        failed == IF old \in {Missing, TooLarge} THEN old ELSE new
        changes == VersionChanges(old.files, new.files, TarballId(version), TarballId(fixed))
        found == AttributeChanges(changes)
    IN  IF fixed = NoVersion THEN Attempt("version_diff", "skipped", {}, {}, {})
        ELSE IF ~registry \/ failed \in {Missing, TooLarge}
        THEN Attempt("version_diff", IF registry /\ failed = TooLarge THEN "unbounded" ELSE "error",
                     {}, {}, {})
        ELSE [Attempt("version_diff", IF found.candidates = {} THEN "empty" ELSE "hit",
                      found.candidates, {TarballArtefact(version), TarballArtefact(fixed)}, found.notes)
              EXCEPT !.excluded = found.excluded, !.tarball = old]

TryVersionDiff ==
    /\ work.stage = "diff"
    /\ IF Stopped THEN work' = [work EXCEPT !.stage = "select"] /\ UNCHANGED outages
       ELSE \E up \in BOOLEAN :
            /\ IF work.fixed = NoVersion THEN up /\ UNCHANGED outages ELSE Answers(up)
            /\ work' = Tried(VersionDiff(up, Current.version, work.fixed), "select")
    /\ UNCHANGED <<world, scenario, options, left, results, pending, checked, refused, report>>

-----------------------------------------------------------------------------
\* The published criteria, by method.
ConfidenceFor(sel, patch) ==
    LET n == Cardinality(sel.candidates)
        symbols(candidates) == {c.symbol : c \in candidates}
    IN  CASE sel.method = "advisory_metadata" -> "high"
          [] sel.method = "patch_reference" ->
                IF sel.notes \cap {"incomplete", "could not fetch"} # {} \/ n > 10 THEN "low"
                ELSE IF n =< 3 THEN "high" ELSE "medium"
          [] sel.method = "advisory_text" ->
                IF symbols(sel.candidates) \cap symbols(patch) # {} THEN "high"
                ELSE IF n =< 3 THEN "medium" ELSE "low"
          [] OTHER ->
                IF n =< 5 /\ (\A a \in sel.artefacts : a.verified) /\ "too large to align" \notin sel.notes
                THEN "medium" ELSE "low"

\* The candidates' visibility in the vulnerable tarball, which then belongs to
\* the provenance; unknown when it cannot be read or is not the registry's.
ResolveVisibility(r, tb) ==
    LET model == BuildPackageModel(tb)
        placed(v(_)) == {Placed(c, v(c)) : c \in r.candidates}
        unknown(c) == Unknown
        resolved(c) == Resolve(model, c.symbol, c.path)
    IN  IF tb \in {Missing, TooLarge} THEN [r EXCEPT !.candidates = placed(unknown)]
        ELSE IF ~tb.verified THEN [r EXCEPT !.candidates = placed(unknown)]
        ELSE [r EXCEPT !.artefacts = @ \cup {TarballArtefact(r.version)},
                       !.candidates = IF model = NoModel THEN placed(unknown) ELSE placed(resolved)]

\* The first hit in fallback order is the result.
Select ==
    /\ work.stage = "select"
    /\ LET hits == {i \in DOMAIN work.attempts : work.attempts[i].outcome = "hit"}
           sel == work.attempts[Min(hits)]
           patches == {a \in ToSet(work.attempts) : a.method = "patch_reference"}
           advisory == {Artefact(AdvisoryArtefactId, work.source, rec, TRUE) : rec \in work.known}
           base == [Result(Current, IF hits = {} THEN "unknown" ELSE sel.method)
                       EXCEPT !.fixed = work.fixed, !.artefacts = advisory]
           result == [base EXCEPT
                         !.candidates = {Placed(c, Unplaced) : c \in sel.candidates},
                         !.artefacts = @ \cup sel.artefacts,
                         !.patch = IF sel.fixes = << >> THEN NoCommit ELSE sel.fixes[1].commit,
                         !.confidence = ConfidenceFor(sel, UNION {a.candidates : a \in patches})]
       IN  IF hits = {} THEN Finish(base, NoTagWork) /\ UNCHANGED outages
           ELSE IF sel.method \in {"advisory_metadata", "advisory_text"}
           THEN Finish(result, NoTagWork) /\ UNCHANGED outages
           ELSE IF sel.method = "version_diff"
           THEN Finish(ResolveVisibility(result, sel.tarball), NoTagWork) /\ UNCHANGED outages
           ELSE \E up \in BOOLEAN :
                /\ Answers(up)
                /\ Finish(ResolveVisibility(result, IF up THEN world.tarballs[Current.version] ELSE Missing),
                          TagWork(Current, work.fixed, sel))
    /\ UNCHANGED <<world, scenario, options, left, checked, refused, report>>

\* Mutant: a result's tag checks run as soon as it is there.
AsTheyCome(i) == i \in DOMAIN results

\* The tag checks wait until every finding is localised, so that they spend only
\* what the findings left.
TagChecksDue(i) == Localised /\ i \in DOMAIN results

RunTagChecks ==
    /\ TagChecksDue(checked + 1)
    /\ work = NoWork
    /\ checked' = checked + 1
    /\ LET i == checked + 1
           todo == pending[i]
       IN  IF "skipTags" \in options \/ todo.fixes = << >> THEN UNCHANGED <<left, outages, results>>
           ELSE \E up \in BOOLEAN :
                LET done == TagChecks(world, left, up, todo.fixes, todo.content, todo.version, todo.fixed)
                IN  /\ Answers(up)
                    /\ left' = done.left
                    /\ results' = [results EXCEPT ![i].checks = done.checks]
    /\ UNCHANGED <<world, scenario, options, work, pending, refused, report>>

-----------------------------------------------------------------------------
Written == Localised /\ checked = Len(results)

\* verify-provenance without the network.
Verify == /\ Written /\ report.stage = "none"
          /\ report' = [NoReport EXCEPT !.stage = "offline", !.issues = VerifyDocument(results)]
          /\ UNCHANGED <<world, scenario, options, left, outages, work, results, pending, checked, refused>>

\* OSV edits a record, a tag is moved, a version is published again.
ServicesChange == /\ report.stage = "offline" /\ world = scenario.world
                  /\ \E change \in scenario.changes :
                        world' = [world EXCEPT ![change.field] = change.value]
                  /\ UNCHANGED <<scenario, options, left, outages, work, results, pending, checked,
                                 refused, report>>

\* Later, and with the network: a rate limit of its own.
StartRefetch == /\ report.stage = "offline"
                /\ \E quota \in scenario.quotas :
                      report' = [report EXCEPT !.stage = "online", !.left = quota]
                /\ UNCHANGED <<world, scenario, options, left, outages, work, results, pending,
                               checked, refused>>

\* The results one after the other: every artefact it cites, its candidates, its
\* tag checks.
Reviewing == report.stage = "online" /\ report.next < Len(results)
Reviewed == results[report.next + 1]
Unread == Reviewed.artefacts \ report.noted
Unchecked == DOMAIN Reviewed.checks \ report.rechecked

Settled == <<world, scenario, options, left, work, results, pending, checked, refused>>

\* What a download gave is kept for the next results; GitHub refuses by its rate
\* limit only.  Which reads it refuses depends on their order, taken as any one.
Refetch ==
    /\ Reviewing /\ Unread # {}
    /\ LET a == CHOOSE x \in Unread : TRUE
       IN  \E up \in BOOLEAN :
            /\ IF Kept(report, Reviewed, a) # {} \/ a.id.kind = "source_file"
               THEN up /\ UNCHANGED outages ELSE Answers(up)
            /\ report' = RefetchArtefact(world, report, up, Reviewed, a)
    /\ UNCHANGED Settled

JudgeCandidates ==
    /\ Reviewing /\ Unread = {} /\ ~report.judged
    /\ report' = Judged(report, Reviewed)
    /\ UNCHANGED <<Settled, outages>>

Recheck ==
    /\ Reviewing /\ report.judged /\ Unchecked # {}
    /\ \E up \in BOOLEAN :
        /\ Answers(up)
        /\ report' = Rechecked(world, report, up, Reviewed, Min(Unchecked))
    /\ UNCHANGED Settled

NextResult ==
    /\ Reviewing /\ report.judged /\ Unchecked = {}
    /\ report' = [report EXCEPT !.next = @ + 1, !.noted = {}, !.got = << >>, !.judged = FALSE,
                                !.rechecked = {}]
    /\ UNCHANGED <<Settled, outages>>

Next == \/ NotNpm \/ ReadAdvisory \/ TryMetadata \/ TryPatch \/ TryText \/ TryVersionDiff
        \/ Select \/ RunTagChecks \/ Verify \/ ServicesChange \/ StartRefetch
        \/ Refetch \/ JudgeCandidates \/ Recheck \/ NextResult

Spec == Init /\ [][Next]_vars
-----------------------------------------------------------------------------
\* The result has just been selected: what depends on it alone is judged once.
Fresh(i) == i = Len(results) /\ work = NoWork /\ checked = 0

-----------------------------------------------------------------------------
\* The code lines of a function that belong to no function inside it.
OwnCode(f, s) == LET deeper(t, n) == t.depth > s.depth /\ n \in t.from .. t.to
                     own == {n \in s.from .. s.to :
                                /\ Text(f)[n] \notin CommentLines
                                /\ ~\E t \in NamedSpans(f) : deeper(t, n)}
                 IN  [i \in 1 .. Cardinality(own) |->
                         Text(f)[CHOOSE n \in own : Cardinality({k \in own : k < n}) = i - 1]]

\* The named functions, once each, whose own code is not the same on both sides.
ChangedFunctions(old, new) ==
    LET named(f, x) == {s \in NamedSpans(f) : s.name = x}
        code(f, x) == {OwnCode(f, s) : s \in named(f, x)}
        names == {s.name : s \in NamedSpans(old) \cup NamedSpans(new)}
    IN  {x \in names : /\ Cardinality(named(old, x)) =< 1 /\ Cardinality(named(new, x)) =< 1
                       /\ code(old, x) # code(new, x)
                       /\ (code(old, x) \cup code(new, x)) # {<< >>}}

Blamed(r, path) == {c.symbol : c \in {x \in r.candidates : x.path = path}}

MissedInDiff(r) ==
    LET old == world.tarballs[r.version].files
        new == world.tarballs[r.fixed].files
    IN  {p \in DOMAIN old \cap DOMAIN new :
            /\ ClassifyPath(p) = {} /\ SupportedSourceFile(p)
            /\ ~Minified(old[p]) /\ ~Minified(new[p])
            /\ ~(ChangedFunctions(old[p], new[p]) \subseteq Blamed(r, p))}

MissedInPatch(r, commit) ==
    LET c == world.commits[commit]
        code == {f \in ToSet(c.files) : /\ ~f.binary /\ f.status = "modified"
                                        /\ ClassifyPath(f.path) = {} /\ SupportedSourceFile(f.path)}
    IN  {f.path : f \in {x \in code :
            LET old == world.trees[c.parent][x.path]
                new == world.trees[commit][x.path]
            IN  /\ ~Minified(old) /\ ~Minified(new)
                /\ ~(ChangedFunctions(old, new) \subseteq Blamed(r, x.path))}}

\* Every function whose own code a fix changes is a candidate: what the diff or
\* the patch misses would be reported as not reached (diffparse.go DiffLines,
\* attribute.go attributeChanges).
NoChangedFunctionMissed ==
    \A i \in DOMAIN results : Fresh(i) =>
        LET r == results[i]
        IN  /\ r.method = "version_diff" => MissedInDiff(r) = {}
            /\ r.method = "patch_reference" /\ i \notin refused =>
                  \A k \in DOMAIN pending[i].fixes : MissedInPatch(r, pending[i].fixes[k].commit) = {}

\* Without a fixed version of its own, a finding is compared with the first
\* release after the installed one that the record does not call affected, when
\* no fix lies inside another of its ranges (advisory.go FixedVersionFor).
FixedIsTheFirstFixed ==
    LET after == {v \in DOMAIN world.tarballs : v > Current.version}
    IN  work.stage = "metadata" /\ work.known # {} /\ Current.fixed = NoVersion
        /\ Affected(Rec, Current.package, Current.version) =>
            LET clean == {v \in after : ~Affected(Rec, Current.package, v)}
            IN  work.fixed = IF clean = {} THEN NoVersion ELSE Min(clean)

-----------------------------------------------------------------------------
ClosedNames(r) ==
    \A c \in {x \in r.candidates : Closed(x.visibility)} :
        NamesTheRoutes(world.tarballs[r.version], c.symbol, c.path, c.visibility)

\* A candidate that can support a negative names every way an application
\* reaches it, when the entry module is the top of the package and does not load
\* the file from inside one of its functions (visibility.go resolve).
ClosedNamesTheRoutes ==
    \A i \in DOMAIN results : Fresh(i) =>
        \A c \in {x \in results[i].candidates : Closed(x.visibility)} :
            LET tb == world.tarballs[results[i].version]
            IN  EntryIsTheTop(tb, c.path) => NamesTheRoutes(tb, c.symbol, c.path, c.visibility)

\* The same without that condition.
ClosedIsExhaustive == \A i \in DOMAIN results : Fresh(i) => ClosedNames(results[i])

-----------------------------------------------------------------------------
\* No finding is refused a request because a tag check has spent it
\* (localise.go LocaliseAll).
TagChecksComeLast ==
    [][refused' # refused => \A i \in DOMAIN results : results[i].checks = << >>]_vars

\* Lines one fix adds to a file, without those that were there before.
AddsTo(commit, change) ==
    LET parent == world.commits[commit].parent
        added == ChangedLines(Patch(world, commit, change)).added
        had == IF parent # NoCommit /\ Has(world, parent, change.path)
               THEN Lines(world.trees[parent][change.path]) ELSE {}
    IN  DistinctiveLines(world.trees[commit][change.path], added) \ had

Carries(release, commit) ==
    LET read == {f \in ToSet(world.commits[commit].files) :
                    /\ ~f.binary /\ f.status # "removed"
                    /\ ClassifyPath(f.path) = {} /\ SupportedSourceFile(f.path)}
        adding == {f \in read : AddsTo(commit, f) # {}}
        there(f) == /\ Has(world, release, f.path)
                    /\ AddsTo(commit, f) \subseteq Lines(world.trees[release][f.path])
    IN  commit \in world.ancestors[release] \/ (adding # {} /\ \A f \in adding : there(f))

CheckIsTrue(check) ==
    check.result = "verified" =>
        IF check.role = "vulnerable"
        THEN ToSet(check.fixes) \cap world.ancestors[check.release] = {}
        ELSE \E k \in DOMAIN check.fixes : Carries(check.release, check.fixes[k])

\* A release verified against the fix has it, all of it, and a vulnerable one
\* descends from no part of it (provenance.go tagCheck, contentPresent).
TagChecksAreTrue ==
    report.stage = "none" => \A i \in DOMAIN results \ refused : \A k \in DOMAIN results[i].checks :
        CheckIsTrue(results[i].checks[k])

-----------------------------------------------------------------------------
Refetched == report.stage = "online" /\ report.next = Len(results)

\* No request was refused and every service answered.
AllAnswered == left > 0 /\ report.left > 0 /\ outages = scenario.outages

\* The finding's own identifier is in the record, not only one of its aliases.
NamedItself(r) ==
    \A a \in r.artefacts : a.id.kind = "advisory" =>
        NamesFinding(a.content, {r.vulnerability})

\* An artefact was not what its source says it is, or the candidate is from the
\* removed lines of a renamed file, which are cited under the name it had.
Expected(issue) ==
    \/ issue.what = "cited artefact is not verified"
    \/ /\ issue.what = "candidate is in another file"
       /\ \E c \in DOMAIN world.commits : \E f \in ToSet(world.commits[c].files) : f.status = "renamed"

\* A document the localiser wrote is accepted by the verifier: offline, where an
\* error other than the expected ones would say that evidence is not cited
\* (verify.go VerifyDocument), and, if it was accepted there, again with the
\* network while nothing has changed and everything answers (verify.go Refetch).
HonestDocumentVerifies ==
    /\ report.stage = "offline" => \A issue \in Errors(report.issues) : Expected(issue)
    /\ /\ Refetched /\ AllAnswered /\ world = scenario.world
       /\ Errors(VerifyDocument(results)) = {}
       /\ \A r \in ToSet(results) : NamedItself(r)
       => Errors(report.issues) = {}

StillThere(r, a) ==
    /\ a.id.kind = "source_file" => world.trees[a.id.commit][a.id.path] = a.content
    /\ a.id.kind = "tarball" => world.tarballs[a.id.version] = a.content
    /\ a.id.kind = "advisory" =>
          AdvisoryVerified(world.records[a.url], {r.vulnerability}, r.package)

TagNow(repo, version) ==
    IF <<repo, version>> \in DOMAIN world.tags THEN world.tags[<<repo, version>>].commit ELSE NoCommit

StillTagged(r, check) ==
    check.result = "verified" /\ Issue("warning", r.finding, check.role, "not re-run") \notin report.issues =>
        check.tag = TagNow(check.repo, check.version)

StillTrue(r) == /\ \A a \in r.artefacts : StillThere(r, a)
                /\ \A check \in ToSet(r.checks) : StillTagged(r, check)

\* After the services have changed, a verification without errors vouches for
\* them as they are now, for each result on its own (verify.go Refetch).
CleanReportIsCurrent ==
    Refetched /\ Errors(report.issues) = {} => \A r \in ToSet(results) : StillTrue(r)
===============================================================================

--------------------------- MODULE VerifyProvenance ---------------------------
(***************************************************************************)
(* The verification of a localisation document                             *)
(* (internal/localisation/verify.go): without the network, that every      *)
(* candidate cites verified artefacts of its result; with it, that every   *)
(* cited artefact, visibility and tag check is still what was recorded.    *)
(***************************************************************************)
EXTENDS PatchReference, PackageModel

CONSTANT TooLarge   \* a tarball over the size or count limit

\* A candidate of the document and, when its package was read, its visibility.
Placed(c, visibility) ==
    [symbol |-> c.symbol, path |-> c.path, evidence |-> c.evidence, visibility |-> visibility]

Unplaced == [kind |-> "unset", via |-> {}, complete |-> FALSE]

\* One result of the document.  advisory is the identifier in the advisory
\* artefact's URL; patch is the first commit used.
Result(f, method) ==
    [finding |-> f.id, vulnerability |-> f.vulnerability, package |-> f.package,
     version |-> f.version, fixed |-> f.fixed, method |-> method, confidence |-> "none",
     candidates |-> {}, artefacts |-> {}, patch |-> NoCommit, checks |-> << >>]

Issue(severity, finding, about, what) ==
    [severity |-> severity, finding |-> finding, about |-> about, what |-> what]

Errors(issues) == {i \in issues : i.severity = "error"}

EvidenceKind(method) == CASE method = "patch_reference" -> "source_file"
                          [] method = "version_diff" -> "tarball"
                          [] OTHER -> "advisory"

-----------------------------------------------------------------------------
\* Without the network.
CitationIssues(r, c, id) ==
    LET cited == {a \in r.artefacts : a.id = id}
        said(what) == Issue("error", r.finding, c.symbol, what)
    IN  IF cited = {} THEN {said("cited artefact is not recorded")}
        ELSE {said("cited artefact is not verified") : a \in {x \in cited : ~x.verified}}
             \cup (IF id.kind = EvidenceKind(r.method) THEN {} ELSE {said("wrong kind of artefact")})
             \cup (IF id.kind = "source_file" /\ id.path # c.path
                   THEN {said("candidate is in another file")} ELSE {})

CandidateIssues(r, c) ==
    IF c.evidence = {} THEN {Issue("error", r.finding, c.symbol, "cites no artefact")}
    ELSE UNION {CitationIssues(r, c, id) : id \in c.evidence}

TagRecordInvalid(r, check) ==
    \/ check.version # (IF check.role = "fixed" THEN r.fixed ELSE r.version)
    \/ check.fixes = << >>

TagRecordIssues(r) ==
    LET checks == ToSet(r.checks)
        warned(check, what) == Issue("warning", r.finding, check.role, what)
    IN  {Issue("error", r.finding, c.role, "invalid tag check") : c \in {x \in checks : TagRecordInvalid(r, x)}}
        \cup {warned(c, c.result) : c \in {x \in checks : x.result # "verified"}}
        \cup {warned(c, "the git tag was used") :
                 c \in {x \in checks : x.head # NoCommit /\ x.release \notin {NoCommit, x.head}}}
        \cup (IF r.fixed = NoVersion \/ \E c \in checks : c.role = "fixed" THEN {}
              ELSE {Issue("warning", r.finding, "fixed", "no tag check")})
        \cup (IF r.patch = NoCommit \/ \E a \in r.artefacts : a.id.commit = r.patch THEN {}
              ELSE {Issue("warning", r.finding, "patch", "only the parent side is recorded")})

OfflineIssues(r) ==
    (UNION {CandidateIssues(r, c) : c \in r.candidates})
    \cup (IF r.method # "unknown" /\ r.candidates = {}
          THEN {Issue("error", r.finding, r.method, "no candidates")} ELSE {})
    \cup (IF r.method = "unknown" /\ (r.candidates # {} \/ r.confidence # "none")
          THEN {Issue("error", r.finding, r.method, "unknown with candidates")} ELSE {})
    \cup (IF r.method = "patch_reference" THEN TagRecordIssues(r) ELSE {})

VerifyDocument(results) ==
    (UNION {OfflineIssues(r) : r \in ToSet(results)})
    \cup {Issue("error", results[i].finding, "findingId", "repeated") :
             i \in {k \in DOMAIN results : \E j \in 1 .. k - 1 : results[j].finding = results[k].finding}}

-----------------------------------------------------------------------------
\* With the network, one request after the other.  s holds the requests left,
\* the artefacts already asked for with what came back (body is empty when
\* nothing did) and the issues; of the result it is at, the artefacts noted with
\* what they gave and the tag checks made again.  up says whether OSV or the
\* registry answers.
Answer(severity, what, body) == [severity |-> severity, what |-> what, body |-> body]

RefetchOne(w, left, up, a) ==
    LET id == a.id
        failed(what) == Answer("error", what, {})
    IN  CASE id.kind = "source_file" ->
                IF left = 0 \/ ~Has(w, id.commit, id.path) THEN failed("unreachable")
                ELSE IF w.trees[id.commit][id.path] # a.content \/ id \in w.misread
                     THEN failed("changed")
                ELSE Answer("none", "same", {a.content})
          [] id.kind = "tarball" ->
                IF ~up \/ w.tarballs[id.version] \in {Missing, TooLarge} THEN failed("unreachable")
                ELSE IF w.tarballs[id.version] # a.content THEN failed("changed")
                ELSE IF ~a.content.verified THEN failed("not the registry's bytes")
                ELSE Answer("none", "same", {a.content})
          [] OTHER ->
                IF ~up \/ a.url \notin DOMAIN w.records THEN failed("unreachable")
                ELSE IF w.records[a.url] # a.content THEN Answer("warning", "changed", {w.records[a.url]})
                ELSE Answer("none", "same", {a.content})

\* Mutant: a record is identified for the result that downloads it.
BorrowedIdentity(r, answer) == {}

\* The download is kept for the artefact; the record's identity is checked for
\* each result, under the result's own identifier only.
IdentityIssues(r, answer) ==
    {Issue("error", r.finding, "advisory", "another advisory") :
        rec \in {x \in answer.body : ~AdvisoryVerified(x, {r.vulnerability}, r.package)}}

Noted(s, r, a, answer) ==
    [s EXCEPT !.fetched = @ \cup {[key |-> <<r.package, a>>, answer |-> answer]},
              !.noted = @ \cup {a}, !.got = @ @@ (a.id :> answer),
              !.issues = @ \cup (IF answer.severity = "none" THEN {}
                                 ELSE {Issue(answer.severity, r.finding, a.id.kind, answer.what)})
                           \cup (IF a.id.kind = "advisory" THEN IdentityIssues(r, answer) ELSE {})]

Kept(s, r, a) == {x \in s.fetched : x.key = <<r.package, a>>}

RefetchArtefact(w, s, up, r, a) ==
    LET spent == IF a.id.kind = "source_file" THEN [s EXCEPT !.left = Spend(@, 1)] ELSE s
    IN  IF Kept(s, r, a) = {} THEN Noted(spent, r, a, RefetchOne(w, s.left, up, a))
        ELSE Noted(s, r, a, (CHOOSE x \in Kept(s, r, a) : TRUE).answer)

\* The symbol occurs in the source, or as its default export.
FileMentions(file, symbol) ==
    IF symbol = "default"
    THEN \E s \in NamedSpans(file) : "default" \in SpanNames(s) \cup ExportedNames(file, s.name)
    ELSE symbol \in UNION {SpanNames(s) : s \in Spans(file)} \cup {e.name : e \in file.exports}

Mentions(id, body, path, symbol) ==
    CASE id.kind = "source_file" -> FileMentions(body, symbol)
      [] id.kind = "tarball" -> path \in DOMAIN body.files /\ FileMentions(body.files[path], symbol)
      [] OTHER -> symbol \in body.functions \cup {x.name : x \in body.words}
                             \cup UNION {x.functions : x \in body.affected}

OccursIssues(r, got) ==
    LET read(c) == {id \in c.evidence \cap DOMAIN got : got[id].severity # "error"}
        found(c) == \E id \in read(c) : \E b \in got[id].body : Mentions(id, b, c.path, c.symbol)
    IN  {Issue("error", r.finding, c.symbol, "does not occur") :
            c \in {x \in r.candidates : read(x) # {} /\ ~found(x)}}

\* Visibility is resolved again, from the tarball as it is now.
VisibilityIssues(r, got) ==
    LET known == {c \in r.candidates : c.visibility.kind \in {"public", "internal"}}
        id == TarballId(r.version)
        there == id \in DOMAIN got /\ got[id].severity # "error"
        tb == CHOOSE b \in got[id].body : TRUE
    IN  IF known = {} THEN {}
        ELSE IF ~there THEN {Issue("error", r.finding, "visibility", "no tarball")}
        ELSE {Issue("error", r.finding, c.symbol, "another visibility") :
                 c \in {x \in known : Resolve(BuildPackageModel(tb), x.symbol, x.path) # x.visibility}}

-----------------------------------------------------------------------------
\* Mutant: every changed file is read again, one that no longer exists too.
ReadEveryFile(w, s, commit, change) ==
    IF ~s.ok THEN s
    ELSE [s EXCEPT !.left = Spend(@, 1), !.ok = s.left > 0 /\ Has(w, commit, change.path)]

\* What a fix adds, read again from the fix commit; a file that cannot be read
\* leaves it unread.
ReadFixFile(w, s, commit, change) ==
    LET parent == w.commits[commit].parent
        added == ChangedLines(Patch(w, commit, change)).added
        there == s.left > 0 /\ Has(w, commit, change.path)
                 /\ SourceId(commit, change.path) \notin w.misread
        lines == DistinctiveLines(w.trees[commit][change.path], added)
    IN  IF \/ ~s.ok \/ ClassifyPath(change.path) # {} \/ ~SupportedSourceFile(change.path)
           \/ change.binary \/ change.status = "removed" \/ added = {}
        THEN s
        ELSE [s EXCEPT !.left = Spend(@, 1), !.ok = there,
                       !.content = IF there /\ lines # {}
                                   THEN Append(@, FixContent(commit, parent, change.path, lines)) ELSE @]

ReadFixContent(w, left, commit) ==
    LET read(s, change) == ReadFixFile(w, s, commit, change)
        start == [left |-> Spend(left, 1), ok |-> left > 0 /\ commit \in DOMAIN w.commits,
                  content |-> << >>]
    IN  IF start.ok THEN FoldLeft(read, start, w.commits[commit].files) ELSE start

\* Fixes are read again, once each, for a check that rests on their content.
TakeFix(s, fix, known) ==
    [left |-> known.left, ok |-> known.ok, content |-> s.content \o known.content,
     read |-> s.read \cup {[fix |-> fix, ok |-> known.ok, content |-> known.content]}]

FixAgain(w, s, fix) ==
    LET seen == {x \in s.read : x.fix = fix}
        known(x) == [left |-> s.left, ok |-> x.ok, content |-> x.content]
    IN  IF ~s.ok THEN s
        ELSE IF seen = {} THEN TakeFix(s, fix, ReadFixContent(w, s.left, fix))
        ELSE TakeFix(s, fix, known(CHOOSE x \in seen : TRUE))

FixesAgain(w, s, check) ==
    LET again(t, fix) == FixAgain(w, t, fix)
        start == [left |-> s.left, ok |-> TRUE, content |-> << >>, read |-> s.read]
    IN  IF check.content = << >> THEN start ELSE FoldLeft(again, start, check.fixes)

\* The check made again is compared in every field.
Compared(s, r, check, again) ==
    LET said(severity, what) == {Issue(severity, r.finding, check.role, what)}
    IN  [s EXCEPT !.left = again.left,
                  !.issues = @ \cup (IF again.check = check THEN {}
                                     ELSE IF again.check.result = "unavailable"
                                     THEN said("warning", "not re-run")
                                     ELSE said("error", "another tag check"))]

CheckAgain(w, s, registry, r, check, fixes) ==
    LET spent == [s EXCEPT !.left = fixes.left, !.read = fixes.read]
        again == OneCheck(w, fixes.left, registry, check.repo, check.fixes, fixes.content,
                          check.version, check.role)
        unread == Issue("error", r.finding, check.role, "fix content not read")
    IN  IF fixes.ok THEN Compared(spent, r, check, again)
        ELSE [spent EXCEPT !.issues = @ \cup {unread}]

RefetchCheck(w, s, registry, r, check) ==
    IF TagRecordInvalid(r, check)
    THEN [s EXCEPT !.issues = @ \cup {Issue("error", r.finding, check.role, "invalid tag check")}]
    ELSE CheckAgain(w, s, registry, r, check, FixesAgain(w, s, check))

\* The candidates, by what the artefacts gave.
Judged(s, r) ==
    [s EXCEPT !.judged = TRUE,
              !.issues = @ \cup VisibilityIssues(r, s.got) \cup OccursIssues(r, s.got)]

\* The k-th tag check of the result.
Rechecked(w, s, registry, r, k) ==
    [RefetchCheck(w, s, registry, r, r.checks[k]) EXCEPT !.rechecked = @ \cup {k}]
===============================================================================

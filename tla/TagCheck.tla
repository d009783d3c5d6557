------------------------------- MODULE TagCheck -------------------------------
(***************************************************************************)
(* The release tag checks (internal/localisation/provenance.go): does the  *)
(* fixed release carry a commit the advisory links, and does the           *)
(* vulnerable one carry none?  A commit is carried when it is an ancestor  *)
(* of the release, or (a backport, a squash merge) when every line it adds *)
(* is in the release.  Each GitHub request takes one from `left`, the      *)
(* requests the rate limit still allows; the others fail.                  *)
(***************************************************************************)
EXTENDS PackageSource, SequencesExt

CONSTANTS NoCommit,
          Spellings,    \* how many spellings of a release tag are tried
          Short         \* lines too short to be evidence of anything

ASSUME SpellingsAssumption == Spellings \in Nat \ {0}

\* Requests left after n more.
Spend(left, n) == IF n =< left THEN left - n ELSE 0

\* A read of a file at a commit: Missing is a 404, anything else went through.
Has(w, commit, path) == commit \in DOMAIN w.trees /\ path \in DOMAIN w.trees[commit]

Lines(file) == ToSet(Text(file))

\* What one fix commit adds to one file.
FixContent(commit, parent, path, lines) ==
    [commit |-> commit, parent |-> parent, path |-> path, lines |-> lines]

DistinctiveLines(file, numbers) ==
    {Text(file)[n] : n \in {k \in numbers \cap DOMAIN Text(file) :
                               IsCodeLine(file, k) /\ Text(file)[k] \notin Short}}

-----------------------------------------------------------------------------
\* A release tag is found under one of the spellings; an annotated tag takes one
\* more request.
TagCommit(w, left, repo, version) ==
    LET tagged == <<repo, version>> \in DOMAIN w.tags
        tag == w.tags[<<repo, version>>]
        needed == IF tagged THEN tag.spelling + (IF tag.annotated THEN 1 ELSE 0) ELSE Spellings
    IN  [left |-> Spend(left, needed),
         commit |-> IF tagged /\ needed =< left THEN tag.commit ELSE NoCommit]

\* A release contains the commits it descends from.
Descends(w, release, fix) == fix \in w.ancestors[release]

\* The linked commits by where they stand to one release.  Each comparison takes a request; the first that fails, in
\* another repository or for want of requests, leaves the release unplaced.
Place(w, left, repo, release, fixes) ==
    LET here == w.repos[release] = repo
        all == left > 0 /\ here /\ Len(fixes) =< left
        in(fix) == Descends(w, release, fix)
        out(fix) == ~in(fix)
    IN  IF release = NoCommit \/ ~all
        THEN [left |-> IF release = NoCommit THEN left ELSE IF here THEN 0 ELSE Spend(left, 1),
              release |-> NoCommit, inside |-> << >>, outside |-> << >>]
        ELSE [left |-> left - Len(fixes), release |-> release,
              inside |-> SelectSeq(fixes, in), outside |-> SelectSeq(fixes, out)]

\* The first release commit every fix could be compared with: the registry's
\* gitHead is tried before the tag.
FirstComparable(w, left, repo, head, tag, fixes) ==
    LET first == Place(w, left, repo, head, fixes)
    IN  IF first.release # NoCommit \/ tag = head THEN first
        ELSE Place(w, first.left, repo, tag, fixes)

-----------------------------------------------------------------------------
\* Mutant: lines the parent already has are evidence of the fix.
AnyLine(w, s, entry) == IF s.ok THEN [s EXCEPT !.mine = Append(@, entry)] ELSE s

\* The lines of one entry that the parent's copy of the file does not have.
NewSinceParent(w, s, entry) ==
    IF ~s.ok THEN s
    ELSE IF entry.parent = NoCommit THEN [s EXCEPT !.mine = Append(@, entry)]
    ELSE IF s.left = 0 THEN [s EXCEPT !.ok = FALSE]
    ELSE LET had == IF Has(w, entry.parent, entry.path)
                    THEN Lines(w.trees[entry.parent][entry.path]) ELSE {}
             new == entry.lines \ had
         IN  [s EXCEPT !.left = s.left - 1,
                       !.mine = IF new = {} THEN @ ELSE Append(@, [entry EXCEPT !.lines = new])]

AllThere(w, s, release, entry) ==
    IF ~s.ok THEN s
    ELSE [s EXCEPT !.left = Spend(s.left, 1),
                   !.ok = /\ s.left > 0
                          /\ Has(w, release, entry.path)
                          /\ entry.lines \subseteq Lines(w.trees[release][entry.path])]

\* Is every line the fix adds in the release's copy of the same file?
AllOfItThere(w, release, mine) ==
    LET there(s, e) == AllThere(w, s, release, e)
        found(s) == [left |-> s.left, found |-> s.ok]
    IN  IF ~mine.ok \/ mine.mine = << >> THEN [left |-> mine.left, found |-> FALSE]
        ELSE found(FoldLeft(there, [left |-> mine.left, ok |-> TRUE], mine.mine))

ContentPresent(w, left, release, fix, content) ==
    LET ofFix(e) == e.commit = fix
        new(s, e) == NewSinceParent(w, s, e)
    IN  AllOfItThere(w, release, FoldLeft(new, [left |-> left, ok |-> TRUE, mine |-> << >>],
                                          SelectSeq(content, ofFix)))

-----------------------------------------------------------------------------
\* The repositories of the linked commits, each once, in order.
Repositories(fixes) ==
    LET add(seq, f) == IF f.repo \in ToSet(seq) THEN seq ELSE Append(seq, f.repo)
    IN  FoldLeft(add, << >>, fixes)

\* One release against the linked commits of one repository.
Check(repo, version, role, fixes, head, tag) ==
    [repo |-> repo, version |-> version, role |-> role, fixes |-> fixes, head |-> head, tag |-> tag,
     release |-> NoCommit, byAncestry |-> << >>, byContent |-> << >>, content |-> << >>,
     basis |-> "none", result |-> "unavailable"]

\* The vulnerable release descends from no linked commit.
VulnerableVerdict(check, first) ==
    [left |-> first.left,
     check |-> [check EXCEPT !.release = first.release, !.byAncestry = first.inside,
                             !.basis = "ancestry",
                             !.result = IF first.inside = << >> THEN "verified" ELSE "mismatch"]]

\* The fixed release descends from one, or has all that one adds.
FixedVerdict(check, first, content, read) ==
    LET carried(e) == e.commit \in ToSet(read.found)
    IN  [left |-> read.left,
         check |-> [check EXCEPT
            !.release = first.release, !.byAncestry = first.inside, !.byContent = read.found,
            !.content = SelectSeq(content, carried),
            !.basis = IF first.inside # << >> THEN "ancestry"
                      ELSE IF read.found # << >> THEN "content" ELSE "none",
            !.result = IF first.inside \o read.found # << >> THEN "verified" ELSE "mismatch"]]

\* The commits that are no ancestors are looked for by their content.
ByContent(w, check, first, content) ==
    LET took(s, fix, present) == [left |-> present.left,
                                  found |-> IF present.found THEN Append(s.found, fix) ELSE s.found]
        read(s, fix) == took(s, fix, ContentPresent(w, s.left, first.release, fix, content))
    IN  FixedVerdict(check, first, content,
                     FoldLeft(read, [left |-> first.left, found |-> << >>], first.outside))

Judge(w, check, first, content) ==
    IF first.release = NoCommit THEN [left |-> first.left, check |-> check]
    ELSE IF check.role = "vulnerable" THEN VulnerableVerdict(check, first)
    ELSE ByContent(w, check, first, content)

AgainstTag(w, repo, fixes, content, version, role, head, tag) ==
    Judge(w, Check(repo, version, role, fixes, head, tag.commit),
          FirstComparable(w, tag.left, repo, head, tag.commit, fixes), content)

OneCheck(w, left, registry, repo, fixes, content, version, role) ==
    AgainstTag(w, repo, fixes, content, version, role,
               IF registry THEN w.heads[version] ELSE NoCommit, TagCommit(w, left, repo, version))

\* The fixed release, when one is known, and the vulnerable one, for each
\* repository of the linked commits.
TagChecks(w, left, registry, fixes, content, vulnerable, fixed) ==
    LET releases == (IF fixed = 0 THEN << >> ELSE <<[version |-> fixed, role |-> "fixed"]>>)
                    \o <<[version |-> vulnerable, role |-> "vulnerable"]>>
        of(repo) == LET here(f) == f.repo = repo
                    IN  [i \in DOMAIN SelectSeq(fixes, here) |-> SelectSeq(fixes, here)[i].commit]
        took(s, c) == [left |-> c.left, checks |-> Append(s.checks, c.check)]
        one(s, repo, r) == took(s, OneCheck(w, s.left, registry, repo, of(repo), content,
                                            r.version, r.role))
        both(s, repo) == LET check(t, r) == one(t, repo, r) IN FoldLeft(check, s, releases)
    IN  FoldLeft(both, [left |-> left, checks |-> << >>], Repositories(fixes))
===============================================================================

---------------------------- MODULE PatchReference ----------------------------
(***************************************************************************)
(* The patch_reference method (attemptPatch in localise.go, patch.go,      *)
(* provenance.go): the commits the advisory links, their changed files on  *)
(* both sides, and the functions those changes are in.  Requests go to     *)
(* GitHub one after the other and share its rate limit.                    *)
(***************************************************************************)
EXTENDS Attribution, Advisory, TagCheck, TLC

\* An artefact is named by what it is a copy of; content stands for its hash.
Id(kind, commit, path, version) ==
    [kind |-> kind, commit |-> commit, path |-> path, version |-> version]
Artefact(id, url, content, verified) ==
    [id |-> id, url |-> url, content |-> content, verified |-> verified]

SourceId(commit, path) == Id("source_file", commit, path, NoVersion)
TarballId(version) == Id("tarball", NoCommit, NoFile, version)
AdvisoryArtefactId == Id("advisory", NoCommit, NoFile, NoVersion)

\* What one method found.
Attempt(method, outcome, candidates, artefacts, notes) ==
    [method |-> method, outcome |-> outcome, candidates |-> candidates, artefacts |-> artefacts,
     notes |-> notes, excluded |-> {}, fixes |-> << >>, content |-> << >>, tarball |-> Missing]

-----------------------------------------------------------------------------
\* The commits of the linked pull requests; one that cannot be read is skipped.
PullRequestCommits(w, left, pulls) ==
    LET at(p, shas) == [i \in DOMAIN shas |-> [repo |-> p.repo, commit |-> shas[i]]]
        read(s, p) == [left |-> Spend(s.left, 1), refused |-> s.refused \/ s.left = 0,
                       commits |-> IF s.left > 0 /\ p.target \in DOMAIN w.pulls
                                   THEN s.commits \o at(p, w.pulls[p.target]) ELSE s.commits]
    IN  FoldLeft(read, [left |-> left, refused |-> FALSE, commits |-> << >>], pulls)

\* The commits whose message names the vulnerability.
SearchCommits(w, repo) ==
    IF repo \notin DOMAIN w.messages THEN << >>
    ELSE [i \in DOMAIN w.messages[repo] |-> [repo |-> repo, commit |-> w.messages[repo][i]]]

\* The linked commits and those of the linked pull requests, else what the
\* search of the package's repository finds.
OrSearched(w, s, refs, registry, searched) ==
    LET repo == IF refs.repo = NoRepo /\ registry THEN w.repository ELSE refs.repo
    IN  IF s.commits # << >> \/ ~searched \/ repo = NoRepo THEN s
        ELSE [s EXCEPT !.commits = SearchCommits(w, repo)]

FixCommits(w, left, refs, registry, searched) ==
    LET direct == [i \in DOMAIN refs.commits |->
                      [repo |-> refs.commits[i].repo, commit |-> refs.commits[i].target]]
        first(s) == [s EXCEPT !.commits = direct \o @]
    IN  OrSearched(w, first(PullRequestCommits(w, left, refs.pulls)), refs, registry, searched)

\* The commit the fixed release was published from, when it is one of them.
Wanted(w, commits, registry, fixed) ==
    LET heads == {i \in DOMAIN commits : /\ registry /\ fixed # NoVersion
                                         /\ commits[i].commit = w.heads[fixed]}
    IN  IF heads = {} THEN commits ELSE SelectSeq(commits, LAMBDA c : c.commit = w.heads[fixed])

-----------------------------------------------------------------------------
\* A file at a commit, read once: the answer, also a failure, is kept.
Fetch(w, s, commit, path) ==
    LET there == s.left > 0 /\ Has(w, commit, path)
        id == SourceId(commit, path)
    IN  IF id \in DOMAIN s.cache THEN s
        ELSE [s EXCEPT !.left = Spend(s.left, 1),
                       !.refused = @ \/ s.left = 0,
                       !.cache = @ @@ (id :> IF there THEN w.trees[commit][path] ELSE Missing),
                       !.artefacts = @ \cup (IF there
                           THEN {Artefact(id, path, w.trees[commit][path], id \notin w.misread)}
                           ELSE {})]

\* GitHub's patch of one file of a commit.
Patch(w, commit, change) ==
    LET parent == w.commits[commit].parent
        text(there, c, path) == IF there THEN Text(w.trees[c][path]) ELSE << >>
        old == text(change.status # "added", parent, change.old)
        new == text(change.status # "removed", commit, change.path)
    IN  Hunk(old, new, DiffLines(old, new))

\* A side of a changed file whose changed lines are wanted.
WithSide(w, s, side, wanted, commit, path, numbers) ==
    LET id == SourceId(commit, path)
        read(t) == IF t.cache[id] = Missing THEN [t EXCEPT !.unread = TRUE]
                   ELSE [t EXCEPT !.sides[side] = Side(t.cache[id], numbers, id)]
    IN  IF wanted THEN read(Fetch(w, s, commit, path)) ELSE s

\* The lines a fix adds are kept for the tag checks.
KeepFile(s, commit, parent, path) ==
    LET new == s.sides.new
        lines == IF new = NoSide THEN {} ELSE DistinctiveLines(new.source, new.lines)
    IN  [s EXCEPT !.files = @ \cup {ChangedFile(path, new, s.sides.old, s.unread, FALSE)},
                  !.code = TRUE,
                  !.content = IF lines = {} THEN @ ELSE Append(@, FixContent(commit, parent, path, lines))]

\* One changed file: its added lines are looked up in the fixed file and its
\* removed lines in the parent's, under the path it had there.
ReadSides(w, s, commit, change, lines) ==
    LET parent == w.commits[commit].parent
        wantNew == lines.added # {} /\ change.status # "removed"
        wantOld == lines.removed # {} /\ parent # NoCommit /\ change.status # "added"
        fresh == [s EXCEPT !.sides = [new |-> NoSide, old |-> NoSide], !.unread = FALSE]
    IN  KeepFile(WithSide(w, WithSide(w, fresh, "new", wantNew, commit, change.path, lines.added),
                          "old", wantOld, parent, change.old, lines.removed),
                 commit, parent, change.path)

ReadChange(w, s, commit, change) ==
    IF ClassifyPath(change.path) # {}
    THEN [s EXCEPT !.files = @ \cup {ChangedFile(change.path, NoSide, NoSide, FALSE, FALSE)}]
    ELSE IF change.binary \/ ~SupportedSourceFile(change.path) THEN s
    ELSE ReadSides(w, s, commit, change, ChangedLines(Patch(w, commit, change)))

\* One commit, once; a commit that changes no source is a release or docs commit.
ReadCommit(w, s, c) ==
    LET asked == [s EXCEPT !.left = Spend(s.left, 1), !.refused = @ \/ s.left = 0, !.code = FALSE,
                           !.seen = @ \cup {c}]
        read(t, change) == ReadChange(w, t, c.commit, change)
        settle(t) == IF t.code THEN [t EXCEPT !.fixes = Append(@, c)] ELSE [t EXCEPT !.nonCode = TRUE]
    IN  IF c \in s.seen THEN s
        ELSE IF s.left = 0 \/ c.commit \notin DOMAIN w.commits THEN asked
        ELSE settle(FoldLeft(read, asked, w.commits[c.commit].files))

\* What the commits' changes are attributed to.
PatchAttempt(s, commits, found) ==
    LET outcome == CASE commits = << >> -> "empty"
                     [] found.candidates # {} -> "hit"
                     [] s.fixes # << >> -> "empty"
                     [] s.nonCode -> "non_code"
                     [] OTHER -> "error"
    IN  [Attempt("patch_reference", outcome, found.candidates,
                 IF s.fixes = << >> THEN {} ELSE s.artefacts, found.notes)
         EXCEPT !.excluded = found.excluded, !.fixes = s.fixes, !.content = s.content]

Attributed(s, commits) ==
    [left |-> s.left, refused |-> s.refused,
     attempt |-> PatchAttempt(s, commits, AttributeChanges(s.files))]

ReadCommits(w, commits, wanted) ==
    LET read(s, c) == ReadCommit(w, s, c)
        start == [left |-> commits.left, refused |-> commits.refused, cache |-> [x \in {} |-> Missing],
                  files |-> {}, artefacts |-> {}, seen |-> {}, fixes |-> << >>, content |-> << >>,
                  code |-> FALSE, nonCode |-> FALSE, unread |-> FALSE,
                  sides |-> [new |-> NoSide, old |-> NoSide]]
    IN  Attributed(FoldLeft(read, start, wanted), wanted)

\* Every wanted commit with changed source code is attributed, and their
\* candidates are merged.
AttemptPatch(w, left, rec, registry, searched, fixed) ==
    LET read(commits) == ReadCommits(w, commits, Wanted(w, commits.commits, registry, fixed))
    IN  read(FixCommits(w, left, PatchReferences(rec), registry, searched))
===============================================================================

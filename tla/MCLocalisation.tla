---------------------------- MODULE MCLocalisation ----------------------------
(***************************************************************************)
(* Instances of Localisation: one package, its repository and its          *)
(* advisory, in variants.  Versions 1 (installed), 2 and 3 are published;  *)
(* c1 is the vulnerable commit, c2 the fix and c3 a later release.         *)
(***************************************************************************)
EXTENDS Localisation

MCKindOfPath == [x \in {"index", "m", "n", "old", "x"} |-> "code"]
                @@ [x \in {"m.test"} |-> "tests"] @@ [x \in {"m.css"} |-> "other"]
MCCommentLines == {"// note"}
MCShort == {"end", "}"}
MCGhsa == {"GHSA-1", "GHSA-2"}
MCWellFormed == MCGhsa \cup {"CVE-1", "CVE-2"}
MCStopwords == {"the"}

-----------------------------------------------------------------------------
\* Functions and files.
Fn(name, body, inner, uses, loads) ==
    Block("function", name, NoName, inner, <<name>> \o body \o <<"end">>, uses, loads)
Nested(name, body, inner, last) ==
    Block("function", name, NoName, inner, <<name>> \o body \o <<last>>, {inner}, {})
Aliased(name, alias, uses) ==
    Block("function", name, alias, NoName, <<name>> \o <<"a">> \o <<"end">>, uses, {})
Plain(name, body) == Fn(name, body, NoName, {}, {})
Statement(uses) == Block("statement", NoName, NoName, NoName, <<"run">>, uses, {})
Exposes(n, l) == Export(n, "local", l, NoFile, Whole)
Passes(n, m, member) == Export(n, "module", NoName, m, member)
Bind(l, m, member) == [local |-> l, module |-> m, member |-> member]

Of(blocks, names) == File(blocks, {Exposes(n, n) : n \in names}, {}, {})
F(body) == Of(<<Plain("f", body)>>, {"f"})
FG(f, g) == Of(<<Plain("f", f), Plain("g", g)>>, {"f", "g"})

\* Every function of the file, with a line added.
Fixed(file) == [file EXCEPT !.blocks = [i \in DOMAIN file.blocks |->
    IF file.blocks[i].kind # "function" THEN file.blocks[i]
    ELSE [file.blocks[i] EXCEPT !.lines = <<Head(@), "check">> \o Tail(@)]]]

IndexOf(m) == File(<< >>, {Passes("*", m, Whole)}, {}, {})

Entry1(key, targets) == [key |-> key, targets |-> targets]
Dot == Entry1(".", [require |-> "index"])
Plainly == Manifest(TRUE, "index", {Dot}, NoFile, FALSE)
Tar(files) == Tarball(files, Plainly, FALSE, TRUE)

-----------------------------------------------------------------------------
\* The services.
Range12 == <<[introduced |-> 1, fixed |-> NoVersion], [introduced |-> NoVersion, fixed |-> 2]>>
Range34 == <<[introduced |-> 3, fixed |-> NoVersion], [introduced |-> NoVersion, fixed |-> 4]>>
Package(name, ranges, functions) ==
    [ecosystem |-> "npm", name |-> name, ranges |-> ranges, functions |-> functions]
Commit2 == Link("commit", "org/pkg", "c2", FALSE)
Advisory1 == Record("GHSA-1", {"CVE-1"}, {Package("pkg", {Range12, Range34}, {})}, {}, {}, <<Commit2>>)

Change(path) == [path |-> path, old |-> path, status |-> "modified", binary |-> FALSE]
Commit(parent, files) == [parent |-> parent, files |-> files]
Tag(commit, spelling, annotated) == [commit |-> commit, spelling |-> spelling, annotated |-> annotated]

OldM == FG(<<"a">>, <<"b">>)
NewM == FG(<<"a", "check">>, <<"b">>)

\* Version 1 is c1; version 2 is the fix itself.
Base ==
    [records |-> ("GHSA-1" :> Advisory1), pulls |-> << >>, repository |-> NoRepo,
     messages |-> << >>, misread |-> {},
     trees |-> [c1 |-> [m |-> OldM, index |-> IndexOf("m")],
                c2 |-> [m |-> NewM, index |-> IndexOf("m")]],
     commits |-> [c2 |-> Commit("c1", <<Change("m")>>)],
     tags |-> (<<"org/pkg", 1>> :> Tag("c1", 1, FALSE)) @@ (<<"org/pkg", 2>> :> Tag("c2", 2, TRUE)),
     heads |-> <<"c1", "c2", NoCommit, NoCommit>>,
     repos |-> [c1 |-> "org/pkg", c2 |-> "org/pkg", c3 |-> "org/pkg"],
     ancestors |-> [c1 |-> {"c1"}, c2 |-> {"c1", "c2"}, c3 |-> {"c1", "c3"}],
     tarballs |-> <<Tar([m |-> OldM, index |-> IndexOf("m")]), Tar([m |-> NewM, index |-> IndexOf("m")]),
                    Missing, Missing>>]

One == Finding("f1", "CVE-1", <<"GHSA-1">>, TRUE, "pkg", 1, NoVersion)
Two == Finding("f2", "CVE-2", <<"GHSA-1">>, TRUE, "pkg", 1, NoVersion)
OtherPackage == Finding("f2", "CVE-1", <<"GHSA-1">>, TRUE, "other", 1, NoVersion)
Gem == Finding("f2", "CVE-1", <<"GHSA-1">>, FALSE, "gem", 1, NoVersion)
Later(v) == Finding("f2", "GHSA-1", << >>, TRUE, "pkg", v, NoVersion)

Scenario(w, findings, flags, quotas, outage, changes) ==
    [world |-> w, findings |-> findings, options |-> flags, quotas |-> quotas,
     outages |-> outage, changes |-> changes]

Calm(w) == Scenario(w, <<One>>, {{}}, {60}, 0, {})
To(field, value) == [field |-> field, value |-> value]

-----------------------------------------------------------------------------
\* Packages: a fixed file, the entry module, one more file and the manifest.
F0 == Plain("f", <<"a">>)
CallF(name) == Fn(name, <<"b">>, NoName, {"f"}, {})
InlineM == {[module |-> "m", member |-> "f"]}

Modules == {
    F(<<"a">>),
    Of(<<F0, CallF("g")>>, {"g"}),
    File(<<Fn("default", <<"x">>, "f", {"f"}, {})>>,
         {Export("default", "inline", "default", NoFile, Whole)}, {}, {}),
    Of(<<F0, CallF("g")>>, {"f", "g"}),
    File(<<Aliased("default", "f", {})>>, {Export("default", "inline", "default", NoFile, Whole)}, {}, {}),
    Of(<<Aliased("p", "f", {"f"})>>, {"p"}),
    Of(<<Aliased("p", "f", {}), F0, CallF("g")>>, {"p", "g"}),
    Of(<<Aliased("p", "f", {}), Statement({"p"})>>, {"p"}),
    Of(<<F0, Statement({"f"})>>, {"f"}),
    File(<<F0>>, {Exposes("f", "f")}, {}, {"computed"}),
    File(<<F0>>, {Exposes("p", "f")}, {}, {}),
    File(<<F0>>, {Exposes("p", "f"), Exposes("f", "f")}, {}, {}),
    File(<<F0>>, {Exposes("f", "f")}, {}, {"minified"}) }

Using(name, uses, loads, exports, binds) ==
    File(<<Fn(name, <<"u">>, NoName, uses, loads)>>, {Exposes(name, name)} \cup exports, binds, {})

Entries == {
    File(<< >>, {Passes("default", "m", Whole)}, {}, {}),
    File(<< >>, {Passes("p", "m", "f")}, {}, {}),
    File(<< >>, {Passes("f", "m", "f")}, {}, {}),
    File(<< >>, {Passes("p", "m", "default")}, {}, {}),
    IndexOf("m"),
    File(<< >>, {Exposes("f", "f")}, {Bind("f", "m", "f")}, {}),
    Using("u", {"b"}, {}, {}, {Bind("b", "m", Whole)}),
    Using("u", {"f"}, {}, {}, {Bind("f", "m", "f")}),
    Using("u", {}, {}, {}, {}),
    Using("u", {}, InlineM, {}, {}),
    Using("u", {}, InlineM, {Passes("f", "m", "f")}, {}) }

Others == {
    Using("k", {"f"}, {}, {}, {Bind("f", "m", "f")}),
    File(<<Plain("k", << >>)>>, {Exposes("k", "k")}, {}, {"loadsAny"}),
    F(<<"z">>),
    Using("k", {"e"}, {}, {}, {Bind("e", "index", Whole)}) }

Manifests == {
    Manifest(TRUE, "index", NoExports, NoFile, FALSE),
    Plainly,
    Manifest(TRUE, "index", {Dot, Entry1("subpath", [default |-> "m"])}, NoFile, FALSE),
    Manifest(TRUE, "index", {Dot, Entry1("pattern", [default |-> "m"])}, NoFile, FALSE),
    Manifest(TRUE, "index", {Dot}, NoFile, TRUE),
    Manifest(TRUE, "index", {Dot}, "m", FALSE),
    Manifest(TRUE, "index", {Entry1(".", [require |-> "index", import |-> "m"])}, NoFile, FALSE) }

Packages ==
    {Tarball([index |-> e, m |-> m], man, FALSE, TRUE) : e \in Entries, m \in Modules, man \in Manifests}
    \cup {Tarball([index |-> e, m |-> m, x |-> x], Plainly, FALSE, TRUE) :
             e \in Entries, m \in Modules, x \in Others}

Published(tb) ==
    [Base EXCEPT !.trees = [c1 |-> tb.files, c2 |-> [tb.files EXCEPT !.m = Fixed(@)]],
                 !.tarballs[1] = tb]

PackageScenarios == {[Calm(Published(tb)) EXCEPT !.options = {{"skipTags"}}] : tb \in Packages}

-----------------------------------------------------------------------------
\* Two versions of a file, nothing linked: one or two functions in either order,
\* one of them with a function inside.
Bodies == {<< >>, <<"a">>, <<"b", "a">>, <<"// note">>}
Versions ==
    {F(b) : b \in Bodies} \cup {FG(b, c) : b, c \in Bodies}
    \cup {Of(<<Plain("g", c), Plain("f", b)>>, {"f"}) : b, c \in Bodies}
    \cup {Of(<<Nested("f", b, "h", last)>>, {"f"}) : b \in Bodies, last \in {"h() a", "h() b"}}

Unlinked(old, new) ==
    [Base EXCEPT !.records = ("GHSA-1" :> [Advisory1 EXCEPT !.references = << >>]),
                 !.trees = << >>,
                 !.tarballs = <<Tar([m |-> old, index |-> IndexOf("m")]),
                                Tar([m |-> new, index |-> IndexOf("m")]), Missing, Missing>>]

Linked(old, new) ==
    [Base EXCEPT !.trees = [c1 |-> [m |-> old], c2 |-> [m |-> new]]]

DiffScenarios == {Calm(Unlinked(old, new)) : old, new \in Versions}
PatchScenarios ==
    {[Calm(Linked(v[1], v[2])) EXCEPT !.options = {{"skipTags"}}] : v \in
        {p \in Versions \X Versions : p[1] # p[2] /\ p[1].blocks[1].name = "f" /\ p[2].blocks[1].name = "f"}}

-----------------------------------------------------------------------------
\* How the fix and the releases are recorded.
WithAdvisory1(rec) == [Base EXCEPT !.records = ("GHSA-1" :> rec)]

TwoFiles == [Base EXCEPT
    !.trees = [c1 |-> [m |-> OldM, n |-> F(<<"a">>)], c2 |-> [m |-> NewM, n |-> F(<<"a", "guard">>)],
               c3 |-> [m |-> NewM, n |-> F(<<"a">>)]],
    !.commits = [c2 |-> Commit("c1", <<Change("m"), Change("n")>>)]]

\* The fixed release is a backport: not a descendant of the fix.
Backport(w, n) == [w EXCEPT !.heads[2] = "c3", !.tags = << >>,
    !.trees = @ @@ [c3 |-> [m |-> NewM, n |-> n]]]

\* The line the fix adds to f is one that g has.
Repeated == [Base EXCEPT !.trees.c2.m = FG(<<"a", "b">>, <<"b">>)]

Renamed == [Base EXCEPT
    !.trees = [c1 |-> [old |-> OldM], c2 |-> [m |-> FG(<<"check">>, <<"b">>)]],
    !.commits = [c2 |-> Commit("c1", <<[Change("m") EXCEPT !.old = "old", !.status = "renamed"]>>)]]

Added == [Base EXCEPT
    !.trees = [c1 |-> [x |-> OldM], c2 |-> [m |-> NewM]],
    !.commits = [c2 |-> Commit("c1", <<[Change("m") EXCEPT !.status = "added"]>>)]]

Removed == [Base EXCEPT
    !.trees = [c1 |-> [m |-> OldM], c2 |-> [x |-> NewM]],
    !.commits = [c2 |-> Commit("c1", <<[Change("m") EXCEPT !.status = "removed"]>>)]]

\* The fix and its follow-up: c2 is read as fixed side and as parent.
Series == [Base EXCEPT
    !.records = ("GHSA-1" :> [Advisory1 EXCEPT !.references =
        <<Commit2, Link("commit", "org/pkg", "c3", FALSE)>>]),
    !.trees = @ @@ [c3 |-> [m |-> FG(<<"a", "check">>, <<"check">>), index |-> IndexOf("m")]],
    !.commits = @ @@ [c3 |-> Commit("c2", <<Change("m")>>)],
    !.ancestors = [@ EXCEPT !.c3 = {"c1", "c2", "c3"}],
    !.heads = <<"c1", NoCommit, NoCommit, NoCommit>>]

Pull == [Base EXCEPT
    !.records = ("GHSA-1" :> [Advisory1 EXCEPT !.references = <<Link("pull", "org/pkg", "7", FALSE)>>]),
    !.pulls = ("7" :> <<"c2">>)]

Found == [Base EXCEPT
    !.records = ("GHSA-1" :> [Advisory1 EXCEPT !.references = << >>]),
    !.repository = "org/pkg", !.messages = ("org/pkg" :> <<"c2">>)]

Prose == WithAdvisory1([Advisory1 EXCEPT !.references = << >>,
    !.words = {[name |-> "f", receiver |-> NoName, form |-> "backtick"],
               [name |-> "g", receiver |-> "the", form |-> "call"]}])

Structured == WithAdvisory1([Advisory1 EXCEPT !.affected = {Package("pkg", {Range12}, {"f"})}])

NotCode == [Base EXCEPT !.commits = [c2 |-> Commit("c1", <<Change("m.test"), Change("m.css")>>)]]

Worlds == {
    Base, TwoFiles, Backport(Base, F(<<"a">>)), Backport(TwoFiles, F(<<"a">>)),
    Backport([TwoFiles EXCEPT !.trees = [c1 |-> @.c1, c2 |-> @.c2]], F(<<"a", "guard">>)),
    Backport(Repeated, F(<<"a">>)),
    [Base EXCEPT !.heads = <<"c1", "c3", NoCommit, NoCommit>>, !.repos.c3 = "org/fork"],
    [Base EXCEPT !.heads = <<NoCommit, NoCommit, NoCommit, NoCommit>>, !.tags = << >>],
    [Base EXCEPT !.heads[1] = "c2"],
    Renamed, Added, Removed, Series, Pull, Found, Prose, Structured, NotCode,
    [Base EXCEPT !.commits.c2.files[1].binary = TRUE],
    [Base EXCEPT !.misread = {SourceId("c2", "m")}],
    [Base EXCEPT !.tarballs[1].verified = FALSE],
    [Base EXCEPT !.tarballs[1].manifest.present = FALSE],
    [Base EXCEPT !.tarballs[1] = TooLarge, !.commits = << >>],
    [Base EXCEPT !.tarballs[2] = Missing, !.commits = << >>] }

\* What may change between the document and its verification.
Edited == {
    To("records", "GHSA-1" :> [Advisory1 EXCEPT !.words = {[name |-> "z", receiver |-> NoName, form |-> "call"]}]),
    To("records", "GHSA-1" :> [Advisory1 EXCEPT !.affected = {Package("other", {Range12}, {})}]),
    To("tags", (<<"org/pkg", 1>> :> Tag("c2", 1, FALSE)) @@ (<<"org/pkg", 2>> :> Tag("c1", 1, FALSE))),
    To("tarballs", [Base.tarballs EXCEPT ![1] = Tar([m |-> OldM, index |-> F(<<"a">>)])]),
    To("misread", {SourceId("c1", "m")}) }

RecordScenarios ==
    {Scenario(w, <<One>>, {{}, {"search"}}, {3, 60}, 1, {}) : w \in Worlds}
    \cup {Scenario(w, <<One, f>>, {{}, {"allMethods"}}, {2, 5, 9, 60}, 0, Edited) :
             w \in {Base, Prose, Found, Series}, f \in {Two, OtherPackage, Gem, Later(3)}}

MCScenarios == {s : s \in PackageScenarios \cup DiffScenarios \cup PatchScenarios \cup RecordScenarios}
===============================================================================

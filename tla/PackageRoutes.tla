----------------------------- MODULE PackageRoutes -----------------------------
(***************************************************************************)
(* What a published package does when an application uses it: the          *)
(* functions its public names stand for and the code those functions and   *)
(* its top-level statements may run.  This is the meaning of JavaScript    *)
(* modules, which the localiser's visibility is compared with.             *)
(***************************************************************************)
EXTENDS PackageModel

\* A value is a function (a file and a block) or a module itself (block 0).
ModuleValue(path) == [path |-> path, block |-> 0]
FunctionValue(path, i) == [path |-> path, block |-> i]
Name(n, v) == [name |-> n, value |-> v]

Local(f, path, name) ==
    {FunctionValue(path, i) : i \in {k \in FunctionBlocks(f) : f.blocks[k].name = name}}

\* What `exported` gives under a name of a file; an export of a file that binds its
\* name to another file's is that one.
Member(exported, path, m) ==
    IF m = Whole THEN {ModuleValue(path)} ELSE {x.value : x \in {y \in exported[path] : y.name = m}}

ValuesOf(exported, f, path, e) ==
    IF e.kind = "module" THEN Member(exported, e.module, e.member)
    ELSE Local(f, path, e.local)
         \cup UNION {Member(exported, b.module, b.member) :
                        b \in {x \in f.binds : e.kind = "local" /\ x.local = e.local}}

NamesGiven(exported, f, path, e) ==
    IF e.name = "*" THEN {x \in exported[e.module] : x.name # "default"}
    ELSE {Name(e.name, v) : v \in ValuesOf(exported, f, path, e)}

\* What the files export, as far as `depth` re-exports reach.
Exported(files, depth) ==
    LET exported[d \in 0 .. depth] ==
            [path \in DOMAIN files |->
                IF d = 0 THEN {}
                ELSE UNION {NamesGiven(exported[d - 1], files[path], path, e) : e \in files[path].exports}]
    IN  exported[depth]

\* The functions a value stands for: a module is any of its exports.
Functions(exported, value) ==
    IF value.block # 0 THEN {value}
    ELSE {x.value : x \in {y \in exported[value.path] : y.value.block # 0}}

\* The functions a block may call, and the modules it may load; its alias is
\* itself.
Callees(files, exported, at) ==
    LET f == files[at.path]
        block == f.blocks[at.block]
        uses == block.uses \ {block.alias}
        functions(path, m) == UNION {Functions(exported, v) : v \in Member(exported, path, m)}
    IN  (UNION {Local(f, at.path, u) : u \in uses})
        \cup (UNION {functions(b.module, b.member) : b \in {x \in f.binds : x.local \in uses}})
        \cup UNION {functions(l.module, l.member) : l \in block.loads}

AllBlocks(files) ==
    UNION {{FunctionValue(p, i) : i \in DOMAIN files[p].blocks} : p \in DOMAIN files}

Reachable(files, exported, from) ==
    LET step[n \in 0 .. Cardinality(AllBlocks(files))] ==
            IF n = 0 THEN from
            ELSE step[n - 1] \cup UNION {Callees(files, exported, v) : v \in step[n - 1]}
    IN  step[Cardinality(AllBlocks(files))]

-----------------------------------------------------------------------------
\* The files an application can load, whichever condition its loader or bundler
\* asks for, and the names they give it: a module under a name gives its
\* members and, when it is called, its default.
PublicFiles(tb) ==
    LET man == tb.manifest
        pattern == \E e \in man.exports : e.key = "pattern"
        targets == UNION {{e.targets[c] : c \in DOMAIN e.targets} : e \in man.exports}
    IN  IF man.exports = NoExports \/ pattern THEN DOMAIN tb.files
        ELSE (targets \cup {Entry(tb), man.module}) \cap DOMAIN tb.files

Surface(tb, exported) ==
    LET under(x) == IF x.value.block # 0 THEN {x}
                    ELSE {IF y.name = "default" THEN Name(x.name, y.value) ELSE y :
                             y \in {z \in exported[x.value.path] : z.value.block # 0}}
    IN  UNION {UNION {under(x) : x \in exported[p]} : p \in PublicFiles(tb)}

\* The blocks that hold a candidate, the public names that may run one of them,
\* and whether loading the package may.
Holding(files, symbol, path) ==
    {FunctionValue(path, s.block) : s \in SpansOf(files[path], symbol)}

CalledNames(tb, symbol, path) ==
    LET exported == Exported(tb.files, Cardinality(DOMAIN tb.files) + 1)
        target == Holding(tb.files, symbol, path)
    IN  {x.name : x \in {y \in Surface(tb, exported) :
            Reachable(tb.files, exported, {y.value}) \cap target # {}}}

RunsOnLoad(tb, symbol, path) ==
    LET exported == Exported(tb.files, Cardinality(DOMAIN tb.files) + 1)
        statements == {v \in AllBlocks(tb.files) : tb.files[v.path].blocks[v.block].kind = "statement"}
    IN  Reachable(tb.files, exported, statements) \cap Holding(tb.files, symbol, path) # {}

-----------------------------------------------------------------------------
\* A package as it is published: what its files load are files of its own, a name
\* is declared once in a file, "default" and the lack of a name are nobody's
\* identifiers, and package.json has one entry for each key.
IsModule(files, f) ==
    /\ f.blocks \in Seq({f.blocks[i] : i \in DOMAIN f.blocks})
    /\ \A e \in f.exports :
          /\ e.name = "*" => e.kind = "module"
          /\ IF e.kind = "module" THEN e.module \in DOMAIN files ELSE e.local # NoName
    /\ \A b \in f.binds : /\ b.module \in DOMAIN files
                         /\ \A i \in FunctionBlocks(f) : f.blocks[i].name # b.local
    /\ \A i \in DOMAIN f.blocks : /\ f.blocks[i].uses \cap {NoName, "default"} = {}
                                 /\ \A l \in f.blocks[i].loads : l.module \in DOMAIN files

IsPackage(tb) ==
    /\ IsFiniteSet(DOMAIN tb.files) /\ IsFiniteSet(AllBlocks(tb.files)) /\ NoFile \notin DOMAIN tb.files
    /\ \A p \in DOMAIN tb.files : IsModule(tb.files, tb.files[p])
    /\ tb.manifest.exports # NoExports =>
          /\ \A e \in tb.manifest.exports : /\ e.key \in {".", "subpath", "pattern"}
                                           /\ IsFiniteSet({e.targets[c] : c \in DOMAIN e.targets})
          /\ \A d, e \in tb.manifest.exports : d.key = "." /\ e.key = "." => d = e

-----------------------------------------------------------------------------
\* A closed candidate's join keys are all the names it can be reached through.
NamesTheRoutes(tb, symbol, path, visibility) ==
    CalledNames(tb, symbol, path) \subseteq JoinNames(visibility, symbol)

\* The entry module's own functions load no file that it also re-exports, and
\* no other file loads the entry module.
EntryIsTheTop(tb, path) ==
    LET blocks == tb.files[Entry(tb)].blocks
    IN  /\ path \notin {l.module : l \in UNION {blocks[i].loads : i \in DOMAIN blocks}}
        /\ {p \in DOMAIN tb.files : Entry(tb) \in Requires(tb.files[p])} = {}
================================================================================

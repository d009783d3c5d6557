----------------------------- MODULE PackageModel -----------------------------
(***************************************************************************)
(* How a candidate of the localiser is reached from outside its package    *)
(* (internal/localisation/visibility.go): read from the published          *)
(* vulnerable tarball, never run.  A candidate that is public, or internal *)
(* with complete routes, is closed: it can support a negative.             *)
(***************************************************************************)
EXTENDS PackageSource, FiniteSets

CONSTANTS NoExports,   \* a package.json with no "exports"
          NoModel      \* visibility cannot be resolved at all

\* A package.json; present is FALSE when the tarball has none.  exports is a
\* set of entries: a key (".", a subpath or a pattern) and its targets by
\* condition (a plain target is one for "require").
Manifest(present, main, exports, module, browser) ==
    [present |-> present, main |-> main, exports |-> exports, module |-> module,
     browser |-> browser]

\* A tarball: its sources, its package.json, whether a source was skipped, and
\* whether its bytes match the registry's integrity value.
Tarball(files, manifest, skipped, verified) ==
    [files |-> files, manifest |-> manifest, skipped |-> skipped, verified |-> verified]

Resolved(path, files) == IF path \in DOMAIN files THEN path ELSE NoFile

\* The CommonJS target of a conditions object: the first of these present.
ConditionTarget(targets) ==
    LET has(c) == c \in DOMAIN targets
    IN  IF has("require") THEN targets["require"]
        ELSE IF has("node") THEN targets["node"]
        ELSE IF has("default") THEN targets["default"]
        ELSE IF has("import") THEN targets["import"] ELSE NoFile

\* A condition may depend on the consumer: two targets, or none it knows.
ExportsUnresolved(entries) ==
    \E e \in entries : \/ Cardinality({e.targets[c] : c \in DOMAIN e.targets}) > 1
                       \/ ConditionTarget(e.targets) = NoFile

\* package.json "exports": the "." target, the files importable by path, and
\* whether a pattern makes every file so.
ExportsMap(man, files) ==
    LET of(key) == {e \in man.exports : e.key = key}
    IN  [dot |-> {ConditionTarget(e.targets) : e \in of(".")} \ {NoFile},
         subs |-> {Resolved(ConditionTarget(e.targets), files) : e \in of("subpath")} \ {NoFile},
         pattern |-> of("pattern") # {}]

Entry(tb) ==
    LET man == tb.manifest
        dot == IF man.exports = NoExports THEN {} ELSE ExportsMap(man, tb.files).dot
    IN  Resolved(IF dot = {} THEN man.main ELSE CHOOSE d \in dot : TRUE, tb.files)

\* Anything that stops every candidate's routes from being complete.
Problems(tb) ==
    LET man == tb.manifest
    IN  \/ man.exports # NoExports /\ ExportsUnresolved(man.exports)
        \/ man.module # NoFile /\ Resolved(man.module, tb.files) # Entry(tb)
        \/ man.browser
        \/ tb.skipped
        \/ \E p \in DOMAIN tb.files :
              tb.files[p].flags \cap {"minified", "error", "loadsAny"} # {}

BuildPackageModel(tb) ==
    LET man == tb.manifest
        map == ExportsMap(man, tb.files)
    IN  IF ~man.present \/ Entry(tb) = NoFile THEN NoModel
        ELSE [entry |-> Entry(tb),
              deep |-> IF man.exports = NoExports THEN TRUE ELSE map.pattern,
              subpaths |-> IF man.exports = NoExports THEN {} ELSE map.subs,
              problems |-> Problems(tb),
              files |-> tb.files]

Importers(pm, path) == {p \in DOMAIN pm.files : path \in Requires(pm.files[p])}

Definers(pm, name) ==
    IF name = "default" THEN {}
    ELSE {p \in DOMAIN pm.files : \E s \in NamedSpans(pm.files[p]) : s.name = name}

-----------------------------------------------------------------------------
\* The candidate's own spans, or those an export name points to.
SpansOf(f, symbol) ==
    LET own == {s \in Spans(f) : symbol \in SpanNames(s)}
        pointed == {s \in Spans(f) : \E n \in Names(f) :
                       n.name = symbol /\ n.target.local = s.name /\ s.name # NoName}
    IN  IF own # {} THEN own ELSE pointed

\* Code nested in a function is reached only through the outermost one.
Owner(f, s) == CHOOSE o \in Spans(f) : o.block = s.block /\ o.depth = 0

ExportsOf(f, o) == {n.name : n \in {x \in Names(f) : x.target.local \in SpanNames(o)}}

\* The file's names that reach a top-level owner: its own when nothing else in
\* the file uses it, else all of them.
OwnerNames(f, o) ==
    LET names == ExportsOf(f, o)
        used == /\ o.name \notin {NoName, "default"}
                /\ \E x \in SpanNames(o) : UsedOutside(f, x, o.block)
    IN  IF names # {} /\ ~used THEN [names |-> names, own |-> TRUE]
        ELSE [names |-> AllNames(f), own |-> FALSE]

\* Through one entry of the entry module's export list: everything of the file
\* (a star), the file under a name, or one member of it.
RouteNames(n, names) ==
    IF n.name = "*" THEN names
    ELSE IF n.target.member = Whole THEN {n.name} \cup (names \ {"default"})
    ELSE IF n.target.member \in names THEN {n.name} ELSE {}

\* The entry's own code may reach the file through a top-level binding it uses.
BoundAndUsed(entry, path) ==
    \E b \in entry.binds : b.module = path /\ UsedOutside(entry, b.local, 0)

\* Mutant: a file the entry only uses itself has no route.
ReExportsOnly(pm, path, names) ==
    LET entry == pm.files[pm.entry]
        direct == {n \in Names(entry) : n.target.module = path}
    IN  [names |-> (IF pm.deep \/ path \in pm.subpaths THEN names ELSE {})
                   \cup (IF path = pm.entry THEN names ELSE UNION {RouteNames(n, names) : n \in direct}),
         complete |-> /\ ~Dynamic(pm.files[path]) /\ ~Dynamic(entry)
                      /\ IF path = pm.entry THEN Importers(pm, path) = {}
                         ELSE Importers(pm, path) \subseteq {pm.entry}]

\* The names an application calls: the file's own when it can be imported by
\* path, and those the entry module gives it, one hop away.
PublicNames(pm, path, names) ==
    LET entry == pm.files[pm.entry]
        byPath == IF pm.deep \/ path \in pm.subpaths THEN names ELSE {}
        direct == {n \in Names(entry) : n.target.module = path}
        inside == BoundAndUsed(entry, path)
        through == IF path = pm.entry THEN names
                   ELSE (UNION {RouteNames(n, names) : n \in direct})
                        \cup (IF inside \/ (pm.entry \in Importers(pm, path) /\ direct = {})
                              THEN AllNames(entry) ELSE {})
    IN  [names |-> byPath \cup through,
         complete |-> /\ ~Dynamic(pm.files[path]) /\ ~Dynamic(entry)
                      /\ IF path = pm.entry THEN Importers(pm, path) = {}
                         ELSE Importers(pm, path) \subseteq {pm.entry}]

-----------------------------------------------------------------------------
Visibility(kind, via, complete) == [kind |-> kind, via |-> via, complete |-> complete]

Unknown == Visibility("unknown", {}, FALSE)

Resolve(pm, symbol, path) ==
    LET f == pm.files[path]
        spans == SpansOf(f, symbol)
        owners == {Owner(f, s) : s \in spans}
        names == UNION {OwnerNames(f, o).names : o \in owners}
        public == PublicNames(pm, path, names)
        complete == /\ public.complete
                    /\ \A o \in owners : SpanNames(o) \cap UsedOnLoad(f) = {}
                    /\ Definers(pm, symbol) \subseteq {path}
                    /\ ~pm.problems
        ownOnly == \A s \in spans : OwnerNames(f, Owner(f, s)).own /\ Owner(f, s) = s
    IN  IF path \notin DOMAIN pm.files THEN Unknown
        ELSE IF Minified(f) \/ spans = {} \/ names = {} \/ public.names = {} THEN Unknown
        ELSE IF ownOnly /\ complete /\ Cardinality(spans) = 1 /\ public.names = {symbol}
             THEN Visibility("public", {}, TRUE)
        ELSE Visibility("internal", public.names, complete)

Closed(v) == v.kind = "public" \/ (v.kind = "internal" /\ v.complete)

\* The names a negative relies on: the join keys of a closed candidate.
JoinNames(v, symbol) == IF v.kind = "public" THEN {symbol} ELSE v.via
===============================================================================

------------------------------ MODULE CallGraph ------------------------------
(***************************************************************************)
(* The call graph of an application and its entry points                   *)
(* (internal/usagegraph: callgraph.go, route_nodes.go, parameter_shadow.go,*)
(* path_aliases.go, entrypoints.go, package_entrypoints.go and             *)
(* declared_entrypoints.go), from the extracted files of one repository.   *)
(*                                                                         *)
(* A line stands for one position, so two inline handlers, or two          *)
(* functions of one name, are never on one line.                           *)
(***************************************************************************)
EXTENDS SourceFunctions

CONSTANTS ModuleName,  \* the function that stands for the top level: <module>
          NoExt        \* a path written without an extension

\* A file, and what an import names: a path from the directory of the file (up
\* levels above it), a package, or a name an alias may map.
File(path, ext) == [path |-> path, ext |-> ext]
Relative(up, path, ext) == [root |-> "relative", up |-> up, path |-> path, ext |-> ext]
Package(path) == [root |-> "package", up |-> 0, path |-> path, ext |-> NoExt]

FunctionId(file, f) == [file |-> file, name |-> f.name, pos |-> f.pos]
ModuleId(file) == [file |-> file, name |-> ModuleName, pos |-> 1]
Only(S) == {x \in S : S = {x}}   \* the member of S, if it has just one

Anonymous(route) == [name |-> Synthetic, pos |-> route.pos, node |-> route.pos,
                     last |-> route.last, parameters |-> {}, locals |-> {}]

\* graphFunctions: the functions, and the inline handlers of routes.
GraphFunctions(r) ==
    r.functions \cup {Anonymous(x) : x \in {y \in r.routes : y.name = Synthetic}}

\* anonymousContainsCall: from the name of a function to its end.
Holds(f, pos) == f.pos <= pos /\ pos <= f.last
Innermost(functions) == CHOOSE f \in functions : \A g \in functions : g.pos <= f.pos

\* Mutant: a callback belongs to the function around it.
AnyOwner(r, pos) ==
    LET around == {f \in GraphFunctions(r) : Holds(f, pos)}
    IN  IF around = {} THEN {[name |-> ModuleName, pos |-> 1]}
        ELSE {[name |-> Innermost(around).name, pos |-> Innermost(around).pos]}

\* graphCallOwner: the innermost named function, or the module; none when an
\* anonymous function stands between it and the call.
CallOwner(r, pos) ==
    LET around == {f \in GraphFunctions(r) : Holds(f, pos)}
        spans == {a \in r.anonymous : Holds(a, pos)}
        owner == Innermost(around)
    IN  IF around = {} THEN IF spans = {} THEN {[name |-> ModuleName, pos |-> 1]} ELSE {}
        ELSE IF \/ \E a \in spans : a.last < owner.last
                \/ \E a, b \in spans : a.pos # b.pos /\ a.last = owner.last /\ b.last = owner.last
             THEN {} ELSE {[name |-> owner.name, pos |-> owner.pos]}

\* shadowedLocalCall: a parameter or a local name of any function around.
Shadowed(r, c) ==
    LET binding == IF c.receiver = NoName THEN c.callee ELSE c.receiver
    IN  \E f \in r.functions \cup r.anonymous :
            Holds(f, c.pos) /\ binding \in f.parameters \cup f.locals

\* enclosingScope and visibleAt: a nested function is seen inside the function
\* it is declared in.
VisibleAt(r, f, pos) ==
    LET enclosing == {g \in GraphFunctions(r) \cup r.anonymous :
                         Holds(g, f.pos) /\ ~(g.node = f.node /\ g.last = f.last)}
    IN  enclosing = {} \/ Holds(Innermost(enclosing), pos)

\* dynamicImportVisible: after the import(), in its block and its function.
DynamicVisible(r, imp, pos) ==
    LET around == {f \in GraphFunctions(r) \cup r.anonymous : Holds(f, imp.pos)}
    IN  \/ imp.kind \notin {"dynamic_static_literal", "dynamic_computed"}
        \/ /\ imp.local = NoName \/ /\ imp.pos <= pos
                                    /\ imp.scopeEnd = 0 \/ pos <= imp.scopeEnd
           /\ around = {} \/ Holds(Innermost(around), pos)

-----------------------------------------------------------------------------
(* Which file an import names.                                              *)

Extensions == {".js", ".jsx", ".mjs", ".cjs", ".ts", ".mts", ".cts", ".tsx"}
Typed == {".ts", ".tsx", ".mts", ".cts"}

\* resolveSourceBase: the one analysed file a path can be; ./x.js is x.ts for a
\* TypeScript file when there is no x.js.
ResolveBase(files, current, base, ext) ==
    LET index == Append(base, "index")
        exact == File(base, ext)
        spelled == current.ext \in Typed /\ ext = ".js" /\ exact \notin files
    IN  Only(files \cap
             IF ext \in Extensions
             THEN {exact} \cup {File(base, x) : x \in IF spelled THEN {".ts", ".tsx", ".mts"} ELSE {}}
             ELSE {File(base, x) : x \in Extensions} \cup {File(index, x) : x \in Extensions})

\* resolveRelativeSourceFile: a path above the repository names nothing.
ResolveRelative(files, current, spec) ==
    LET dir == Front(current.path)
    IN  IF spec.up > Len(dir) THEN {}
        ELSE ResolveBase(files, current, SubSeq(dir, 1, Len(dir) - spec.up) \o spec.path, spec.ext)

\* matchPathAlias: an exact pattern, or else the longest prefix of a wildcard.
MatchAlias(aliases, spec) ==
    LET exact == {a \in aliases : ~a.star /\ a.prefix = spec.path}
        wild == {a \in aliases : a.star /\ IsStrictPrefix(a.prefix, spec.path)}
    IN  IF exact # {} THEN exact
        ELSE {a \in wild : \A b \in wild : Len(b.prefix) <= Len(a.prefix)}

\* The paths of the matched pattern, with what the wildcard stands for.
AliasBases(alias, spec) ==
    LET captured == SubSeq(spec.path, Len(alias.prefix) + 1, Len(spec.path))
    IN  {IF target.star THEN target.path \o captured ELSE target.path : target \in alias.targets}

\* resolveAliasSourceFile: one file across the targets.
ResolveFile(app, current, spec) ==
    IF spec.root = "relative" THEN ResolveRelative(DOMAIN app.files, current, spec)
    ELSE Only(UNION {UNION {ResolveBase(DOMAIN app.files, current, base, spec.ext) :
                               base \in AliasBases(a, spec)} : a \in MatchAlias(app.aliases, spec)})

-----------------------------------------------------------------------------
(* Edges.                                                                   *)

\* importedApplicationCall: the export a call through an import calls.
ExportCalled(imp, c) ==
    IF TypeOnly(imp) \/ imp.local = NoName \/ c.callee = NoCallee THEN {}
    ELSE IF c.receiver = NoName /\ c.callee = imp.local
         THEN CASE imp.kind \in {"esm_named", "cjs_destructured"} -> {imp.imported}
                [] imp.kind = "dynamic_static_literal" ->
                      {IF imp.imported = "*" THEN "default" ELSE imp.imported}
                [] imp.kind \in {"esm_default", "cjs_require"} -> {"default"}
                [] OTHER -> {}
    ELSE IF c.receiver = imp.local
            /\ \/ imp.kind \in {"esm_namespace", "cjs_require"}
               \/ imp.kind = "dynamic_static_literal" /\ imp.imported = "*"
         THEN {c.callee} ELSE {}

\* The functions a call may name: those of the file, and those an import does.
Candidates(app, results, file, c) ==
    LET r == results[file]
        local == IF c.receiver # NoName THEN {}
                 ELSE {FunctionId(file, f) :
                          f \in {g \in GraphFunctions(r) : g.name = c.callee /\ VisibleAt(r, g, c.pos)}}
        visible == {imp \in r.imports : imp.specifier # Computed /\ DynamicVisible(r, imp, c.pos)}
        exported(imp) ==
            UNION {{FunctionId(g, e[1]) : e \in {x \in results[g].exports : x[2] \in ExportCalled(imp, c)}} :
                      g \in ResolveFile(app, file, imp.specifier)}
    IN  local \cup UNION {exported(imp) : imp \in {i \in visible : ExportCalled(i, c) # {}}}

\* The call resolves when there is exactly one.
Target(app, results, file, c) == Only(Candidates(app, results, file, c))

GraphNodes(results) ==
    UNION {{ModuleId(file)} \cup {FunctionId(file, f) : f \in GraphFunctions(results[file])} :
              file \in DOMAIN results}

\* The edges of one file, as pairs.
FileEdges(app, results, file) ==
    LET r == results[file]
        direct == {c \in r.calls : c.callee # NoCallee /\ ~Shadowed(r, c)}
    IN  UNION {{<<FunctionId(file, o), g>> :
                   o \in CallOwner(r, c.pos), g \in Target(app, results, file, c)} : c \in direct}

\* buildApplicationCallGraph.
BuildCallGraph(nodes, pairs) == [f \in nodes |-> {g \in nodes : <<f, g>> \in pairs}]
CallEdges(app, results) ==
    BuildCallGraph(GraphNodes(results), UNION {FileEdges(app, results, file) : file \in DOMAIN results})

-----------------------------------------------------------------------------
(* Entry points.                                                            *)

\* isConventionalExportedModule and detectExportedModuleEntryPoints.
ExportedEntries(results) ==
    UNION {{FunctionId(file, e[1]) : e \in results[file].exports} :
              file \in {f \in DOMAIN results : f.path \in {<<"index">>, <<"src", "index">>}}}

\* detectRouteEntryPoints: an inline handler, or the one function of that name.
RouteEntries(results) ==
    UNION {UNION {IF x.name = Synthetic THEN {FunctionId(file, x)}
                  ELSE {FunctionId(file, f) : f \in UniqueLocal(results[file].functions, x.name)} :
                     x \in results[file].routes} : file \in DOMAIN results}

\* detectPackageEntryPoints: package.json main and bin, if they name one file.
PackageEntries(app) ==
    {ModuleId(file) : file \in UNION {ResolveBase(DOMAIN app.files, File(<<>>, ".js"), e.path, e.ext) :
                                         e \in app.packageEntries}}

\* detectDeclaredEntryPoints: a configured function, if one has that name, and
\* that line if the configuration gives one: 0 is none.
DeclaredEntries(app, results) ==
    LET onLine(d) == {f \in results[d.file].functions : d.line \in {0, f.pos}}
    IN  UNION {IF d.name = ModuleName THEN {ModuleId(d.file) : line \in {d.line} \cap {0, 1}}
               ELSE {FunctionId(d.file, f) : f \in UniqueLocal(onLine(d), d.name)} :
                  d \in {x \in app.declared : x.file \in DOMAIN results}}

EntryPoints(app, results) ==
    ExportedEntries(results) \cup RouteEntries(results) \cup PackageEntries(app)
    \cup DeclaredEntries(app, results)
=============================================================================

---------------------------- MODULE SourceAnalysis ----------------------------
(***************************************************************************)
(* The analysis of an application's source: extraction of its files, the   *)
(* call graph and its entry points, the search for the paths from them,    *)
(* and the call sites of its imports (usagegraph.Produce with reachability *)
(* analysed, for one repository).                                          *)
(***************************************************************************)
EXTENDS CallSites, JavaScriptBindings

CONSTANTS Applications,  \* the applications to analyse
          NoParent       \* the parent of an entry point on its path

\* The files are what the parser gives of JavaScript: no name is one of the
\* markers the analysis uses for what has none.
ReadsAsJavaScript(t) ==
    /\ IsJavaScript(t)
    /\ \A i \in OfKind(t, {"identifier"}) : t[i].name \notin {NoName, Synthetic}
    /\ \A i \in DOMAIN t : t[i].name # ModuleName /\ ModuleName \notin Locals(t[i].binds)

ASSUME SourceAssumption ==
    /\ \A a \in Applications : \A file \in DOMAIN a.files : ReadsAsJavaScript(a.files[file])
    /\ {NoName, Synthetic} \cap {"require", "import", OtherValue, ModuleName} = {}

VARIABLES app,      \* the application: files, aliases, package entries, declared
          results,  \* file -> what was extracted from it
          edges,    \* the call graph: function -> functions it calls
          queue,    \* functions found whose calls are not all followed
          paths,    \* function -> entry point and parent on its path
          depth,    \* history: function -> the calls on its path
          sites,    \* the call sites of all imports
          stage

vars == <<app, results, edges, queue, paths, depth, sites, stage>>

Empty == [x \in {} |-> x]
Starts == EntryPoints(app, results) \cap DOMAIN edges

Init ==
    /\ app \in Applications
    /\ results = Empty /\ edges = Empty /\ paths = Empty /\ depth = Empty
    /\ queue = <<>> /\ sites = {} /\ stage = "extract"

\* AnalyzeRepository: every file on its own.
ExtractFiles ==
    /\ stage = "extract"
    /\ results' = [file \in DOMAIN app.files |-> Extract(app.files[file])]
    /\ stage' = "graph"
    /\ UNCHANGED <<app, edges, queue, paths, depth, sites>>

BuildGraph ==
    /\ stage = "graph"
    /\ edges' = CallEdges(app, results)
    /\ stage' = "search"
    /\ UNCHANGED <<app, results, queue, paths, depth, sites>>

-----------------------------------------------------------------------------
(* pathsFrom: one search from all entry points.                             *)

Record(map, f, value) == [g \in DOMAIN map \cup {f} |-> IF g = f THEN value ELSE map[g]]

\* Mutant: the function found last is followed first.
Prepended(q, f) == IF q = <<>> THEN <<f>> ELSE <<Head(q), f>> \o Tail(q)

Enqueued(q, f) == Append(q, f)

\* The entry points come first, in the order of their identifiers, which are
\* hashes: any order.
Enter(f) ==
    /\ stage = "search"
    /\ f \in Starts \ DOMAIN paths
    /\ paths' = Record(paths, f, [entry |-> f, parent |-> NoParent])
    /\ depth' = Record(depth, f, 0)
    /\ queue' = Enqueued(queue, f)
    /\ UNCHANGED <<app, results, edges, sites, stage>>

\* The next function the head of the queue calls.
Follow(f) ==
    /\ stage = "search" /\ Starts \subseteq DOMAIN paths
    /\ queue # <<>>
    /\ f \in edges[Head(queue)] \ DOMAIN paths
    /\ paths' = Record(paths, f, [entry |-> paths[Head(queue)].entry, parent |-> Head(queue)])
    /\ depth' = Record(depth, f, depth[Head(queue)] + 1)
    /\ queue' = Enqueued(queue, f)
    /\ UNCHANGED <<app, results, edges, sites, stage>>

Dequeue ==
    /\ stage = "search" /\ Starts \subseteq DOMAIN paths
    /\ queue # <<>>
    /\ edges[Head(queue)] \subseteq DOMAIN paths
    /\ queue' = Tail(queue)
    /\ UNCHANGED <<app, results, edges, paths, depth, sites, stage>>

\* buildObservations, once the search is over.
Observe ==
    /\ stage = "search" /\ Starts \subseteq DOMAIN paths
    /\ queue = <<>>
    /\ sites' = CallSitesOf(app, results, paths, depth)
    /\ stage' = "done"
    /\ UNCHANGED <<app, results, edges, queue, paths, depth>>

Next == \/ ExtractFiles
        \/ BuildGraph
        \/ \E f \in DOMAIN edges : Enter(f) \/ Follow(f)
        \/ Dequeue
        \/ Observe

Spec == Init /\ [][Next]_vars /\ WF_vars(Next)

-----------------------------------------------------------------------------
(* What the analysis promises.                                              *)

Done == stage = "done"
TreeOf(file) == app.files[file]

\* The imports of a named package that bind a name, the variable an import is
\* held by, and the places that read it.
Bound(file) == {imp \in results[file].imports :
                   /\ imp.specifier # Computed /\ ThirdParty(app, imp)
                   /\ ~TypeOnly(imp) /\ imp.local # NoName}
Holder(file, imp) == VariableAt(TreeOf(file), imp.local, imp.pos)
Uses(file, imp) == {u \in OfKind(TreeOf(file), {"identifier"}) :
                       /\ TreeOf(file)[u].name = imp.local
                       /\ VariableAt(TreeOf(file), imp.local, u) = Holder(file, imp)}

\* A var declared in the handler of a catch clause whose parameter has its name:
\* the parameter holds the value, the analysis takes it for the var.
Displaced(file, imp) ==
    /\ Holder(file, imp) # 0 /\ TreeOf(file)[Holder(file, imp)].kind = "catch_clause"
    /\ \E d \in OfKind(TreeOf(file), {"variable_declarator"}) :
          /\ Spans(TreeOf(file), d, imp.pos) /\ imp.local \in Locals(TreeOf(file)[d].binds)
          /\ Home(TreeOf(file), d) # Holder(file, imp)

\* A use with a call site of its own, or with the one for an escaping value.
Recorded(file, imp, u) ==
    \E s \in sites : /\ s.file = file /\ s.import = imp
                     /\ \/ s.pos \in CallThrough(TreeOf(file), u)
                        \/ s.pos = imp.pos /\ s.symbol = NoSymbol

\* A read that calls nothing, and one the documentation gives up: outside the
\* block of an import().
Unneeded(file, imp, u) ==
    \/ TreeOf(file)[TreeOf(file)[u].up].kind \in {"condition", "expression_statement"}
    \/ ~DynamicVisible(results[file], imp, u)

\* The uses that leave no trace: a constructor, a superclass, an export or a
\* default value, a parenthesised callee and a property of a property.
MembersOf(t, u) == {m \in Around(t, u, {"member_expression"}) :
                       \A k \in DOMAIN t : m < k /\ k < u => t[k].kind = "member_expression"}
Traceless(t, u) ==
    LET value == Least(MembersOf(t, u) \cup {u})
    IN  \/ Cardinality(MembersOf(t, u)) > 1
        \/ t[t[value].up].kind \in {"new_expression", "class_declaration", "export_statement",
                                    "parameter", "expression"}

\* Every use of an imported package that may call it is a call site of the
\* import, resolved or not, but for the Traceless ones and a Displaced import: an
\* import whose calls were missed would read as unused (observationCallSites,
\* markCopiedImports).
NothingUnrecorded ==
    Done => \A file \in DOMAIN results : \A imp \in Bound(file) : \A u \in Uses(file, imp) :
                \/ Recorded(file, imp, u)
                \/ Unneeded(file, imp, u)
                \/ Traceless(TreeOf(file), u)
                \/ Displaced(file, imp)

\* The same without exception, as the design says: "Unsupported or ambiguous
\* constructs remain visible rather than being silently dropped"
\* (docs/design/usage-graph-architecture.md, section 13).
NothingDropped ==
    Done => \A file \in DOMAIN results : \A imp \in Bound(file) : \A u \in Uses(file, imp) :
                Recorded(file, imp, u) \/ Unneeded(file, imp, u)

\* A resolved call of a named package is made through the variable its import is
\* held by, never through a parameter or a declaration of the same name
\* (ImportOwnsCall).
CallsAreTheirImports ==
    \A s \in sites :
        \/ s.symbol = NoSymbol \/ s.import.specifier = Computed
        \/ \E c \in s.import.inline : c.pos = s.pos
        \/ VariableAt(TreeOf(s.file), s.import.local, s.pos) = Holder(s.file, s.import)
        \/ Displaced(s.file, s.import)

-----------------------------------------------------------------------------
(* What a step of a path says: which function runs a call, and which one the *)
(* name of the call means.                                                   *)

\* The node of a function of the graph.
NodeOf(f) == IF f.name = ModuleName THEN 1
             ELSE (CHOOSE g \in GraphFunctions(results[f.file]) : g.name = f.name /\ g.pos = f.pos).node

\* A call in the body of a function.  Methods and generators are no functions of
\* the graph: their calls count as those of the function around them.
Untold == {"method_definition", "generator_function_declaration"}
Told == JsFunctions \ Untold
OwnerOf(t, pos) == InnermostAround(t, pos, Told \cup {"program"})
RunsIn(f, pos) == OwnerOf(TreeOf(f.file), pos) = NodeOf(f)

\* A call by the name of a function of its file.
CallsByName(file, c, g) == c.receiver = NoName /\ c.callee = g.name /\ g.file = file
NamesLocal(file, c, g) ==
    LET t == TreeOf(file)
    IN  /\ CallsByName(file, c, g)
        /\ <<c.callee, VariableAt(t, c.callee, c.pos)>> \in CalledBy(t, NodeOf(g))

\* A call by the name of an import, of what another file exports.
BindingOf(c) == IF c.receiver = NoName THEN c.callee ELSE c.receiver
ImportsNaming(file, c, g) ==
    {imp \in results[file].imports :
        /\ imp.local = BindingOf(c) /\ imp.specifier # Computed
        /\ g.file \in ResolveFile(app, file, imp.specifier)
        /\ \E e \in results[g.file].exports :
              FunctionId(g.file, e[1]) = g /\ e[2] \in ExportCalled(imp, c)}
NamesExport(file, c, g) ==
    \E imp \in ImportsNaming(file, c, g) : Holder(file, imp) = VariableAt(TreeOf(file), imp.local, c.pos)

\* The call means the function.
Names(file, c, g) == NamesLocal(file, c, g) \/ NamesExport(file, c, g)

-----------------------------------------------------------------------------
(* What the graph takes a name for although the language does not.          *)

\* The scopes the graph has no notion of: those of a method, a generator or a
\* block of the top level, and a name held by an import() of the body around.
HolderOf(t, scope) == IF t[scope].kind \in JsFunctions THEN scope ELSE RunBy(t, scope)
Overlooked(t, scope) == scope > 1 /\ t[HolderOf(t, scope)].kind \in Untold \cup {"program"}
HeldByLoad(t, name, scope) ==
    scope > 1 /\ \E d \in OfKind(t, {"variable_declarator"}) :
                    name \in Locals(t[d].binds) /\ Home(t, d) = scope /\ DeclaresDynamicImport(t, d)

\* The name is that of a variable of such a scope: the graph sees past it.
Hidden(t, name, pos) ==
    LET scope == VariableAt(t, name, pos)
    IN  Overlooked(t, scope) \/ HeldByLoad(t, name, scope)

\* A function called out of the scope of its name, in the function around it: one
\* of an Overlooked scope, a function expression by its own name, and one of a
\* body from a default value of the parameters.
OutOfScope(t, variable, target, pos) ==
    LET scope == variable[2]
    IN  /\ ~Spans(t, scope, pos) /\ Spans(t, OwnerOf(t, target), pos)
        /\ \/ Overlooked(t, scope)
           \/ t[target].kind = "function_expression"
           \/ t[scope].role = "body" /\ t[t[scope].up].kind \in JsFunctions /\ Spans(t, t[scope].up, pos)

ConfusesLocal(file, c, g) ==
    LET t == TreeOf(file)
    IN  /\ CallsByName(file, c, g)
        /\ \E variable \in CalledBy(t, NodeOf(g)) :
              /\ variable[1] = c.callee
              /\ \/ Spans(t, variable[2], c.pos) /\ Hidden(t, c.callee, c.pos)
                 \/ OutOfScope(t, variable, NodeOf(g), c.pos)

\* The receiver is a function of the body around, which only hides an import where
\* it is called itself.
FunctionReceiver(t, c) ==
    LET scope == VariableAt(t, c.receiver, c.pos)
    IN  /\ c.receiver # NoName /\ scope > 1
        /\ \E f \in OfKind(t, Told) : <<c.receiver, scope>> \in CalledBy(t, f)

\* An import of a function or a block counts for the whole file.
ConfusesExport(file, c, g) ==
    LET t == TreeOf(file)
    IN  \E imp \in ImportsNaming(file, c, g) :
           \/ Holder(file, imp) > 1 /\ ~Spans(t, Holder(file, imp), c.pos)
           \/ Hidden(t, imp.local, c.pos)
           \/ FunctionReceiver(t, c)

\* Files of plain code give the graph nothing to confuse: functions and arrow
\* functions, nested, passed on and hiding each other's names in any way, but
\* no methods or generators, no function expressions with a name of their own,
\* nothing declared in the blocks of the top level, imports at the top level, no
\* function of a body with the name of one, and no calls among parameters.
Plain(file) ==
    LET t == TreeOf(file)
    IN  /\ OfKind(t, Untold) = {}
        /\ \A f \in OfKind(t, {"function_expression"}) : t[f].name = NoName
        /\ \A d \in DOMAIN t : DeclaredNames(t, d) # {} => ~Overlooked(t, Home(t, d))
        /\ \A d \in OfKind(t, {"variable_declarator"}) : DeclaresDynamicImport(t, d) => Home(t, d) = 1
        /\ \A imp \in results[file].imports :
              /\ Holder(file, imp) \in {0, 1}
              /\ \A f \in OfKind(t, Told) : \A variable \in CalledBy(t, f) :
                    variable[1] = imp.local => variable[2] = 1
        /\ \A f \in OfKind(t, JsFunctions), c \in OfKind(t, Calls) :
              Spans(t, f, c) => \E b \in Field(t, f, "body") : Spans(t, b, c)

-----------------------------------------------------------------------------
\* Every path that makes a call site reachable starts at an entry point, each of
\* its steps is a call in the body of the one before that means the next one, and
\* the site is in the body of the last.  So in plain code no shadowed name and no
\* callback fabricates a step (shadowedLocalCall, graphCallOwner, visibleAt).  In
\* other code a step may also be a call the graph confuses, in the ways named
\* above and in no others.
PathsAreCalls ==
    \A s \in {x \in sites : x.entry # NoEntry} :
        /\ s.path[1] = s.entry /\ s.entry \in Starts
        /\ RunsIn(s.path[Len(s.path)], s.pos)
        /\ \A k \in 1 .. Len(s.path) - 1 :
              LET file == s.path[k].file
                  next == s.path[k + 1]
              IN  \E c \in results[file].calls :
                     /\ RunsIn(s.path[k], c.pos)
                     /\ \/ Names(file, c, next)
                        \/ ~Plain(file) /\ (ConfusesLocal(file, c, next) \/ ConfusesExport(file, c, next))

\* The search ends with every function the entry points reach, each with a
\* shortest path: a parent one call nearer on the same entry's path, and no
\* call that leads to it from nearer (pathsFrom).
PathsAreShortest ==
    Done =>
        /\ Starts \subseteq DOMAIN paths
        /\ \A f \in DOMAIN paths :
              /\ \/ f \in Starts /\ depth[f] = 0 /\ paths[f].entry = f
                 \/ \E p \in DOMAIN paths : /\ p = paths[f].parent /\ f \in edges[p]
                                            /\ depth[f] = depth[p] + 1
                                            /\ paths[f].entry = paths[p].entry
              /\ \A g \in edges[f] : g \in DOMAIN paths /\ depth[g] <= depth[f] + 1
=============================================================================

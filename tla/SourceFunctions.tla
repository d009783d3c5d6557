--------------------------- MODULE SourceFunctions ---------------------------
(***************************************************************************)
(* The calls, functions, exports and route handlers the extractor reads    *)
(* from one file, and the names declared in its scopes (extract.go,        *)
(* extract_structural.go, function_parameters.go, exports.go, routes.go,   *)
(* lexical_bindings.go).  A position stands for a line and a column.       *)
(***************************************************************************)
EXTENDS SourceImports

CONSTANTS NoCallee,    \* a call without a callee name: a subscript, f()()
          OtherValue,  \* the receiver of a call on something without a name
          Synthetic    \* the name of a handler that has none: <route_handler>

Call(pos, receiver, callee) == [pos |-> pos, receiver |-> receiver, callee |-> callee]

\* usage.scm and appendStructuralCalls: what a call of an expression is
\* recorded as; a call of anything else is not recorded.
CallOf(t, i, f) ==
    LET objects == Field(t, f, "object")
        object == CHOOSE o \in objects : TRUE
    IN  CASE t[f].kind = "identifier" -> {Call(i, NoName, t[f].name)}
          [] t[f].kind = "member_expression" /\ t[object].kind = "identifier" ->
                {Call(i, t[object].name, t[f].name)}
          [] t[f].kind = "member_expression" /\ t[object].kind \in Calls ->
                {Call(i, OtherValue, t[f].name)}
          [] t[f].kind = "subscript_expression" ->
                {Call(i, IF t[object].kind = "identifier" THEN t[object].name ELSE OtherValue,
                      NoCallee)}
          [] t[f].kind \in Calls -> {Call(i, NoName, NoCallee)}
          [] OTHER -> {}

CallsOf(t) ==
    {Call(i, NoName, t[i].kind) : i \in OfKind(t, {"require", "import"})}
    \cup UNION {UNION {CallOf(t, i, f) : f \in Field(t, i, "function")} : i \in OfKind(t, {"call"})}

-----------------------------------------------------------------------------
(* Functions.                                                               *)

Declarations == {"function_declaration", "generator_function_declaration", "class_declaration"}
FunctionScopes == {"function_declaration", "generator_function_declaration",
                   "function_expression", "arrow_function", "method_definition"}

ParametersOf(t, i) == UNION {Locals(t[p].binds) : p \in Field(t, i, "parameter")}

\* declaresDynamicImport: const m = await import("x"), with or without await.
DeclaresDynamicImport(t, d) ==
    \E v \in Field(t, d, "value") :
        \/ t[v].kind = "import"
        \/ t[v].kind = "await_expression" /\ \E c \in Children(t, v) : t[c].kind = "import"

\* declaresTrackedFunction: const f = () => ..., const f = function f() {...}.
DeclaresTrackedFunction(t, d) ==
    /\ IsName(t[d].binds)
    /\ \E v \in Field(t, d, "value") :
          \/ t[v].kind = "arrow_function"
          \/ t[v].kind = "function_expression" /\ t[v].name = TheName(t[d].binds)

\* localBindingNames: the names declared anywhere in a body, but the functions
\* that are tracked and the dynamic imports, which have a scope of their own.
LocalBindings(t, i) ==
    LET bodies == Field(t, i, "body")
        body == CHOOSE b \in bodies : TRUE
        within(kinds) == {j \in OfKind(t, kinds) : Spans(t, body, j)}
        hiding == {d \in within({"variable_declarator"}) :
                      /\ ~DeclaresDynamicImport(t, d)
                      /\ ~(t[d].up = body /\ DeclaresTrackedFunction(t, d))}
        nested == {d \in within(Declarations) :
                      ~(t[d].kind = "function_declaration" /\ t[d].up = body)}
    IN  IF bodies = {} THEN {}
        ELSE (UNION {Locals(t[d].binds) : d \in hiding \cup within({"for_in_statement", "catch_clause"})})
             \cup {t[d].name : d \in nested}

\* A function: where its name is, its node and its end.
Function(t, i, name, pos) ==
    [name |-> name, pos |-> pos, node |-> i, last |-> t[i].last,
     parameters |-> ParametersOf(t, i), locals |-> LocalBindings(t, i)]

\* arrowFunctionBinding: an arrow is named by the declarator that holds it.
BoundArrow(t, i) == FieldOf(t, i, "variable_declarator", "value") /\ IsName(t[t[i].up].binds)

FunctionsOf(t) ==
    {Function(t, i, t[i].name, i) : i \in OfKind(t, {"function_declaration"})}
    \cup {Function(t, i, t[i].name, i) :
             i \in {j \in OfKind(t, {"function_expression"}) : t[j].name # NoName}}
    \cup {Function(t, i, TheName(t[t[i].up].binds), t[i].up) :
             i \in {j \in OfKind(t, {"arrow_function"}) : BoundArrow(t, j)}}

AnonymousOf(t) ==
    {Function(t, i, NoName, i) : i \in OfKind(t, {"arrow_function", "function_expression"})}

-----------------------------------------------------------------------------
(* Exports and routes.                                                      *)

\* A name must be that of one function to export it.
UniqueLocal(functions, name) ==
    LET named == {f \in functions : f.name = name}
    IN  IF Cardinality(named) = 1 THEN named ELSE {}

\* resolveDirectESMFunctionExports.
DirectExports(t, functions) ==
    {<<f, IF t[t[f.pos].up].mode = "default" /\ f.node = f.pos THEN "default" ELSE f.name>> :
        f \in {g \in functions : /\ t[t[g.pos].up].kind = "export_statement"
                                 /\ t[g.node].kind \in {"function_declaration", "arrow_function"}}}

\* resolveCommonJSFunctionExports: module.exports = f, module.exports.x = f.
CommonJSExports(t, functions) ==
    UNION {LET right == CHOOSE r \in Field(t, a, "right") : TRUE
               exported == CASE t[right].kind = "function_expression" ->
                                    {f \in functions : f.node = right}
                             [] t[right].kind = "identifier" -> UniqueLocal(functions, t[right].name)
                             [] OTHER -> {}
           IN  {<<f, t[a].name>> : f \in exported}
           : a \in {b \in OfKind(t, {"assignment_expression"}) : t[b].mode = "module.exports"}}

\* resolveIdentifierFunctionExports: export { f, g as h }, export default f.
IdentifierExports(t, functions) ==
    UNION {(UNION {{<<f, t[s].binds[k].local>> : f \in UniqueLocal(functions, t[s].binds[k].key)} :
                      k \in DOMAIN t[s].binds})
           \cup IF t[s].mode # "default" THEN {}
                ELSE {<<f, "default">> :
                         f \in UNION {UniqueLocal(functions, t[c].name) :
                                         c \in {d \in Children(t, s) : t[d].kind = "identifier"}}}
           : s \in {e \in OfKind(t, {"export_statement"}) : t[e].name = NoName}}

\* resolveFunctionExports: which function is exported under which names.
ExportsOf(t, functions) ==
    DirectExports(t, functions) \cup CommonJSExports(t, functions) \cup IdentifierExports(t, functions)

RouteMethods == {"all", "delete", "get", "head", "options", "patch", "post", "put", "use"}

\* appendRouteHandlers: app.get(path, handler) with one possible handler.
RoutesOf(t) ==
    LET routes == {i \in OfKind(t, {"call"}) : \E c \in CallsOf(t) :
                      c.pos = i /\ c.receiver \in {"app", "router"} /\ c.callee \in RouteMethods}
        handlers(i) == UNION {{h \in Children(t, a) :
                                  t[h].kind \in {"identifier", "arrow_function", "function_expression"}} :
                              a \in Field(t, i, "arguments")}
        handler(h) == [name |-> IF t[h].kind = "arrow_function" \/ t[h].name = NoName
                                THEN Synthetic ELSE t[h].name,
                       pos |-> h, last |-> t[h].last]
    IN  {handler(CHOOSE h \in handlers(i) : TRUE) :
            i \in {j \in routes : Cardinality(handlers(j)) = 1}}

-----------------------------------------------------------------------------
(* The scopes of names.                                                     *)

\* enclosingScope: the innermost scope around a node; for a var, the body of
\* the innermost function, or the program.
ScopeOf(t, i, functionOnly) ==
    LET scope == Greatest(Around(t, i, FunctionScopes \cup {"program"} \cup
                     IF functionOnly THEN {} ELSE {"statement_block", "for_in_statement", "catch_clause"}))
        bodies == Field(t, scope, "body")
    IN  IF functionOnly /\ t[scope].kind \in FunctionScopes /\ bodies # {}
        THEN CHOOSE b \in bodies : TRUE ELSE scope

\* Where an import declared by a declarator is: the import() of a dynamic one.
ImportPosition(t, d, name) ==
    LET imports == {i \in OfKind(t, {"import"}) :
                       /\ Spans(t, d, i)
                       /\ \E imp \in DynamicImports(t, i) :
                             imp.kind = "dynamic_static_literal" /\ imp.local = name}
    IN  IF DeclaresDynamicImport(t, d) /\ imports # {} THEN Greatest(imports) ELSE d

Lexical(t, name, pos, importPos, scope) ==
    [name |-> name, pos |-> pos, importPos |-> importPos, from |-> scope, to |-> t[scope].last]

\* appendLexicalBindings: every declared name with the scope it is declared in.
LexicalBindings(t) ==
    (UNION {{Lexical(t, x, p, p, t[p].up) : x \in Locals(t[p].binds)} : p \in OfKind(t, {"parameter"})})
    \cup {Lexical(t, t[i].name, i, i, i) :
             i \in {j \in OfKind(t, {"function_expression"}) : t[j].name # NoName}}
    \cup (UNION {{Lexical(t, x, d, ImportPosition(t, d, x), ScopeOf(t, d, t[d].mode = "var")) :
                    x \in Locals(t[d].binds)} : d \in OfKind(t, {"variable_declarator"})})
    \cup {Lexical(t, t[i].name, i, i, ScopeOf(t, i, FALSE)) : i \in OfKind(t, Declarations)}
    \cup (UNION {{Lexical(t, x, i, i, i) : x \in Locals(t[i].binds)} : i \in OfKind(t, {"catch_clause"})})
    \cup UNION {{Lexical(t, x, i, i, IF t[i].mode = "var" THEN ScopeOf(t, i, TRUE) ELSE i) :
                   x \in Locals(t[i].binds)} :
                i \in {j \in OfKind(t, {"for_in_statement"}) : t[j].mode # "assigned"}}

-----------------------------------------------------------------------------
\* extractSource: a file with a syntax error gives no evidence at all.
Extract(t) ==
    IF OfKind(t, {"ERROR"}) # {}
    THEN [failed |-> TRUE, imports |-> {}, calls |-> {}, functions |-> {}, anonymous |-> {},
          exports |-> {}, routes |-> {}, lexical |-> {}]
    ELSE [failed |-> FALSE, imports |-> ImportsOf(t), calls |-> CallsOf(t),
          functions |-> FunctionsOf(t), anonymous |-> AnonymousOf(t),
          exports |-> ExportsOf(t, FunctionsOf(t)), routes |-> RoutesOf(t),
          lexical |-> LexicalBindings(t)]
=============================================================================

---------------------------- MODULE SourceImports ----------------------------
(***************************************************************************)
(* The imports the extractor reads from one file                           *)
(* (extract.go, extract_imports.go, copied_imports.go): what each form of  *)
(* import, require and import() binds, and when the imported value escapes *)
(* what the analysis follows.                                              *)
(*                                                                         *)
(* A require(...) or import(...) call is a node of its own kind, named by  *)
(* its specifier.  Specifiers are values of CallGraph; only Computed is    *)
(* told apart here.                                                        *)
(***************************************************************************)
EXTENDS SyntaxTree

CONSTANTS Computed,   \* a specifier that is not a literal
          Untracked,  \* UnresolvedUse: outside_supported_syntax
          Reexported, \* UnresolvedUse: reexport_chain
          NoUse       \* UnresolvedUse: empty

Calls == {"call", "require", "import"}   \* the nodes that are call_expressions

\* An import: the name it binds here (local), the export it stands for
\* (imported), the direct calls on an unbound require (inline: callee and
\* position), and the end of the block a dynamic binding is limited to (0: none).
Import(specifier, kind, local, imported, pos) ==
    [specifier |-> specifier, kind |-> kind, local |-> local, imported |-> imported,
     pos |-> pos, inline |-> {}, assigned |-> FALSE, use |-> NoUse, scopeEnd |-> 0]

TypeOnly(imp) == imp.kind = "esm_type_only"
Escaping(imp, use) == [imp EXCEPT !.use = use]

\* appendESMImports: one import for each name of the clauses, and one without
\* a name for a statement that has none.
EsmImports(t) ==
    UNION {LET s == t[i]
               kind(b) == IF s.mode = "type" THEN "esm_type_only" ELSE b.form
           IN  IF s.binds = <<>> THEN {Import(s.name, "esm_side_effect", NoName, "*", i)}
               ELSE {Import(s.name, kind(s.binds[k]), s.binds[k].local, s.binds[k].key, i) :
                        k \in DOMAIN s.binds}
           : i \in OfKind(t, {"import_statement"})}

\* appendImportRequireClauses: import x = require("pkg").
ImportEquals(t) ==
    {Import(t[i].name, IF t[i].mode = "type" THEN "esm_type_only" ELSE "cjs_require",
            TheName(t[i].binds), "*", i) : i \in OfKind(t, {"import_require_clause"})}

\* appendReexports: the package's exports leave the file under other names.
Reexports(t) ==
    UNION {LET s == t[i]
               entry(b) == IF s.mode = "type" \/ b.form = "esm_type_only"
                           THEN Import(s.name, "esm_type_only", NoName, b.key, i)
                           ELSE Escaping(Import(s.name, "esm_reexport", NoName, b.key, i), Reexported)
           IN  IF s.binds = <<>> THEN {entry(Bind("esm_named", "*", NoName))}
               ELSE {entry(s.binds[k]) : k \in DOMAIN s.binds}
           : i \in {j \in OfKind(t, {"export_statement"}) : t[j].name # NoName}}

-----------------------------------------------------------------------------
(* require(...)                                                             *)

Escaped(t, i) == Escaping(Import(t[i].name, "cjs_require", NoName, "*", i), Untracked)
Unbound(t, i) == Import(t[i].name, "cjs_require", NoName, "*", i)
Inline(t, i, callee, pos) == [Unbound(t, i) EXCEPT !.inline = {[callee |-> callee, pos |-> pos]}]

\* appendBoundRequire: const x = require() and const { a, b: c } = require().
BoundRequire(t, i) ==
    LET d == t[i].up
        pairs == Pairs(t[d].binds)
    IN  IF IsName(t[d].binds)
        THEN {Import(t[i].name, "cjs_require", TheName(t[d].binds), "*", d)}
        ELSE {Import(t[i].name, "cjs_destructured", pairs[k].local, pairs[k].key, d) :
                 k \in DOMAIN pairs}
             \cup IF pairs # <<>> /\ Len(pairs) = Len(t[d].binds) THEN {} ELSE {Escaped(t, i)}

\* appendMemberRequire: const f = require().f and require().f(x).
MemberRequire(t, i) ==
    LET m == t[i].up
        o == t[m].up
    IN  IF FieldOf(t, m, "variable_declarator", "value") /\ IsName(t[o].binds)
        THEN {Import(t[i].name, "cjs_destructured", TheName(t[o].binds), t[m].name, o)}
        ELSE IF FieldOf(t, m, "call", "function") THEN {Inline(t, i, t[m].name, o)} ELSE {}

\* A computed require keeps the name it is bound to, if it is one.
ComputedRequire(t, i) ==
    LET d == t[i].up
        named == FieldOf(t, i, "variable_declarator", "value") /\ IsName(t[d].binds)
    IN  Import(Computed, "dynamic_computed", IF named THEN TheName(t[d].binds) ELSE NoName, "*", i)

\* appendRequireImports, by what holds the call.
RequireImports(t, i) ==
    LET p == t[i].up
    IN  IF t[i].name = Computed THEN {ComputedRequire(t, i)}
        ELSE CASE FieldOf(t, i, "variable_declarator", "value") -> BoundRequire(t, i)
               [] FieldOf(t, i, "assignment_expression", "right") /\ t[p].mode = "identifier" ->
                     {[Import(t[i].name, "cjs_require", t[p].name, "*", p) EXCEPT !.assigned = TRUE]}
               [] FieldOf(t, i, "member_expression", "object") /\ MemberRequire(t, i) # {} ->
                     MemberRequire(t, i)
               [] FieldOf(t, i, "call", "function") -> {Inline(t, i, "default", p)}
               [] t[p].kind = "expression_statement" -> {Unbound(t, i)}
               [] OTHER -> {Escaped(t, i)}

-----------------------------------------------------------------------------
(* import(...)                                                              *)

\* dynamicBindingScope: the end of the innermost block, loop or switch.
ScopeEnd(t, i) ==
    LET blocks == Around(t, i, {"statement_block", "for_in_statement"})
    IN  IF blocks = {} THEN 0 ELSE t[Greatest(blocks)].last

Awaited(t, i) == t[t[i].up].kind = "await_expression"
HeldBy(t, i) == IF Awaited(t, i) THEN t[i].up ELSE i   \* the node whose parent holds the module

\* dynamicImportBindings: the names it binds, and whether the module escapes.
DynamicBindings(t, i) ==
    LET v == HeldBy(t, i)
        p == t[t[v].up]
        names == Pairs(p.binds)
        binds(seq, assigned, use) == [names |-> seq, assigned |-> assigned, use |-> use]
    IN  IF p.kind = "expression_statement" THEN binds(<<>>, FALSE, NoUse)
        ELSE IF Awaited(t, i) /\ FieldOf(t, v, "variable_declarator", "value")
             THEN IF IsName(p.binds) THEN binds(p.binds, FALSE, NoUse)
                  ELSE binds(names, FALSE, IF Len(names) = Len(p.binds) THEN NoUse ELSE Untracked)
        ELSE IF Awaited(t, i) /\ FieldOf(t, v, "assignment_expression", "right") /\ p.mode = "identifier"
             THEN binds(Whole(p.name), TRUE, NoUse)
        ELSE binds(<<>>, FALSE, Untracked)

\* appendDynamicImport: the first name carries the unresolved use.
DynamicImports(t, i) ==
    LET computed == t[i].name = Computed
        bound == DynamicBindings(t, i)
        kept == IF computed /\ ~IsName(bound.names) THEN <<>> ELSE bound.names
        names == IF kept = <<>> THEN Whole(NoName) ELSE kept
        use(k) == IF k = 1 /\ ~computed THEN bound.use ELSE NoUse
    IN  {[Import(t[i].name, IF computed THEN "dynamic_computed" ELSE "dynamic_static_literal",
                 names[k].local, names[k].key, i)
          EXCEPT !.assigned = bound.assigned /\ kept # <<>>, !.use = use(k),
                 !.scopeEnd = ScopeEnd(t, i)] : k \in DOMAIN names}

-----------------------------------------------------------------------------
(* Copied imports.                                                          *)

\* What is not searched: the result of a call or a function is not a copy.
Opaque == Calls \cup {"new_expression", "function_expression", "arrow_function"}

\* The values that are copied: what a declarator or an assignment holds, what
\* is returned, the expression of an arrow, the arguments of a call.
CopiedValues(t) ==
    {i \in DOMAIN t :
        \/ FieldOf(t, i, "variable_declarator", "value")
        \/ FieldOf(t, i, "assignment_expression", "right")
        \/ t[i].up # 0 /\ t[t[i].up].kind = "return_statement"
        \/ FieldOf(t, i, "arrow_function", "body") /\ t[i].kind # "statement_block"
        \/ t[i].kind = "arguments"}

\* The identifiers of a value outside the calls and functions in it.
NamesIn(t, i) == {t[j].name : j \in {k \in OfKind(t, {"identifier"}) :
                                        /\ Spans(t, i, k)
                                        /\ \A o \in OfKind(t, Opaque) : ~(Spans(t, i, o) /\ Spans(t, o, k))}}

CopiedNames(t) == UNION {NamesIn(t, i) : i \in CopiedValues(t)}

\* markCopiedImports: by name, whatever the name means at that place.
MarkCopied(imps, copied) ==
    {IF imp.local \in copied /\ imp.use = NoUse /\ ~TypeOnly(imp)
     THEN Escaping(imp, Untracked) ELSE imp : imp \in imps}

ImportsOf(t) ==
    MarkCopied(EsmImports(t) \cup ImportEquals(t) \cup Reexports(t)
               \cup (UNION {RequireImports(t, i) : i \in OfKind(t, {"require"})})
               \cup UNION {DynamicImports(t, i) : i \in OfKind(t, {"import"})},
               CopiedNames(t))
=============================================================================

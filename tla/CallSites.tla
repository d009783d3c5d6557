------------------------------ MODULE CallSites ------------------------------
(***************************************************************************)
(* The call sites of an import (internal/usagegraph/observations.go,       *)
(* internal/sourceanalysis/lexical_bindings.go): which calls of the file   *)
(* are made through it, and which entry point reaches each.  Which         *)
(* occurrence of a package an import names is UsageGraph's; here a package *)
(* of the inventory has one.                                               *)
(***************************************************************************)
EXTENDS CallGraph

CONSTANTS NoEntry,   \* a call site without a path
          NoSymbol   \* a call whose target is not known

\* nearestLexicalBinding: the innermost declaration of a name, the last one of
\* its scope.
Nearest(r, name, pos) ==
    LET around == {b \in r.lexical : b.name = name /\ b.from <= pos /\ pos <= b.to}
        inner == {b \in around : \A o \in around : o.from <= b.from}
    IN  {b \in inner : \A o \in inner : o.pos <= b.pos}

\* ImportBindingAmbiguous: the scope declares the name more than once.
Ambiguous(r, imp, pos) ==
    \E n \in Nearest(r, imp.local, pos) :
        Cardinality({b \in r.lexical : b.name = imp.local /\ b.from = n.from}) > 1

\* The declarations that are the import's own.
OwnBindings(r, imp) == {b \in r.lexical : b.name = imp.local /\ b.importPos = imp.pos}

\* Mutant: shadowing is forgotten.
InScope(r, imp, pos) == \A b \in OwnBindings(r, imp) : b.from <= pos /\ pos <= b.to

\* The rule for an import that declares its name.
OwnsDeclaredCall(r, imp, pos) ==
    LET nearest == Nearest(r, imp.local, pos)
    IN  \/ \E b \in OwnBindings(r, imp), n \in nearest : Ambiguous(r, imp, pos) /\ b.from = n.from
        \/ /\ \A b \in OwnBindings(r, imp) : b.from <= pos /\ pos <= b.to
           /\ \A n \in nearest : n.importPos = imp.pos

\* ImportOwnsCall: the name means the import at the call.
OwnsCall(r, imp, pos) ==
    IF imp.assigned THEN Nearest(r, imp.local, pos) = Nearest(r, imp.local, imp.pos)
    ELSE OwnsDeclaredCall(r, imp, pos)

\* thirdPartyCall: the symbol a call through the import calls.
SymbolCalled(imp, c) ==
    IF imp.local = NoName THEN {}
    ELSE IF c.receiver = imp.local THEN {IF c.callee = NoCallee THEN NoSymbol ELSE c.callee}
    ELSE IF c.receiver # NoName \/ c.callee # imp.local THEN {}
    ELSE CASE imp.kind \in {"esm_named", "cjs_destructured"} -> {imp.imported}
           [] imp.kind = "dynamic_static_literal" ->
                 {IF imp.imported = "*" THEN "default" ELSE imp.imported}
           [] imp.kind \in {"esm_default", "cjs_require"} -> {"default"}
           [] OTHER -> {NoSymbol}

\* npmImportParts and indexOccurrences: the import names a package of the
\* inventory, or a path in one.
InInventory(app, imp) ==
    /\ imp.specifier # Computed /\ imp.specifier.root = "package"
    /\ \E package \in app.packages : IsPrefix(package, imp.specifier.path)

\* isThirdPartyImport, buildObservations: an alias names the application's own
\* code, unless the inventory has a package of that name.
ThirdParty(app, imp) ==
    \/ imp.specifier = Computed \/ InInventory(app, imp)
    \/ imp.specifier # Computed /\ imp.specifier.root = "package" /\ MatchAlias(app.aliases, imp.specifier) = {}

\* pathTo: from the entry point along the recorded parents.
PathOf(paths, target, length) ==
    LET Back[k \in 0 .. length] == IF k = 0 THEN target ELSE paths[Back[k - 1]].parent
    IN  [k \in 1 .. length + 1 |-> Back[length + 1 - k]]

\* A call site; a path is looked up only for a resolved call with an owner,
\* through an import of a package of the inventory.
Site(app, file, r, imp, pos, symbol, paths, depth) ==
    LET owners == {FunctionId(file, o) : o \in CallOwner(r, pos)}
        found == {f \in owners : InInventory(app, imp) /\ symbol # NoSymbol /\ f \in DOMAIN paths}
        reached == CHOOSE f \in found : TRUE
    IN  [file |-> file, import |-> imp, pos |-> pos, symbol |-> symbol, owner |-> owners,
         entry |-> IF found = {} THEN NoEntry ELSE paths[reached].entry,
         path |-> IF found = {} THEN <<>> ELSE PathOf(paths, reached, depth[reached])]

\* observationCallSites: the calls through the name of the import, the calls on
\* the import itself, and one unresolved site for a value that escapes.
SitesOf(app, file, r, imp, paths, depth) ==
    LET named == {c \in r.calls : /\ SymbolCalled(imp, c) # {}
                                  /\ DynamicVisible(r, imp, c.pos)
                                  /\ OwnsCall(r, imp, c.pos)}
        site(pos, symbol) == Site(app, file, r, imp, pos, symbol, paths, depth)
        symbol(c) == IF Ambiguous(r, imp, c.pos) THEN NoSymbol
                     ELSE CHOOSE s \in SymbolCalled(imp, c) : TRUE
    IN  {site(c.pos, symbol(c)) : c \in named}
        \cup {site(c.pos, c.callee) : c \in imp.inline}
        \cup IF imp.use = NoUse THEN {} ELSE {site(imp.pos, NoSymbol)}

\* buildObservations, over the files of the application.
CallSitesOf(app, results, paths, depth) ==
    UNION {UNION {SitesOf(app, file, results[file], imp, paths, depth) :
                     imp \in {i \in results[file].imports : ThirdParty(app, i) /\ ~TypeOnly(i)}} :
              file \in DOMAIN results}
=============================================================================

----------------------------- MODULE PackageSource -----------------------------
(***************************************************************************)
(* One JavaScript file of a package or a repository, as the localiser      *)
(* parses it (internal/localisation/functions.go, exports.go).  A file is  *)
(* a sequence of blocks: top-level functions and other top-level           *)
(* statements, each with the lines it covers, the identifiers it uses and  *)
(* the files it loads itself.                                              *)
(***************************************************************************)
EXTENDS Naturals, Sequences

CONSTANTS NoName,       \* an anonymous function, a statement with no name
          NoFile,
          Whole,        \* a module itself, as opposed to one of its members
          CommentLines  \* lines that are blank or a comment

\* block.kind is "function" or "statement"; alias is a function expression's own
\* name when it is bound to another (visible only inside it); inner names the
\* function nested on the block's last line; loads are the modules (and members)
\* it requires.
Block(kind, name, alias, inner, lines, uses, loads) ==
    [kind |-> kind, name |-> name, alias |-> alias, inner |-> inner, lines |-> lines,
     uses |-> uses, loads |-> loads]

\* export.kind: "local" exports a top-level name, "inline" the function in the
\* block it names, "module" a member of another file (or the whole of it),
\* "call" the result of a call.
Export(name, kind, local, module, member) ==
    [name |-> name, kind |-> kind, local |-> local, module |-> module, member |-> member]

\* flags: "minified", "error" (a syntax error), "computed" (a computed export),
\* "escape" (module.exports in another expression), "loadsAny" (a computed path).
File(blocks, exports, binds, flags) ==
    [blocks |-> blocks, exports |-> exports, binds |-> binds, flags |-> flags]

Minified(f) == "minified" \in f.flags

-----------------------------------------------------------------------------
FunctionBlocks(f) == {i \in DOMAIN f.blocks : f.blocks[i].kind = "function"}

Text(f) == LET upTo[n \in 0 .. Len(f.blocks)] ==
                   IF n = 0 THEN << >> ELSE upTo[n - 1] \o f.blocks[n].lines
           IN  upTo[Len(f.blocks)]

StartLine(f, i) == LET before[n \in 0 .. i - 1] ==
                           IF n = 0 THEN 1 ELSE before[n - 1] + Len(f.blocks[n].lines)
                   IN  before[i - 1]

EndLine(f, i) == StartLine(f, i) + Len(f.blocks[i].lines) - 1

\* A span covers the lines of a named function; the function nested in a block
\* is one deeper.  A minified file has none.
Span(name, alias, block, from, to, depth) ==
    [name |-> name, alias |-> alias, block |-> block, from |-> from, to |-> to, depth |-> depth]

Spans(f) ==
    IF Minified(f) THEN {}
    ELSE {Span(f.blocks[i].name, f.blocks[i].alias, i, StartLine(f, i), EndLine(f, i), 0) :
             i \in FunctionBlocks(f)}
         \cup {Span(f.blocks[i].inner, NoName, i, EndLine(f, i), EndLine(f, i), 1) :
                  i \in {k \in FunctionBlocks(f) : f.blocks[k].inner # NoName}}

\* The names a candidate may give a function.
SpanNames(s) == {s.name, s.alias} \ {NoName}

NamedSpans(f) == {s \in Spans(f) : s.name # NoName}

\* Mutant: the outermost function that holds the line.
OutermostFunctions(f, line) ==
    LET holds == {s \in NamedSpans(f) : line \in s.from .. s.to}
    IN  {s \in holds : \A t \in holds : s.depth =< t.depth}

\* The innermost named function that holds the line, if one does.
EnclosingFunctions(f, line) ==
    LET holds == {s \in NamedSpans(f) : line \in s.from .. s.to}
    IN  {s \in holds : \A t \in holds : t.depth =< s.depth}

IsCodeLine(f, line) == line \in DOMAIN Text(f) => Text(f)[line] \notin CommentLines

\* The names an exported function has outside its file.
ExportedNames(f, name) ==
    {e.name : e \in {x \in f.exports : x.kind = "local" /\ x.local = name}}

-----------------------------------------------------------------------------
\* What each export name refers to: a local name, the function of a block, or
\* another file.  A name bound to another file is that file's export.
Target(local, module, member) == [local |-> local, module |-> module, member |-> member]

TargetsOf(f, e) ==
    LET bound == {b \in f.binds : b.local = e.local}
    IN  IF e.kind = "module" THEN {Target(NoName, e.module, e.member)}
        ELSE IF e.kind = "call" THEN {}
        ELSE IF e.kind = "local" /\ bound # {}
             THEN {Target(NoName, b.module, b.member) : b \in bound}
        ELSE {Target(e.local, NoFile, Whole)}

Names(f) == IF Minified(f) THEN {}
            ELSE UNION {{[name |-> e.name, target |-> t] : t \in TargetsOf(f, e)} : e \in f.exports}

AllNames(f) == {n.name : n \in Names(f)} \ {"*"}

\* The export list may be incomplete.
Dynamic(f) == \/ f.flags \cap {"minified", "error", "computed", "escape"} # {}
              \/ \E e \in f.exports : e.kind = "call"

\* The package files a file loads, anywhere in it.
Requires(f) ==
    IF Minified(f) THEN {}
    ELSE {b.module : b \in f.binds}
         \cup {e.module : e \in {x \in f.exports : x.kind = "module"}}
         \cup UNION {{l.module : l \in f.blocks[i].loads} : i \in DOMAIN f.blocks}

NonLiteral(f) == "loadsAny" \in f.flags

\* A name is used outside the interior of one of its blocks (0: of none).  The
\* first and last lines of a function are not its interior, so a function of
\* fewer than three lines that calls itself counts as used.
UsedOutside(f, name, i) ==
    \E k \in DOMAIN f.blocks :
        name \in f.blocks[k].uses /\ (k # i \/ Len(f.blocks[k].lines) < 3)

\* Names used outside every function: they may run when the file is loaded.
UsedOnLoad(f) == UNION {f.blocks[i].uses : i \in DOMAIN f.blocks \ FunctionBlocks(f)}
================================================================================

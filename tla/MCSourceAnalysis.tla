--------------------------- MODULE MCSourceAnalysis ---------------------------
(***************************************************************************)
(* Small applications for SourceAnalysis.  Single: one file, every form of *)
(* import, at the top level or in a function, with a use of it in every    *)
(* kind of scope around it.  Graphs: applications whose files call each    *)
(* other, for the call graph, the entry points and the search.             *)
(***************************************************************************)
EXTENDS SourceAnalysis

-----------------------------------------------------------------------------
(* JavaScript.                                                              *)

Node(kind, children) == Parent(kind, NoName, "none", <<>>, children)
Named(kind, name, children) == Parent(kind, name, "none", <<>>, children)

Id(x) == Leaf("identifier", x)
Member(o, p) == Named("member_expression", p, <<As("object", o)>>)
Subscript(o) == Node("subscript_expression", <<As("object", o), Token>>)
Arguments(args) == As("arguments", Node("arguments", args \o <<Token>>))
CallE(f, args) == Node("call", <<As("function", f), Arguments(args)>>)
New(f) == Node("new_expression", <<As("constructor", f), Arguments(<<>>)>>)
Require(s) == Leaf("require", s)
Load(s) == Leaf("import", s)
Await(e) == Node("await_expression", <<e>>)
Grouped(e) == Node("expression", <<Leaf("number", NoName), e>>)
ObjectOf(e) == Node("object", <<e, Token>>)

Block(body) == Node("statement_block", body \o <<Token>>)
Do(e) == Node("expression_statement", <<e>>)
If(e) == Node("if_statement", <<Node("condition", <<e>>), Block(<<>>)>>)
Return(e) == Node("return_statement", <<e>>)
Declare(mode, binds, e) == Parent("variable_declarator", NoName, mode, binds, <<As("value", e)>>)
Const(x, e) == Declare("let", Whole(x), e)
Bare(x) == Parent("variable_declarator", NoName, "let", Whole(x), <<>>)
Assign(x, e) == Do(Parent("assignment_expression", x, "identifier", <<>>, <<As("right", e)>>))
Exports(x, e) == Do(Parent("assignment_expression", x, "module.exports", <<>>, <<As("right", e)>>))

Param(x) == As("parameter", Parent("parameter", NoName, "none", Whole(x), <<>>))
Default(x, e) == As("parameter", Parent("parameter", NoName, "none", Whole(x), <<e>>))
Body(body) == As("body", Block(body))
Fun(f, params, body) == Named("function_declaration", f, params \o <<Body(body)>>)
Generator(f, body) == Named("generator_function_declaration", f, <<Body(body)>>)
FunE(f, params, body) == Named("function_expression", f, params \o <<Body(body)>>)
Arrow(params, body) == Node("arrow_function", params \o <<As("body", body)>>)
Class(c, heritage, body) == Named("class_declaration", c, heritage \o body \o <<Token>>)
Method(m, params, body) == Named("method_definition", m, params \o <<Body(body)>>)
Catch(x, body) == Parent("catch_clause", NoName, "none", Whole(x), <<Body(body)>>)
For(mode, x, body) == Parent("for_in_statement", NoName, mode, Whole(x), <<Id("list"), Body(body)>>)

Esm(s, binds) == Parent("import_statement", s, "value", binds, <<>>)
TypeImport(s, binds) == Parent("import_statement", s, "type", binds, <<>>)
Equals(s, x) == Parent("import_require_clause", s, "value", Whole(x), <<>>)
From(s, binds) == Parent("export_statement", s, "value", binds, <<>>)
Export(e) == Parent("export_statement", NoName, "value", <<>>, <<e>>)
ExportDefault(e) == Parent("export_statement", NoName, "default", <<>>, <<e>>)
ExportNames(binds) == Parent("export_statement", NoName, "value", binds, <<>>)

Program(body) == Tree(Parent("program", NoName, "none", <<>>, body))

Js(name) == File(<<name>>, ".js")
App(files, aliases, entries, declared) ==
    [files |-> files, aliases |-> aliases, packageEntries |-> entries, declared |-> declared,
     packages |-> {<<"lib">>, <<"other">>}]
Entry(name) == [path |-> <<name>>, ext |-> NoExt]
DeclaredAt(name, f, line) == [file |-> Js(name), name |-> f, line |-> line]
Declared(name, f) == DeclaredAt(name, f, 0)

-----------------------------------------------------------------------------
(* Single files.                                                            *)

Lib == Package(<<"lib">>)
Other == Package(<<"other">>)

\* The forms of an import of lib as m.
StaticBinders == {
    <<Esm(Lib, <<Bind("esm_default", "default", "m")>>)>>,
    <<Esm(Lib, <<Bind("esm_namespace", "*", "m")>>)>>,
    <<Esm(Lib, <<Bind("esm_named", "f", "m"), Bind("esm_type_only", "T", "T")>>)>>,
    <<Equals(Lib, "m")>>}
LocalBinders == {
    <<Const("m", Require(Lib))>>,
    <<Declare("let", <<Pair("f", "m"), Rest("rest")>>, Require(Lib))>>,
    <<Const("m", Member(Require(Lib), "f"))>>,
    <<Bare("m"), Assign("m", Require(Lib))>>,
    <<Const("m", Await(Load(Lib)))>>,
    <<Declare("let", <<Pair("f", "m")>>, Await(Load(Lib)))>>,
    <<Bare("m"), Assign("m", Await(Load(Lib)))>>,
    <<Declare("var", Whole("m"), Require(Lib)), Declare("var", Whole("m"), Require(Other))>>}

\* The ways to use m.
Calling == {Do(CallE(Id("m"), <<>>)), Do(CallE(Member(Id("m"), "f"), <<>>)),
            Do(CallE(Subscript(Id("m")), <<>>)),
            Const("c", CallE(Member(CallE(Member(Id("m"), "f"), <<>>), "g"), <<>>))}
Passing == {Do(CallE(Id("k"), <<Id("m")>>)), Const("c", Member(Id("m"), "f")), Return(Id("m")),
            Const("c", ObjectOf(Id("m"))), Assign("c", Id("m")), Const("c", Arrow(<<>>, Id("m"))),
            If(Id("m"))}
Silently == {Do(New(Member(Id("m"), "C"))), Do(CallE(Member(Member(Id("m"), "a"), "b"), <<>>)),
             Class("c", <<Id("m")>>, <<>>), Fun("c", <<Default("p", Id("m"))>>, <<>>),
             Do(CallE(Grouped(Member(Id("m"), "f")), <<>>))}

\* The scopes around a use: a function that is called, with the name shadowed
\* or not, a block, a loop, a handler, a callback, a method, a generator.
Contexts(use) == {
    <<use>>,
    <<Fun("g", <<>>, <<use>>), Do(CallE(Id("g"), <<>>))>>,
    <<Fun("g", <<Param("m")>>, <<use>>), Do(CallE(Id("g"), <<>>))>>,
    <<Fun("g", <<>>, <<use, Block(<<Bare("m")>>)>>), Do(CallE(Id("g"), <<>>))>>,
    <<Fun("g", <<>>, <<Block(<<Bare("m"), use>>)>>), Do(CallE(Id("g"), <<>>))>>,
    <<Catch("m", <<use>>), use>>,
    <<Fun("g", <<>>, <<Catch("m", <<use>>)>>), Do(CallE(Id("g"), <<>>))>>,
    <<For("let", "m", <<use>>), use>>,
    <<For("assigned", "m", <<use>>)>>,
    <<Do(CallE(Member(Id("list"), "each"), <<Arrow(<<>>, Block(<<use>>))>>))>>,
    <<Do(CallE(Member(Id("list"), "each"), <<Arrow(<<Param("m")>>, Block(<<use>>))>>)), use>>,
    <<Const("g", Arrow(<<>>, Block(<<use>>))), Do(CallE(Id("g"), <<>>))>>,
    <<Const("g", FunE("g", <<>>, <<use>>)), Do(CallE(Id("g"), <<>>))>>,
    <<Const("g", FunE("m", <<>>, <<use>>)), Do(CallE(Id("g"), <<>>)), use>>,
    <<Fun("g", <<>>, <<Fun("m", <<>>, <<>>), use>>), Do(CallE(Id("g"), <<>>))>>,
    <<Class("C", <<>>, <<Method("run", <<Param("m")>>, <<use>>)>>), use>>,
    <<Generator("g", <<use>>)>>}

OneFile(body) == App(Js("main") :> Program(body), {}, {Entry("main")}, {})

SingleWith(binders, uses) ==
    {OneFile(b \o c) : b \in binders, c \in UNION {Contexts(u) : u \in uses}}

\* An import bound inside the function that uses it, and outside of it again.
InFunction(uses) ==
    UNION {{OneFile(<<Fun("g", <<>>, <<Block(b \o <<u>>), u>>), Do(CallE(Id("g"), <<>>))>>),
            OneFile(<<Fun("g", <<Param("m")>>, b \o <<u>>), Do(CallE(Id("g"), <<>>)), u>>),
            OneFile(<<Bare("m"), Fun("g", <<>>, b \o <<u>>), Do(CallE(Id("g"), <<>>)), u>>)} :
           b \in LocalBinders, u \in uses}

\* Imports without a name, and the calls made on them directly.
Nameless == {
    OneFile(<<Esm(Lib, <<>>), TypeImport(Lib, <<Bind("esm_named", "T", "T")>>)>>),
    OneFile(<<From(Lib, <<Bind("esm_named", "f", "f")>>), From(Other, <<>>)>>),
    OneFile(<<Do(Require(Lib)), Do(CallE(Require(Lib), <<>>)), Do(CallE(Member(Require(Lib), "f"), <<>>))>>),
    OneFile(<<Const("p", Load(Lib)), Do(Load(Other)), Do(CallE(Id("k"), <<Require(Lib)>>))>>),
    OneFile(<<Const("m", Require(Computed)), Do(CallE(Member(Id("m"), "f"), <<>>)),
              Const("n", Await(Load(Computed))), Do(CallE(CallE(Id("k"), <<>>), <<>>))>>),
    OneFile(<<Leaf("ERROR", NoName), Const("m", Require(Lib)), Do(CallE(Id("m"), <<>>))>>)}

\* A name declared again where it is a parameter of a handler, and a computed
\* require in a block.
Redeclared == {
    OneFile(<<Catch("m", <<Declare("var", Whole("m"), Require(Lib)), Do(CallE(Id("m"), <<>>))>>),
              Do(CallE(Member(Id("m"), "f"), <<>>))>>),
    OneFile(<<Block(<<Const("m", Require(Computed))>>), Do(CallE(Member(Id("m"), "f"), <<>>))>>)}

Single == Redeclared \cup SingleWith(StaticBinders \cup LocalBinders, Calling \cup Passing)
          \cup InFunction(Calling) \cup Nameless

-----------------------------------------------------------------------------
(* Call graphs.                                                             *)

UseLib == Do(CallE(Id("lib"), <<>>))
ImportLib == Esm(Lib, <<Bind("esm_default", "default", "lib")>>)
CallM == Do(CallE(Id("m"), <<>>))
CallMf == Do(CallE(Member(Id("m"), "f"), <<>>))

\* A function m of the file that calls lib, called in every scope.
LocalFunctions == {
    <<Fun("m", <<>>, <<UseLib>>)>>,
    <<Const("m", Arrow(<<>>, Block(<<UseLib>>)))>>,
    <<Const("m", FunE("m", <<>>, <<UseLib>>))>>,
    <<Const("n", FunE("m", <<>>, <<UseLib, CallM>>)), Do(CallE(Id("n"), <<>>))>>,
    <<Fun("m", <<>>, <<UseLib>>), Block(<<Fun("m", <<>>, <<>>)>>)>>}
Local == {OneFile(<<ImportLib>> \o f \o c) : f \in LocalFunctions, c \in Contexts(CallM)}
         \cup {OneFile(<<ImportLib, Fun("g", <<>>, f \o <<CallM>>), CallM, Do(CallE(Id("g"), <<>>))>>) :
                  f \in LocalFunctions}

\* The same function in another file, exported and imported in every form.
BSpec == Relative(0, <<"b">>, NoExt)
ImportForms == {
    <<Esm(BSpec, <<Bind("esm_named", "f", "m")>>), CallM>>,
    <<Esm(BSpec, <<Bind("esm_default", "default", "m")>>), CallM>>,
    <<Esm(BSpec, <<Bind("esm_namespace", "*", "m")>>), CallMf>>,
    <<Const("m", Require(BSpec)), CallMf>>,
    <<Const("m", Require(BSpec)), CallM>>,
    <<Declare("let", <<Pair("f", "m")>>, Require(BSpec)), CallM>>,
    <<Const("m", Await(Load(BSpec))), CallMf>>,
    <<Declare("let", <<Pair("f", "m")>>, Await(Load(BSpec))), CallM>>}
ExportForms == {
    <<Export(Fun("f", <<>>, <<UseLib>>))>>,
    <<ExportDefault(Fun("f", <<>>, <<UseLib>>))>>,
    <<Export(Const("f", Arrow(<<>>, CallE(Id("lib"), <<>>))))>>,
    <<Fun("h", <<>>, <<UseLib>>), ExportNames(<<Bind("esm_named", "h", "f")>>), ExportDefault(Id("h"))>>,
    <<Exports("default", FunE("h", <<>>, <<UseLib>>))>>,
    <<Fun("h", <<>>, <<UseLib>>), Exports("f", Id("h"))>>,
    <<Fun("f", <<>>, <<UseLib, Fun("f", <<>>, <<>>)>>), ExportNames(<<Bind("esm_named", "f", "f")>>)>>}

TwoFiles(form, context, exports) ==
    App(Js("main") :> Program(<<form[1]>> \o context) @@ Js("b") :> Program(<<ImportLib>> \o exports),
        {}, {Entry("main")}, {})
Across == {TwoFiles(i, c, e) : i \in ImportForms, c \in Contexts(CallM), e \in ExportForms}
          \cup {TwoFiles(i, c, e) : i \in ImportForms, c \in Contexts(CallMf), e \in ExportForms}

\* A call of m where m is another variable, and where it is none.
CallG == Do(CallE(Id("g"), <<>>))
Elsewhere(call) == {
    <<Catch("m", <<call>>)>>,
    <<For("let", "m", <<call>>)>>,
    <<Block(<<Bare("m"), call>>)>>,
    <<Class("C", <<>>, <<Method("run", <<Param("m")>>, <<call>>)>>)>>,
    <<Generator("g", <<Bare("m"), call>>)>>,
    <<Fun("g", <<>>, <<Class("C", <<>>, <<Method("run", <<Param("m")>>, <<call>>)>>)>>), CallG>>,
    <<Fun("g", <<>>, <<Const("m", Await(Load(Lib))), call>>), CallG>>,
    <<Fun("g", <<>>, <<Catch("m", <<call>>)>>), CallG>>,
    <<Fun("g", <<>>, <<Fun("h", <<Param("m")>>, <<call>>), Do(CallE(Id("h"), <<>>))>>), CallG>>}
Outside(declared, call) == {
    <<Block(declared), call>>,
    <<Class("C", <<>>, <<Method("run", <<>>, declared)>>), call>>,
    <<Generator("g", declared), call>>,
    <<Fun("g", <<>>, declared), call>>,
    <<Fun("g", <<>>, <<Block(declared), call>>), CallG>>,
    <<Fun("g", <<Default("p", CallE(Id("m"), <<>>))>>, declared), CallG>>}
Misnamed ==
    {OneFile(<<ImportLib>> \o f \o c) : f \in LocalFunctions, c \in Elsewhere(CallM)}
    \cup {OneFile(<<ImportLib>> \o c) : c \in UNION {Outside(f, CallM) : f \in LocalFunctions}}
    \cup (UNION {{TwoFiles(<<i[1]>>, c, e) : c \in Elsewhere(i[2])} : i \in ImportForms, e \in ExportForms})
    \cup UNION {{App(Js("main") :> Program(c) @@ Js("b") :> Program(<<ImportLib>> \o e), {}, {Entry("main")}, {}) :
                     c \in Outside(<<i[1]>>, i[2])} :
                   i \in {j \in ImportForms : j[1][1].kind = "variable_declarator"}, e \in ExportForms}

\* The searches: functions that call each other, with several entry points.
Calls2(f, a, b) == Fun(f, <<>>, <<Do(CallE(Id(a), <<>>)), Do(CallE(Id(b), <<>>))>>)
Chain(body) == App(Js("index") :> Program(<<ImportLib>> \o body), {}, {}, {Declared("index", "s")})
Searches == {
    Chain(<<Calls2("a", "b", "c"), Calls2("b", "d", "a"), Calls2("c", "d", "e"),
            Calls2("d", "e", "d"), Fun("e", <<>>, <<UseLib>>), Calls2("s", "a", "d"),
            ExportNames(<<Bind("esm_named", "a", "a"), Bind("esm_named", "c", "c")>>)>>),
    Chain(<<Calls2("s", "a", "b"), Calls2("a", "c", "s"), Calls2("b", "e", "c"),
            Calls2("c", "d", "a"), Calls2("d", "e", "e"), Fun("e", <<>>, <<UseLib>>),
            ExportNames(<<Bind("esm_named", "a", "a")>>)>>),
    Chain(<<Calls2("s", "s", "a"), Calls2("a", "b", "d"), Calls2("b", "c", "c"),
            Calls2("c", "d", "e"), Calls2("d", "e", "a"), Fun("e", <<>>, <<UseLib>>)>>)}

\* Routes, aliases and the names of files.
Handler == Arrow(<<Param("req")>>, Block(<<UseLib>>))
Route(args) == Do(CallE(Member(Id("app"), "get"), <<Leaf("string", "/")>> \o args))
Ts(name) == File(<<name>>, ".ts")
In(dir, name) == File(<<dir, name>>, ".js")
Export1 == Program(<<ImportLib, Export(Fun("f", <<>>, <<UseLib>>))>>)
Imports(spec) == Program(<<Esm(spec, <<Bind("esm_named", "f", "m")>>), CallM>>)
At(path) == Relative(0, path, NoExt)
Alias(prefix, star, targets) == [prefix |-> prefix, star |-> star, targets |-> targets]
To(path, star) == [path |-> path, star |-> star]
Routes == {
    OneFile(<<ImportLib, Route(<<Handler>>), Route(<<Id("guard"), Handler>>)>>),
    OneFile(<<ImportLib, Route(<<FunE(NoName, <<>>, <<UseLib>>)>>), Route(<<FunE("h", <<>>, <<UseLib>>)>>)>>),
    OneFile(<<ImportLib, Fun("h", <<>>, <<Do(CallE(Id("k"), <<Arrow(<<>>, CallE(Id("lib"), <<>>))>>))>>),
              Route(<<Id("h")>>)>>)}
Resolutions == {
    App(Js("main") :> Imports(At(<<"b">>)) @@ Js("b") :> Export1 @@ In("b", "index") :> Export1,
        {}, {Entry("main"), Entry("b")}, {}),
    App(In("src", "index") :> Imports(Relative(1, <<"b">>, NoExt)) @@ Js("b") :> Export1,
        {}, {[path |-> <<"src">>, ext |-> NoExt]}, {Declared("b", "f"), Declared("none", "f")}),
    App(Ts("main") :> Imports(Relative(0, <<"b">>, ".js")) @@ Ts("b") :> Export1, {}, {Entry("main")}, {}),
    App(Js("main") :> Imports(Relative(2, <<"b">>, ".js")) @@ Js("b") :> Export1,
        {}, {}, {Declared("main", ModuleName)}),
    App(Js("main") :> Imports(Package(<<"@", "b">>)) @@ In("lib", "b") :> Export1 @@ Js("b") :> Export1,
        {Alias(<<"@">>, TRUE, {To(<<"lib">>, TRUE), To(<<"none">>, TRUE)}), Alias(<<>>, TRUE, {To(<<>>, TRUE)})},
        {Entry("main")}, {}),
    App(Js("main") :> Imports(Package(<<"@", "b">>)) @@ In("lib", "b") :> Export1 @@ Js("b") :> Export1,
        {Alias(<<"@">>, TRUE, {To(<<"lib">>, TRUE)}), Alias(<<"@", "b">>, FALSE, {To(<<"b">>, FALSE)})},
        {Entry("main")}, {})}

\* An alias with the name of a package, in the inventory or not, and a package
\* that is not.
SameName == App(Js("main") :> Imports(Lib) @@ Js("b") :> Export1,
              {Alias(<<"lib">>, FALSE, {To(<<"b">>, FALSE)})}, {Entry("main")}, {})
Inventories == {[a EXCEPT !.packages = p] :
                   a \in {SameName, OneFile(<<ImportLib, UseLib>>)}, p \in {{}, {<<"lib">>}}}

\* Two functions of one name, with the line of the second or none; and the module,
\* with the lines it can and cannot have.
TwoOfAName == Program(<<ImportLib, Fun("f", <<>>, <<UseLib>>),
                        Fun("g", <<>>, <<Fun("f", <<>>, <<UseLib>>)>>)>>)
SecondF == Greatest({i \in OfKind(TwoOfAName, {"function_declaration"}) : TwoOfAName[i].name = "f"})
OnLines == {App(Js("main") :> TwoOfAName, {}, {}, {d}) :
                     d \in {DeclaredAt("main", "f", SecondF), Declared("main", "f"),
                            DeclaredAt("main", ModuleName, 1), DeclaredAt("main", ModuleName, 2)}}

Graphs == Local \cup Across \cup Misnamed \cup Searches \cup Routes \cup Resolutions
          \cup Inventories \cup OnLines

MCApplications == Single \cup Graphs
MCDropped == SingleWith(StaticBinders, Silently)
=============================================================================

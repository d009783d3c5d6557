-------------------------- MODULE JavaScriptBindings --------------------------
(***************************************************************************)
(* What the names of a file mean in JavaScript: the reference the analysis *)
(* is compared with.  A variable is a name with the scope that declares    *)
(* it; nothing here is taken from the analysis but the shape of the tree.  *)
(***************************************************************************)
EXTENDS SyntaxTree

JsFunctions == {"function_declaration", "generator_function_declaration",
                "function_expression", "arrow_function", "method_definition"}
JsScopes == JsFunctions \cup {"program", "statement_block", "for_in_statement", "catch_clause"}

InnermostAround(t, i, kinds) == Greatest(Around(t, i, kinds))

\* A var belongs to the body of its function or to the file.
VarHome(t, i) ==
    LET f == InnermostAround(t, i, JsFunctions \cup {"program"})
        body == Field(t, f, "body")
    IN  IF body = {} THEN f ELSE CHOOSE b \in body : TRUE

\* The scope a declaring node declares its names in, and those names.
Home(t, i) ==
    CASE t[i].kind \in {"parameter"} -> t[i].up
      [] t[i].kind \in {"function_expression", "catch_clause"} -> i
      [] t[i].kind = "for_in_statement" /\ t[i].mode # "var" -> i
      [] t[i].mode = "var" -> VarHome(t, i)
      [] OTHER -> InnermostAround(t, i, JsScopes)

DeclaredNames(t, i) ==
    IF t[i].kind \in {"parameter", "variable_declarator", "catch_clause", "for_in_statement",
                      "import_statement", "import_require_clause"}
    THEN IF t[i].mode = "assigned" THEN {} ELSE Locals(t[i].binds)
    ELSE IF t[i].kind \in {"function_declaration", "generator_function_declaration",
                           "class_declaration", "function_expression"}
    THEN {t[i].name} \ {NoName} ELSE {}

\* The variable a name is at a place: the innermost scope that declares it, or
\* 0 for a name the file does not declare.
VariableAt(t, x, pos) ==
    LET homes == {Home(t, i) : i \in {d \in DOMAIN t : x \in DeclaredNames(t, d)}}
        seen == {s \in homes : Spans(t, s, pos)}
    IN  IF seen = {} THEN 0 ELSE Greatest(seen)

\* The function whose body runs a node: its node, or 1 for the top level.
RunBy(t, i) == InnermostAround(t, i, JsFunctions \cup {"program"})

\* The variables a function can be called by: its own name, and the variable
\* it is the value of.
CalledBy(t, i) ==
    {<<t[i].name, Home(t, i)>> : x \in IF t[i].kind = "arrow_function" THEN {} ELSE {1}}
    \cup IF FieldOf(t, i, "variable_declarator", "value") /\ IsName(t[t[i].up].binds)
         THEN {<<TheName(t[t[i].up].binds), Home(t, t[i].up)>>} ELSE {}

-----------------------------------------------------------------------------
(* The shape of a file.                                                     *)

\* What stands in the body of a function or at the top level, never in a
\* parameter list.
Statements == {"statement_block", "variable_declarator", "for_in_statement", "catch_clause",
               "function_declaration", "generator_function_declaration", "class_declaration"}

\* What the grammar of JavaScript says of the trees: a function has one body and
\* ends with it, a block ends with its brace, a declarator and an await hold
\* one value and nothing else, a property is one of an object, imports are at the
\* top level, and only a catch parameter keeps a var of its name from its scope.
IsJavaScript(t) ==
    /\ IsTree(t) /\ OfKind(t, {"program"}) = {1} /\ Field(t, 1, "body") = {}
    /\ \A f \in OfKind(t, JsFunctions) : \E b \in DOMAIN t :
          /\ Field(t, f, "body") = {b} /\ t[b].last = t[f].last
          /\ t[f].kind = "function_declaration" => t[b].kind = "statement_block"
    /\ \A b \in OfKind(t, {"statement_block"}) :
          t[t[b].last].kind = "token" /\ t[t[b].last].up = b
    /\ \A p \in OfKind(t, {"parameter"}) :
          t[p].role = "parameter" /\ t[p].up # 0 /\ t[t[p].up].kind \in JsFunctions
    /\ \A v \in DOMAIN t :
          \/ FieldOf(t, v, "variable_declarator", "value")
          \/ t[v].up # 0 /\ t[t[v].up].kind = "await_expression"
          => v = t[v].up + 1 /\ t[v].last = t[t[v].up].last
    /\ \A i \in OfKind(t, {"require", "import"}) : t[i].last = i
    /\ \A i \in OfKind(t, {"import_statement", "import_require_clause"}) :
          InnermostAround(t, i, JsScopes) = 1
    /\ \A i \in OfKind(t, {"import_require_clause"}) : IsName(t[i].binds)
    /\ \A i \in OfKind(t, {"member_expression", "subscript_expression"}) : Field(t, i, "object") # {}
    /\ \A i \in DOMAIN t : /\ t[i].mode = "var" => t[i].kind \in {"variable_declarator", "for_in_statement"}
                           /\ t[i].mode = "assigned" => t[i].kind = "for_in_statement"
    /\ \A i \in OfKind(t, Statements) :
          RunBy(t, i) = 1 \/ \E b \in Field(t, RunBy(t, i), "body") : Spans(t, b, i)
    /\ \A d \in OfKind(t, {"variable_declarator"}) : \A x \in Locals(t[d].binds) :
          LET v == VariableAt(t, x, d) IN v = Home(t, d) \/ (v # 0 /\ t[v].kind = "catch_clause")

-----------------------------------------------------------------------------
\* The call an identifier is called by, directly, by a property or a subscript.
CallThrough(t, u) ==
    LET m == t[u].up
    IN  IF FieldOf(t, u, "call", "function") THEN {m}
        ELSE IF t[u].role = "object" /\ FieldOf(t, m, "call", "function") THEN {t[m].up} ELSE {}
=============================================================================

----------------------------- MODULE SyntaxTree -----------------------------
(***************************************************************************)
(* The syntax tree tree-sitter gives the extractor of                      *)
(* internal/sourceanalysis, and the look-ups the extractor makes in it.    *)
(*                                                                         *)
(* A tree is the sequence of its nodes in source order (a node before its  *)
(* children), so the index of a node is its position in the file.  The     *)
(* token that closes a block or an argument list is a node too: two nodes  *)
(* end together exactly when they do in the source.  A declaration is      *)
(* folded into its declarator, and a name, a property or the left side of  *)
(* an assignment into the node it belongs to.                              *)
(***************************************************************************)
EXTENDS Naturals, Sequences, FiniteSets, SequencesExt

CONSTANT NoName   \* a node without a name

\* One name of a pattern, an import clause or an export clause: how it is
\* written, the name it reads and the name it declares (or exports).
Bind(form, key, local) == [form |-> form, key |-> key, local |-> local]

\* x, and the { a, b: c } of a pattern; rest elements, defaults and nested
\* patterns are "other".
Whole(x) == <<Bind("whole", "*", x)>>
Pair(a, x) == Bind("pair", a, x)
Rest(x) == Bind("other", "*", x)

\* A node and the nodes under it.  role is its field in the parent, mode what
\* the node says besides (let or var, a type-only statement, ...).
Parent(kind, name, mode, binds, children) ==
    LET under == FlattenSeq(children)
    IN  <<[kind |-> kind, name |-> name, mode |-> mode, binds |-> binds,
           role |-> "none", level |-> 0]>>
        \o [i \in DOMAIN under |-> [under[i] EXCEPT !.level = @ + 1]]

Leaf(kind, name) == Parent(kind, name, "none", <<>>, <<>>)
Token == Leaf("token", NoName)
As(role, tree) == [tree EXCEPT ![1].role = role]

\* The tree of a file: each node with its parent and its last descendant.
Tree(nodes) ==
    LET Up(i) == {j \in 1 .. i - 1 : nodes[j].level + 1 = nodes[i].level}
        Later(i) == {j \in i + 1 .. Len(nodes) : nodes[j].level <= nodes[i].level}
    IN  [i \in DOMAIN nodes |->
            [kind |-> nodes[i].kind, name |-> nodes[i].name, mode |-> nodes[i].mode,
             binds |-> nodes[i].binds, role |-> nodes[i].role,
             up |-> IF Up(i) = {} THEN 0 ELSE CHOOSE j \in Up(i) : \A k \in Up(i) : k <= j,
             last |-> IF Later(i) = {} THEN Len(nodes)
                      ELSE (CHOOSE j \in Later(i) : \A k \in Later(i) : j <= k) - 1]]

\* What Tree builds: the nodes in an interval from a node to its last descendant
\* are the ones under it, and the parent is the innermost node around.
IsTree(t) ==
    /\ t[1].last \in Nat \ {0} /\ DOMAIN t = 1 .. t[1].last
    /\ \A i \in DOMAIN t : /\ t[i].up \in 0 .. i - 1 /\ t[i].last \in i .. t[1].last
                           /\ t[i].up # 0 => i <= t[t[i].up].last
                           /\ Len(t[i].binds) \in Nat /\ DOMAIN t[i].binds = 1 .. Len(t[i].binds)
    /\ \A i, j \in DOMAIN t :
          i < j /\ j <= t[i].last => i <= t[j].up /\ t[j].last <= t[i].last

-----------------------------------------------------------------------------
(* Look-ups.                                                                *)

Greatest(S) == CHOOSE x \in S : \A y \in S : y <= x
Least(S) == CHOOSE x \in S : \A y \in S : x <= y

\* Positions of a node's text, and the nodes of some kinds.
Spans(t, i, pos) == i <= pos /\ pos <= t[i].last
OfKind(t, kinds) == {i \in DOMAIN t : t[i].kind \in kinds}
Around(t, i, kinds) == {j \in OfKind(t, kinds) : j < i /\ i <= t[j].last}
Children(t, i) == {j \in DOMAIN t : t[j].up = i}
Field(t, i, role) == {j \in Children(t, i) : t[j].role = role}

\* A node that is the given field of a parent of the given kind.
FieldOf(t, i, kind, role) == t[i].up # 0 /\ t[t[i].up].kind = kind /\ t[i].role = role

Locals(binds) == {binds[k].local : k \in DOMAIN binds}
IsName(binds) == Len(binds) = 1 /\ binds[1].form = "whole"
TheName(binds) == binds[1].local
Pairs(binds) ==
    LET taken[k \in 0 .. Len(binds)] ==
            IF k = 0 THEN <<>>
            ELSE IF binds[k].form = "pair" THEN Append(taken[k - 1], binds[k]) ELSE taken[k - 1]
    IN  taken[Len(binds)]
=============================================================================

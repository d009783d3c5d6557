------------------------------- MODULE LineDiff -------------------------------
(***************************************************************************)
(* Which lines of a file changed (internal/localisation/diffparse.go): the *)
(* patience diff of two published versions, and the line numbers read from *)
(* the hunks of a commit's patch.  A file is a sequence of line texts.     *)
(***************************************************************************)
EXTENDS Naturals, Sequences, FiniteSetsExt

CONSTANT MaxExactCells   \* a gap with more cells than this is not aligned

ASSUME CellsAssumption == MaxExactCells \in Nat

\* Lines removed, numbered in the old file, and added, numbered in the new one.
Edits(removed, added, approximate) ==
    [removed |-> removed, added |-> added, approximate |-> approximate]

Joined(edits) == Edits(UNION {e.removed : e \in edits}, UNION {e.added : e \in edits},
                       \E e \in edits : e.approximate)

-----------------------------------------------------------------------------
\* The lines of a gap that occur once in each of its two sides pair up; the
\* anchors are a longest set of pairs in the same order on both sides.
Occurs(text, file, lo, hi) == {i \in lo + 1 .. hi : file[i] = text}

UniquePairs(a, b, aLo, aHi, bLo, bHi) ==
    {p \in (aLo + 1 .. aHi) \X (bLo + 1 .. bHi) :
        /\ Occurs(a[p[1]], a, aLo, aHi) = {p[1]}
        /\ Occurs(a[p[1]], b, bLo, bHi) = {p[2]}}

InOrder(pairs) == \A p, q \in pairs : p[1] < q[1] => p[2] < q[2]

Anchors(a, b, aLo, aHi, bLo, bHi) ==
    LET consistent == {s \in SUBSET UniquePairs(a, b, aLo, aHi, bLo, bHi) : InOrder(s)}
    IN  CHOOSE s \in consistent : \A t \in consistent : Cardinality(t) =< Cardinality(s)

\* The rest of a small gap is aligned by a longest common subsequence; a tie
\* removes first.
ExactEdits(a, b, aLo, aHi, bLo, bHi) ==
    LET common[i \in aLo + 1 .. aHi + 1, j \in bLo + 1 .. bHi + 1] ==
            IF i > aHi \/ j > bHi THEN 0
            ELSE IF a[i] = b[j] THEN 1 + common[i + 1, j + 1]
            ELSE Max({common[i + 1, j], common[i, j + 1]})
        walk[i \in aLo + 1 .. aHi + 1, j \in bLo + 1 .. bHi + 1] ==
            IF i > aHi \/ j > bHi THEN Edits(i .. aHi, j .. bHi, FALSE)
            ELSE IF a[i] = b[j] THEN walk[i + 1, j + 1]
            ELSE IF common[i + 1, j] >= common[i, j + 1]
                 THEN Joined({Edits({i}, {}, FALSE), walk[i + 1, j]})
                 ELSE Joined({Edits({}, {j}, FALSE), walk[i, j + 1]})
    IN  walk[aLo + 1, bLo + 1]

\* The anchors cut a gap into smaller ones.
Between(anchors, aLo, aHi, bLo, bHi) ==
    LET starts == {<<aLo, bLo>>} \cup anchors
        end(s) == LET later == {p \in anchors : p[1] > s[1]}
                  IN  IF later = {} THEN <<aHi + 1, bHi + 1>>
                      ELSE CHOOSE p \in later : \A q \in later : p[1] =< q[1]
    IN  {<<s[1], end(s)[1] - 1, s[2], end(s)[2] - 1>> : s \in starts}

Patience(a, b, aFrom, aTo, bFrom, bTo) ==
    LET gap[aLo, aHi \in 0 .. Len(a), bLo, bHi \in 0 .. Len(b)] ==
            LET anchors == Anchors(a, b, aLo, aHi, bLo, bHi)
            IN  IF aLo >= aHi \/ bLo >= bHi THEN Edits(aLo + 1 .. aHi, bLo + 1 .. bHi, FALSE)
                ELSE IF anchors # {}
                     THEN Joined({gap[g[1], g[2], g[3], g[4]] :
                                     g \in Between(anchors, aLo, aHi, bLo, bHi)})
                ELSE IF (aHi - aLo) * (bHi - bLo) =< MaxExactCells
                     THEN ExactEdits(a, b, aLo, aHi, bLo, bHi)
                ELSE Edits(aLo + 1 .. aHi, bLo + 1 .. bHi, TRUE)
    IN  gap[aFrom, aTo, bFrom, bTo]

\* The common beginning and the common end are set aside first.
SameUpTo(a, b) == Max({n \in 0 .. Min({Len(a), Len(b)}) : \A i \in 1 .. n : a[i] = b[i]})

SameFrom(a, b, lo) ==
    Max({n \in 0 .. Min({Len(a), Len(b)}) - lo :
            \A i \in 0 .. n - 1 : a[Len(a) - i] = b[Len(b) - i]})

DiffLines(a, b) == LET lo == SameUpTo(a, b)
                       tail == SameFrom(a, b, lo)
                   IN  Patience(a, b, lo, Len(a) - tail, lo, Len(b) - tail)

-----------------------------------------------------------------------------
\* A patch is the hunk GitHub prints: where it starts on each side, and its
\* lines' marks, one line of context around the change.
Marks(a, b, edits) ==
    LET from[i \in 1 .. Len(a) + 1, j \in 1 .. Len(b) + 1] ==
            IF i > Len(a) /\ j > Len(b) THEN << >>
            ELSE IF i \in edits.removed THEN <<"-">> \o from[i + 1, j]
            ELSE IF j \in edits.added THEN <<"+">> \o from[i, j + 1]
            ELSE <<" ">> \o from[i + 1, j + 1]
    IN  from[1, 1]

Hunk(a, b, edits) ==
    LET marks == Marks(a, b, edits)
        changed == {k \in DOMAIN marks : marks[k] # " "}
        first == Max({1, Min(changed) - 1})
        last == Min({Len(marks), Max(changed) + 1})
    IN  [oldStart |-> first, newStart |-> first, marks |-> SubSeq(marks, first, last)]

\* Each side's counter starts at the header's number and moves over the lines
\* of that side.
ChangedLines(hunk) ==
    LET before(k, signs) == Cardinality({i \in 1 .. k - 1 : hunk.marks[i] \in signs})
    IN  Edits({hunk.oldStart + before(k, {"-", " "}) :
                  k \in {i \in DOMAIN hunk.marks : hunk.marks[i] = "-"}},
              {hunk.newStart + before(k, {"+", " "}) :
                  k \in {i \in DOMAIN hunk.marks : hunk.marks[i] = "+"}}, FALSE)

===============================================================================

------------------------------ MODULE Attribution ------------------------------
(***************************************************************************)
(* From the lines a fix changed to the functions they are in               *)
(* (internal/localisation/attribute.go) and the change between two         *)
(* published versions (attemptVersionDiff in localise.go).                 *)
(***************************************************************************)
EXTENDS PackageSource, LineDiff

CONSTANTS KindOfPath,  \* what a path is: "code", "other" or an excluded kind
          Missing      \* a file that is not there or could not be read

ClassifyPath(path) == IF KindOfPath[path] \in {"code", "other"} THEN {} ELSE {KindOfPath[path]}
SupportedSourceFile(path) == KindOfPath[path] # "other"

\* One side of a changed file: its source, its changed lines, and the artefact
\* it was read from.
Side(source, lines, artefact) == [source |-> source, lines |-> lines, artefact |-> artefact]

\* new and old are Missing when the file is not there on that side; unread is
\* TRUE when a side that has changed lines could not be fetched.
ChangedFile(path, new, old, unread, approximate) ==
    [path |-> path, new |-> new, old |-> old, unread |-> unread, approximate |-> approximate]

NoSide == Side(Missing, {}, Missing)

Candidate(symbol, path, evidence) == [symbol |-> symbol, path |-> path, evidence |-> evidence]

-----------------------------------------------------------------------------
\* The changed lines that are code, by the function they are in.
AttributedLines(path, side) ==
    {n \in side.lines : IsCodeLine(side.source, n) /\ EnclosingFunctions(side.source, n) # {}}

\* The function's name, the names its file exports it under and its alias.
AttributeSide(path, side) ==
    IF side.source = Missing \/ side.lines = {} THEN {}
    ELSE IF Minified(side.source) THEN {}
    ELSE UNION {UNION {{Candidate(x, path, {side.artefact} \ {Missing}) :
                           x \in SpanNames(s) \cup ExportedNames(side.source, s.name)} :
                       s \in EnclosingFunctions(side.source, n)} :
                n \in AttributedLines(path, side)}

\* One candidate for a symbol and a file, citing all it was read from.
Merged(found) ==
    {Candidate(k[1], k[2], UNION {c.evidence : c \in {x \in found : <<x.symbol, x.path>> = k}}) :
        k \in {<<c.symbol, c.path>> : c \in found}}

\* files that are tests, docs, CI or build configuration only say so; one that
\* could not be read is not attributed.
AttributeChanges(files) ==
    LET code == {f \in files : ClassifyPath(f.path) = {} /\ SupportedSourceFile(f.path)}
        read == {f \in code : ~f.unread}
        sides == UNION {{f.new, f.old} : f \in read}
    IN  [candidates |-> Merged(UNION {AttributeSide(f.path, f.new) \cup AttributeSide(f.path, f.old) :
                                         f \in read}),
         excluded |-> UNION {ClassifyPath(f.path) : f \in files},
         notes |-> (IF code # read THEN {"could not fetch"} ELSE {})
                   \cup (IF \E f \in read : f.approximate THEN {"too large to align"} ELSE {})
                   \cup (IF \E s \in sides : /\ s.source # Missing /\ s.lines # {}
                                             /\ ~Minified(s.source) /\ "error" \in s.source.flags
                         THEN {"incomplete"} ELSE {})]

-----------------------------------------------------------------------------
\* One file of two published versions; a file of one version only changed in
\* every line.
VersionChange(path, old, new, oldArtefact, newArtefact) ==
    LET inOld == path \in DOMAIN old
        inNew == path \in DOMAIN new
        edits == DiffLines(Text(old[path]), Text(new[path]))
        whole(file, artefact) == Side(file, DOMAIN Text(file), artefact)
    IN  IF inOld /\ inNew
        THEN ChangedFile(path, Side(new[path], edits.added, newArtefact),
                         Side(old[path], edits.removed, oldArtefact), FALSE, edits.approximate)
        ELSE IF inNew THEN ChangedFile(path, whole(new[path], newArtefact), NoSide, FALSE, FALSE)
        ELSE ChangedFile(path, NoSide, whole(old[path], oldArtefact), FALSE, FALSE)

VersionChanges(old, new, oldArtefact, newArtefact) ==
    {VersionChange(p, old, new, oldArtefact, newArtefact) :
        p \in {q \in DOMAIN old \cup DOMAIN new :
                  ~(q \in DOMAIN old /\ q \in DOMAIN new /\ old[q] = new[q])}}
================================================================================

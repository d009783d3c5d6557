-------------------------- MODULE Pipeline_proofs --------------------------
(***************************************************************************)
(* Theorems about the commands of sbomber, for every working tree, every   *)
(* history of edits and commands, every set of findings and every report   *)
(* of the localiser: what is shown joins documents of one scan, the        *)
(* verdicts a replay shows are true of the source the analysis read, and   *)
(* the report leaves nothing out and says rightly what to update first.    *)
(*                                                                         *)
(* The second part goes from the source to the verdict: which observation  *)
(* an import becomes (Observed), what the observations of a graph add up   *)
(* to whatever order they are folded in (Gathered), and which verdict that *)
(* allows.                                                                 *)
(*                                                                         *)
(* The last part is the report: lists by rank, sums of the sizes of sets,  *)
(* the order of groups and that of versions, then what a section holds     *)
(* (Lists), what a filter leaves of it (Views) and of the report           *)
(* (Sections).                                                             *)
(***************************************************************************)
EXTENDS Pipeline, FiniteSetTheorems, SequenceTheorems, WellFoundedInduction, TLAPS

(***************************************************************************)
(* Induction on natural numbers, in the form the provers can use.          *)
(***************************************************************************)

\* A set of numbers that holds 0 and every successor holds them all.
LEMMA Induction ==
  ASSUME NEW T, 0 \in T, \A n \in Nat : n \in T => n + 1 \in T
  PROVE  Nat \subseteq T
<1> DEFINE less == {ss \in Nat \X Nat : ss[1] < ss[2]}
<1> SUFFICES ASSUME Nat \ T # {} PROVE FALSE
  OBVIOUS
<1>1. IsWellFoundedOn(less, Nat)
  BY NatLessThanWellFounded DEF OpToRel
<1>2. PICK n \in Nat \ T : \A m \in Nat \ T : ~ (<<m, n>> \in less)
  <2> HIDE DEF less
  <2> QED
    BY <1>1, WFMin
<1>3. n # 0 /\ n - 1 \in Nat /\ n - 1 < n
  OBVIOUS
<1>4. n - 1 \in T
  BY <1>2, <1>3
<1> QED
  BY <1>3, <1>4

(***************************************************************************)
(* What the observations of a graph add up to.                             *)
(***************************************************************************)

\* e is a record of evidence with its two counters.
IsEvidence(e) ==
    /\ e = [observationIds |-> e.observationIds, matched |-> e.matched,
            codeMatched |-> e.codeMatched, agree |-> e.agree, path |-> e.path,
            level |-> e.level, imports |-> e.imports, calls |-> e.calls]
    /\ e.imports \in Nat /\ e.calls \in Nat

\* e sums up the observations S for finding f with localisation r.
Gathered(f, r, b, S, e) ==
    /\ IsEvidence(e)
    /\ \A o \in S : CouldRefer(f, o, b) => e.imports > 0
    /\ \A o \in S : Runtime(f, o) /\ UnresolvedCalls(o) # {} => e.calls > 0
    /\ \A o \in S : Runtime(f, o) => \A cs \in Matches(r, o) : cs.symbol \in e.matched
    /\ \A s \in e.matched : \E o \in S : /\ Runtime(f, o)
                                         /\ \E cs \in Matches(r, o) : cs.symbol = s

\* Nothing has been read.
LEMMA NothingGathered ==
    ASSUME NEW f, NEW r, NEW b
    PROVE  Gathered(f, r, b, {}, NoEvidence)
BY DEF Gathered, IsEvidence, NoEvidence

\* One observation more.
LEMMA OneGathered ==
    ASSUME NEW f, NEW r, NEW b, NEW S, NEW e, Gathered(f, r, b, S, e),
           NEW o, IsFiniteSet(o.calls)
    PROVE  Gathered(f, r, b, S \cup {o}, AddObservation(f, r, o, b, e))
<1> SUFFICES ASSUME NEW n, n = AddObservation(f, r, o, b, e)
             PROVE  Gathered(f, r, b, S \cup {o}, n)
  OBVIOUS
<1>1. IsEvidence(e)
  BY DEF Gathered
<1> DEFINE Adds == /\ IsEvidence(n)
                   /\ n.imports >= e.imports /\ n.calls >= e.calls
                   /\ CouldRefer(f, o, b) => n.imports > 0
                   /\ Runtime(f, o) /\ UnresolvedCalls(o) # {} => n.calls > 0
                   /\ n.matched = IF Runtime(f, o)
                                  THEN e.matched \cup {cs.symbol : cs \in Matches(r, o)}
                                  ELSE e.matched
<1>2. ASSUME o.resolution = "unresolved" PROVE Adds
  <2>1. CASE CouldRefer(f, o, b)
    <3> DEFINE ids == IF Tied(f, o) THEN e.observationIds \cup NamedBy(o) ELSE e.observationIds
    <3>1. n = [e EXCEPT !.imports = e.imports + 1, !.observationIds = ids]
      BY <1>2, <2>1 DEF AddObservation, AddUnresolved
    <3> HIDE DEF ids
    <3>2. n = [observationIds |-> ids, matched |-> e.matched,
               codeMatched |-> e.codeMatched, agree |-> e.agree, path |-> e.path,
               level |-> e.level, imports |-> e.imports + 1, calls |-> e.calls]
      BY <1>1, <3>1 DEF IsEvidence
    <3>3. IsEvidence(n) /\ n.imports = e.imports + 1 /\ n.calls = e.calls /\ n.matched = e.matched
      BY <1>1, <3>2 DEF IsEvidence
    <3>4. ~Runtime(f, o)
      BY <1>2 DEF Runtime
    <3> QED
      BY <1>1, <3>3, <3>4 DEF IsEvidence
  <2>2. CASE ~CouldRefer(f, o, b)
    <3>1. n = e /\ ~Runtime(f, o)
      BY <1>2, <2>2 DEF AddObservation, Runtime
    <3> QED
      BY <1>1, <2>2, <3>1 DEF IsEvidence
  <2> QED
    BY <2>1, <2>2
<1> DEFINE ids == e.observationIds \cup NamedBy(o)
           lev == IF o.level > e.level THEN o.level ELSE e.level
           t == [observationIds |-> ids, matched |-> e.matched,
                 codeMatched |-> e.codeMatched, agree |-> e.agree, path |-> e.path,
                 level |-> lev, imports |-> e.imports, calls |-> e.calls]
<1>3. AddTied(o, e) = t
  <2>1. AddTied(o, e) = [e EXCEPT !.observationIds = ids, !.level = lev]
    BY DEF AddTied
  <2> HIDE DEF ids, lev
  <2> QED
    BY <1>1, <2>1 DEF IsEvidence
<1> HIDE DEF ids, lev
<1>4. ASSUME o.resolution # "unresolved", ~Runtime(f, o) PROVE Adds
  <2>1. n = e \/ n = t
    BY <1>3, <1>4 DEF AddObservation, Runtime
  <2>2. IsEvidence(n) /\ n.imports = e.imports /\ n.calls = e.calls /\ n.matched = e.matched
    BY <1>1, <2>1 DEF IsEvidence
  <2>3. ~CouldRefer(f, o, b)
    BY <1>4 DEF CouldRefer
  <2> QED
    BY <1>1, <1>4, <2>2, <2>3 DEF IsEvidence
<1>5. ASSUME Runtime(f, o) PROVE Adds
  <2>1. n = AddCalls(r, o, t)
    BY <1>3, <1>5 DEF AddObservation, Runtime
  <2> DEFINE more == Cardinality(UnresolvedCalls(o))
             names == {cs.symbol : cs \in Matches(r, o)}
  <2>2. more \in Nat /\ (UnresolvedCalls(o) # {} => more > 0)
    <3>1. UnresolvedCalls(o) \subseteq o.calls
      BY DEF UnresolvedCalls
    <3>2. IsFiniteSet(UnresolvedCalls(o))
      BY <3>1, FS_Subset
    <3> QED
      BY <3>2, FS_CardinalityType, FS_EmptySet
  <2>3. /\ n.imports = t.imports /\ n.calls = t.calls + more /\ n.matched = t.matched \cup names
        /\ n = [observationIds |-> n.observationIds, matched |-> n.matched,
                codeMatched |-> n.codeMatched, agree |-> n.agree, path |-> n.path,
                level |-> n.level, imports |-> n.imports, calls |-> n.calls]
    BY <2>1 DEF AddCalls
  <2>4. t.imports = e.imports /\ t.calls = e.calls /\ t.matched = e.matched
    OBVIOUS
  <2> HIDE DEF more, names, t
  <2>5. IsEvidence(n) /\ n.imports = e.imports /\ n.calls = e.calls + more
        /\ n.matched = e.matched \cup names
    BY <1>1, <2>2, <2>3, <2>4 DEF IsEvidence
  <2>6. ~CouldRefer(f, o, b)
    BY <1>5 DEF CouldRefer, Runtime
  <2> QED
    BY <1>1, <1>5, <2>2, <2>5, <2>6 DEF IsEvidence, names
<1>6. Adds
  BY <1>2, <1>4, <1>5
<1>7. /\ \A x \in S \cup {o} : CouldRefer(f, x, b) => n.imports > 0
      /\ \A x \in S \cup {o} : Runtime(f, x) /\ UnresolvedCalls(x) # {} => n.calls > 0
  BY <1>1, <1>6 DEF Gathered, IsEvidence
<1>8. \A x \in S \cup {o} : Runtime(f, x) => \A cs \in Matches(r, x) : cs.symbol \in n.matched
  BY <1>6 DEF Gathered
<1>9. \A s \in n.matched : \E x \in S \cup {o} : /\ Runtime(f, x)
                                                 /\ \E cs \in Matches(r, x) : cs.symbol = s
  BY <1>6 DEF Gathered
<1> QED
  BY <1>6, <1>7, <1>8, <1>9 DEF Gathered

(***************************************************************************)
(* The fold of EvidenceOf, by induction on the number of observations.     *)
(***************************************************************************)

\* fold follows the definition of the fold of EvidenceOf on the sets D.
Folds(f, r, b, D, fold) ==
    fold = [s \in D |-> IF s = {} THEN NoEvidence
                        ELSE LET o == CHOOSE o \in s : TRUE
                             IN  AddObservation(f, r, o, b, fold[s \ {o}])]

Sized(S, n) == {s \in SUBSET S : Cardinality(s) <= n}

\* There is such a fold on the sets of any size.
LEMMA FoldExists ==
    ASSUME NEW f, NEW r, NEW b, NEW S, IsFiniteSet(S)
    PROVE  \A n \in Nat : \E fold : Folds(f, r, b, Sized(S, n), fold)
<1> DEFINE T == {n \in Nat : \E fold : Folds(f, r, b, Sized(S, n), fold)}
<1>1. \A s \in SUBSET S : /\ IsFiniteSet(s) /\ Cardinality(s) \in Nat
                          /\ Cardinality(s) = 0 <=> s = {}
                          /\ \A o \in s : Cardinality(s \ {o}) = Cardinality(s) - 1
  BY FS_Subset, FS_CardinalityType, FS_EmptySet, FS_RemoveElement
<1>2. 0 \in T
  <2> DEFINE none == [s \in Sized(S, 0) |-> NoEvidence]
  <2>1. \A s \in Sized(S, 0) : s = {}
    BY <1>1 DEF Sized
  <2>2. Folds(f, r, b, Sized(S, 0), none)
    BY <2>1 DEF Folds
  <2> QED
    BY <2>2
<1>3. ASSUME NEW n \in Nat, n \in T PROVE n + 1 \in T
  <2>1. PICK fold : Folds(f, r, b, Sized(S, n), fold)
    BY <1>3
  <2> DEFINE next == [s \in Sized(S, n + 1) |->
                         IF s = {} THEN NoEvidence
                         ELSE LET o == CHOOSE o \in s : TRUE
                              IN  AddObservation(f, r, o, b, fold[s \ {o}])]
  <2>2. ASSUME NEW s \in Sized(S, n) PROVE next[s] = fold[s]
    <3>1. s \in Sized(S, n + 1)
      BY <1>1 DEF Sized
    <3>2. fold[s] = IF s = {} THEN NoEvidence
                    ELSE LET o == CHOOSE o \in s : TRUE
                         IN  AddObservation(f, r, o, b, fold[s \ {o}])
      BY <2>1 DEF Folds
    <3> QED
      BY <3>1, <3>2
  <2>3. ASSUME NEW s \in Sized(S, n + 1), s # {}, NEW o \in s
        PROVE  s \ {o} \in Sized(S, n)
    <3>1. Cardinality(s \ {o}) = Cardinality(s) - 1 /\ Cardinality(s) \in Nat
      BY <1>1 DEF Sized
    <3> QED
      BY <3>1 DEF Sized
  <2>4. ASSUME NEW s \in Sized(S, n + 1)
        PROVE  next[s] = IF s = {} THEN NoEvidence
                         ELSE LET o == CHOOSE o \in s : TRUE
                              IN  AddObservation(f, r, o, b, next[s \ {o}])
    <3> DEFINE o == CHOOSE o \in s : TRUE
    <3>1. next[s] = IF s = {} THEN NoEvidence
                    ELSE AddObservation(f, r, o, b, fold[s \ {o}])
      OBVIOUS
    <3>2. s # {} => o \in s
      OBVIOUS
    <3> HIDE DEF next, o
    <3>3. s # {} => next[s \ {o}] = fold[s \ {o}]
      BY <2>2, <2>3, <3>2
    <3>4. next[s] = IF s = {} THEN NoEvidence
                    ELSE AddObservation(f, r, o, b, next[s \ {o}])
      BY <3>1, <3>3
    <3> QED
      BY <3>4 DEF o
  <2>5. next = [s \in Sized(S, n + 1) |-> next[s]]
    OBVIOUS
  <2> HIDE DEF next
  <2>6. Folds(f, r, b, Sized(S, n + 1), next)
    BY <2>4, <2>5 DEF Folds
  <2> QED
    BY <2>6
<1> HIDE DEF T
<1>4. Nat \subseteq T
  BY <1>2, <1>3, Induction
<1> QED
  BY <1>4 DEF T

\* A fold gathers the observations of every set it is defined on.
LEMMA FoldGathers ==
    ASSUME NEW f, NEW r, NEW b, NEW S, IsFiniteSet(S), \A o \in S : IsFiniteSet(o.calls),
           NEW fold, Folds(f, r, b, SUBSET S, fold)
    PROVE  Gathered(f, r, b, S, fold[S])
<1> DEFINE T == {n \in Nat : \A s \in SUBSET S :
                               Cardinality(s) = n => Gathered(f, r, b, s, fold[s])}
<1>1. \A s \in SUBSET S : /\ IsFiniteSet(s) /\ Cardinality(s) \in Nat
                          /\ Cardinality(s) = 0 <=> s = {}
                          /\ \A o \in s : Cardinality(s \ {o}) = Cardinality(s) - 1
  BY FS_Subset, FS_CardinalityType, FS_EmptySet, FS_RemoveElement
<1>2. ASSUME NEW s \in SUBSET S
      PROVE  fold[s] = IF s = {} THEN NoEvidence
                       ELSE LET o == CHOOSE o \in s : TRUE
                            IN  AddObservation(f, r, o, b, fold[s \ {o}])
  BY DEF Folds
<1>3. 0 \in T
  <2>1. fold[{}] = NoEvidence
    BY <1>2
  <2> QED
    BY <1>1, <2>1, NothingGathered
<1>4. ASSUME NEW n \in Nat, n \in T PROVE n + 1 \in T
  <2> SUFFICES ASSUME NEW s \in SUBSET S, Cardinality(s) = n + 1
               PROVE  Gathered(f, r, b, s, fold[s])
    OBVIOUS
  <2>1. s # {}
    BY <1>1
  <2>2. PICK o \in s : o = CHOOSE x \in s : TRUE
    BY <2>1
  <2>3. fold[s] = AddObservation(f, r, o, b, fold[s \ {o}])
    BY <1>2, <2>1, <2>2
  <2>4. s \ {o} \in SUBSET S /\ Cardinality(s \ {o}) = n
    BY <1>1
  <2>5. Gathered(f, r, b, s \ {o}, fold[s \ {o}])
    BY <1>4, <2>4
  <2>6. Gathered(f, r, b, (s \ {o}) \cup {o}, fold[s])
    BY <2>3, <2>5, OneGathered
  <2>7. (s \ {o}) \cup {o} = s
    OBVIOUS
  <2> QED
    BY <2>6, <2>7
<1> HIDE DEF T
<1>5. Nat \subseteq T
  BY <1>3, <1>4, Induction
<1> QED
  BY <1>1, <1>5 DEF T

\* EvidenceOf gathers the observations of a graph.
LEMMA EvidenceGathers ==
    ASSUME NEW f, NEW r, NEW graph, IsFiniteSet(graph.observations),
           \A o \in graph.observations : IsFiniteSet(o.calls)
    PROVE  Gathered(f, r, graph.header.schema13, graph.observations, EvidenceOf(f, r, graph))
<1> DEFINE S == graph.observations
           b == graph.header.schema13
           folded == CHOOSE fold : Folds(f, r, b, SUBSET S, fold)
<1>1. Cardinality(S) \in Nat /\ Sized(S, Cardinality(S)) = SUBSET S
  <2>1. \A s \in SUBSET S : Cardinality(s) <= Cardinality(S)
    BY FS_Subset
  <2> QED
    BY <2>1, FS_CardinalityType DEF Sized
<1>2. \E fold : Folds(f, r, b, SUBSET S, fold)
  <2> HIDE DEF S, b
  <2>1. \A n \in Nat : \E fold : Folds(f, r, b, Sized(S, n), fold)
    BY FoldExists DEF S
  <2>2. PICK fold : Folds(f, r, b, Sized(S, Cardinality(S)), fold)
    BY <1>1, <2>1
  <2> QED
    BY <1>1, <2>2
<1>3. Folds(f, r, b, SUBSET S, folded)
  BY <1>2
<1>4. EvidenceOf(f, r, graph) = folded[S]
  BY DEF EvidenceOf, FoldSet, MapThenFoldSet, Folds
<1> HIDE DEF folded
<1> QED
  BY <1>3, <1>4, FoldGathers

(***************************************************************************)
(* Which occurrence an import is joined to.                                *)
(***************************************************************************)

\* The image of a finite set.
LEMMA ImageIsFinite ==
    ASSUME NEW S, IsFiniteSet(S), NEW g
    PROVE  IsFiniteSet({g[x] : x \in S})
<1> DEFINE T == {g[x] : x \in S}
           M == [x \in S |-> g[x]]
<1>1. M \in Surjection(S, T)
  BY DEF Surjection
<1> QED
  BY <1>1, FS_Surjection

At(candidates, dir) == {o \in candidates : OccurrenceInfo[o].workspace = dir}

\* A joined occurrence is the only one, the only one of its directory, or the
\* only one at the root when the directory has none.
LEMMA SelectsNearest ==
    ASSUME NEW candidates, IsFiniteSet(candidates), NEW dir
    PROVE  \/ Select(candidates, dir) = {}
           \/ \E o \in candidates :
                 /\ Select(candidates, dir) = {o}
                 /\ \/ candidates = {o}
                    \/ At(candidates, dir) = {o}
                    \/ At(candidates, dir) = {} /\ At(candidates, Root) = {o}
<1> DEFINE near == IF Cardinality(candidates) = 1 THEN candidates
                   ELSE Nearest(candidates, dir)
<1>1. near \subseteq candidates
  BY DEF Nearest
<1>2. near = candidates \/ near = At(candidates, dir)
      \/ (At(candidates, dir) = {} /\ near = At(candidates, Root))
  BY DEF Nearest, At
<1>3. Select(candidates, dir) = IF Cardinality(near) = 1 THEN near ELSE {}
  BY DEF Select
<1>4. IsFiniteSet(near)
  BY <1>1, FS_Subset
<1> HIDE DEF near
<1>5. CASE Cardinality(near) = 1
  <2>1. PICK o : near = {o}
    BY <1>4, <1>5, FS_Singleton
  <2> QED
    BY <1>1, <1>2, <1>3, <1>5, <2>1
<1>6. CASE Cardinality(near) # 1
  BY <1>3, <1>6
<1> QED
  BY <1>5, <1>6

\* The occurrences of the package i names that have the purl of f.
OwnOf(f, x, i, occs) ==
    {o \in Direct(occs, x.repo, i.package) : OccurrenceInfo[o].purl = ScanFindings[f].purl}

\* An import of a named package that is joined at all names an occurrence of f
\* exactly when it is joined to one.
LEMMA JoinedToItsOwn ==
    ASSUME NEW f \in Findings, NEW occs \in SUBSET Occurrences, IsFiniteSet(occs),
           NEW x, NEW i, i.package # Absent, Joined(occs, x, i) # {}
    PROVE  \E o \in Direct(occs, x.repo, i.package) :
              /\ Joined(occs, x, i) = {o}
              /\ OccurrenceInfo[o].purl = ScanFindings[f].purl <=> BelongsTo(f, x, i, occs)
<1> DEFINE all == Direct(occs, x.repo, i.package)
           own == OwnOf(f, x, i, occs)
<1>1. IsFiniteSet(all)
  <2>1. all \subseteq occs
    BY DEF Direct
  <2> QED
    BY <2>1, FS_Subset
<1>2. own = {o \in all : OccurrenceInfo[o].purl = ScanFindings[f].purl}
  BY DEF OwnOf
<1>3. BelongsTo(f, x, i, occs) <=>
         \/ \E o \in own : OccurrenceInfo[o].workspace = x.dir
         \/ /\ \E o \in own : OccurrenceInfo[o].workspace = Root
            /\ \A o \in all : OccurrenceInfo[o].workspace # x.dir
         \/ own # {} /\ all = own
  BY DEF BelongsTo, OwnOf
<1>4. Joined(occs, x, i) = Select(all, x.dir)
  BY DEF Joined, CandidatesOf
<1> HIDE DEF all, own
<1>5. PICK o \in all :
         /\ Select(all, x.dir) = {o}
         /\ \/ all = {o}
            \/ At(all, x.dir) = {o}
            \/ At(all, x.dir) = {} /\ At(all, Root) = {o}
  BY <1>1, <1>4, SelectsNearest
<1>6. OccurrenceInfo[o].purl = ScanFindings[f].purl <=> o \in own
  BY <1>2
<1>7. o \in own <=> BelongsTo(f, x, i, occs)
  <2>1. CASE all = {o}
    BY <1>2, <1>3, <2>1
  <2>2. CASE At(all, x.dir) = {o}
    BY <1>2, <1>3, <2>2 DEF At
  <2>3. CASE At(all, x.dir) = {} /\ At(all, Root) = {o}
    BY <1>2, <1>3, <2>3 DEF At
  <2> QED
    BY <1>5, <2>1, <2>2, <2>3
<1> QED
  BY <1>4, <1>5, <1>6, <1>7 DEF all

(***************************************************************************)
(* From the source to the observations.                                    *)
(***************************************************************************)

\* What a usage graph is produced from: a scan and the files of a tree.
Input(occs, files) ==
    /\ occs \in SUBSET Occurrences /\ IsFiniteSet(occs)
    /\ files \in SUBSET SourceFile /\ IsFiniteSet(files)
    /\ \A x \in files : /\ IsFiniteSet(x.imports)
                        /\ \A i \in x.imports : IsFiniteSet(i.calls)

\* The files of the repositories analysed.
LocalFiles(files, repos) == {x \in files : x.repo \in repos}

\* They are an input too.
LEMMA LocalInput ==
    ASSUME NEW occs, NEW files, Input(occs, files), NEW repos
    PROVE  Input(occs, LocalFiles(files, repos))
<1> DEFINE local == LocalFiles(files, repos)
<1>1. local \in SUBSET files
  BY DEF LocalFiles
<1>2. IsFiniteSet(local)
  BY <1>1, FS_Subset DEF Input
<1> QED
  BY <1>1, <1>2 DEF Input

\* A graph has finitely many observations, each with finitely many calls.
LEMMA ObservationsAreFinite ==
    ASSUME NEW occs, NEW files, Input(occs, files), NEW reach
    PROVE  /\ IsFiniteSet(BuildObservations(occs, files, reach))
           /\ \A o \in BuildObservations(occs, files, reach) : IsFiniteSet(o.calls)
<1> DEFINE held == {x.imports : x \in Parsed(files)}
           pairs == Parsed(files) \X UNION held
<1>1. IsFiniteSet(Parsed(files)) /\ Parsed(files) \subseteq files
  <2>1. Parsed(files) \in SUBSET files
    BY DEF Parsed
  <2> QED
    BY <2>1, FS_Subset DEF Input
<1>2. IsFiniteSet(UNION held)
  <2> DEFINE g == [x \in Parsed(files) |-> x.imports]
  <2>1. IsFiniteSet({g[x] : x \in Parsed(files)})
    BY <1>1, ImageIsFinite
  <2>2. held = {g[x] : x \in Parsed(files)}
    OBVIOUS
  <2>3. \A h \in held : IsFiniteSet(h)
    BY <1>1 DEF Input
  <2> HIDE DEF held
  <2> QED
    BY <2>1, <2>2, <2>3, FS_UNION
<1>3. IsFiniteSet(Seen(occs, files))
  <2>1. Seen(occs, files) \in SUBSET pairs
    BY DEF Seen
  <2>2. IsFiniteSet(pairs)
    <3> HIDE DEF held
    <3> QED
      BY <1>1, <1>2, FS_Product
  <2> QED
    BY <2>1, <2>2, FS_Subset
<1>4. IsFiniteSet(BuildObservations(occs, files, reach))
  <2> DEFINE g == [p \in Seen(occs, files) |-> ObservationOf(occs, p[1], p[2], reach)]
  <2>1. IsFiniteSet({g[p] : p \in Seen(occs, files)})
    BY <1>3, ImageIsFinite
  <2>2. BuildObservations(occs, files, reach) = {g[p] : p \in Seen(occs, files)}
    BY DEF BuildObservations
  <2> QED
    BY <2>1, <2>2
<1>5. ASSUME NEW o \in BuildObservations(occs, files, reach)
      PROVE  IsFiniteSet(o.calls)
  <2>1. PICK p \in Seen(occs, files) : o = ObservationOf(occs, p[1], p[2], reach)
    BY DEF BuildObservations
  <2>2. p[1] \in files /\ p[2] \in p[1].imports
    BY <1>1 DEF Seen
  <2>3. IsFiniteSet(p[2].calls)
    BY <2>2 DEF Input
  <2> DEFINE resolution == Resolution(Joined(occs, p[1], p[2]), p[2])
             g == [c \in p[2].calls |-> SiteOf(c, resolution, reach)]
  <2>4. IsFiniteSet({g[c] : c \in p[2].calls})
    BY <2>3, ImageIsFinite
  <2>5. {g[c] : c \in p[2].calls} = {SiteOf(c, resolution, reach) : c \in p[2].calls}
    OBVIOUS
  <2>6. o.calls = {} \/ o.calls = {SiteOf(c, resolution, reach) : c \in p[2].calls}
    BY <2>1 DEF ObservationOf
  <2>7. IsFiniteSet({})
    BY FS_EmptySet
  <2> QED
    BY <2>4, <2>5, <2>6, <2>7
<1> QED
  BY <1>4, <1>5

\* The observation of an import.
LEMMA ObservationSays ==
    ASSUME NEW occs, NEW x, NEW i, NEW reach, NEW n, n = ObservationOf(occs, x, i, reach)
    PROVE  /\ n.resolution = Resolution(Joined(occs, x, i), i)
           /\ n.specifier = SpecifierOf(i)
           /\ \A o : Joined(occs, x, i) = {o} =>
                        n.occurrence = o /\ n.purl = OccurrenceInfo[o].purl
           /\ Joined(occs, x, i) = {} => n.occurrence = Absent /\ n.purl = Absent
           /\ n.resolution # "type_only" =>
                 n.calls = {SiteOf(c, n.resolution, reach) : c \in i.calls}
<1> DEFINE joined == Joined(occs, x, i)
<1>1. /\ n.resolution = Resolution(joined, i) /\ n.specifier = SpecifierOf(i)
      /\ n.occurrence = IF joined = {} THEN Absent ELSE CHOOSE o \in joined : TRUE
      /\ n.purl = IF joined = {} THEN Absent ELSE OccurrenceInfo[CHOOSE o \in joined : TRUE].purl
      /\ n.calls = IF Resolution(joined, i) = "type_only" THEN {}
                   ELSE {SiteOf(c, Resolution(joined, i), reach) : c \in i.calls}
  BY DEF ObservationOf
<1>2. \A o : joined = {o} => (CHOOSE y \in joined : TRUE) = o
  OBVIOUS
<1> HIDE DEF joined
<1>3. \A o : joined = {o} => n.occurrence = o /\ n.purl = OccurrenceInfo[o].purl
  BY <1>1, <1>2
<1> QED
  BY <1>1, <1>3 DEF joined

\* The sites of all the calls of an import that was resolved.
AllSites(i, reach) == {SiteOf(c, "resolved", reach) : c \in i.calls}

\* An import that names an occurrence of f and is there at run time becomes an
\* observation that counts for f: a runtime import with all its calls, or one
\* nobody could resolve and that could refer to f.
LEMMA Observed ==
    ASSUME NEW f \in Findings, NEW occs, NEW files, Input(occs, files), NEW reach,
           NEW x \in files, x.walk \in {"parsed", "errors"},
           NEW i \in x.imports, BelongsTo(f, x, i, occs), ~i.typeOnly
    PROVE  \E n \in BuildObservations(occs, files, reach) :
              \/ CouldRefer(f, n, TRUE)
              \/ /\ Runtime(f, n)
                 /\ n.calls = AllSites(i, reach)
<1> DEFINE all == Direct(occs, x.repo, i.package)
           n == ObservationOf(occs, x, i, reach)
<1>1. i.package # Absent /\ \E o \in all : OccurrenceInfo[o].purl = ScanFindings[f].purl
  BY DEF BelongsTo
<1>2. PICK own \in all : OccurrenceInfo[own].purl = ScanFindings[f].purl
  BY <1>1
<1>3. own \in Occurrences /\ OccurrenceInfo[own].npm = i.package
  BY <1>2 DEF Direct, Input
<1>4. ScanFindings[f].package = i.package
  BY <1>2, <1>3, PurlsNamePackages
<1>5. <<x, i>> \in Seen(occs, files)
  <2>1. ~OwnCode(occs, x, i)
    BY <1>2 DEF OwnCode, CandidatesOf
  <2>2. x \in Parsed(files)
    BY DEF Parsed
  <2> QED
    BY <2>1, <2>2 DEF Seen
<1>6. n \in BuildObservations(occs, files, reach)
  BY <1>5 DEF BuildObservations
<1>7. /\ n.resolution = Resolution(Joined(occs, x, i), i)
      /\ n.specifier = SpecifierOf(i)
      /\ \A o : Joined(occs, x, i) = {o} =>
                   n.occurrence = o /\ n.purl = OccurrenceInfo[o].purl
      /\ n.resolution # "type_only" =>
            n.calls = {SiteOf(c, n.resolution, reach) : c \in i.calls}
  BY ObservationSays
<1> HIDE DEF n
<1>8. CASE Joined(occs, x, i) = {}
  <2>1. n.resolution = "unresolved" /\ n.specifier.kind = "package"
        /\ n.specifier.package = i.package
    BY <1>1, <1>7, <1>8 DEF Resolution, SpecifierOf
  <2>2. CouldRefer(f, n, TRUE)
    BY <1>1, <1>4, <2>1 DEF CouldRefer, UnresolvedImportRelevant
  <2> QED
    BY <1>6, <2>2
<1>9. CASE Joined(occs, x, i) # {}
  <2>1. PICK o \in all : /\ Joined(occs, x, i) = {o}
                         /\ OccurrenceInfo[o].purl = ScanFindings[f].purl
    BY <1>1, <1>9, JoinedToItsOwn DEF Input
  <2>2. n.purl = ScanFindings[f].purl /\ n.purl # Absent
    <3>1. o \in Occurrences
      BY <2>1 DEF Direct, Input
    <3>2. OccurrenceInfo[o].purl \in PURLs
      BY <3>1, OccurrencesAreTyped DEF Info
    <3> QED
      BY <1>7, <2>1, <3>2, OccurrencesAreTyped
  <2>3. n.resolution = "resolved"
    BY <1>7, <1>9 DEF Resolution
  <2>4. Runtime(f, n)
    BY <2>2, <2>3 DEF Runtime, Tied
  <2>5. n.calls = AllSites(i, reach)
    BY <1>7, <2>3 DEF AllSites
  <2> QED
    BY <1>6, <2>4, <2>5
<1> QED
  BY <1>8, <1>9

\* The graph Produce writes: its local files, observations and unanalysed
\* occurrences.
LEMMA ProducedGraph ==
    ASSUME NEW occs, NEW repos, NEW files, NEW reach,
           NEW graph, graph = Produce(occs, repos, files, reach)
    PROVE  /\ graph.header.schema13 = TRUE
           /\ graph.header.status = IF repos = {} THEN "unsupported"
                                    ELSE Status(repos, LocalFiles(files, repos))
           /\ graph.observations = BuildObservations(occs, LocalFiles(files, repos), reach)
           /\ \A o \in occs \ MatchedOccurrences(occs, LocalFiles(files, repos)) :
                 UnanalysedOf(occs, o, repos, LocalFiles(files, repos)) \in graph.unanalysed
<1> DEFINE local == LocalFiles(files, repos)
<1>1. {x \in files : x.repo \in repos} = local
  BY DEF LocalFiles
<1>2. /\ graph.header.schema13 = TRUE
      /\ graph.header.status = IF repos = {} THEN "unsupported" ELSE Status(repos, local)
      /\ graph.observations = BuildObservations(occs, local, reach)
      /\ graph.unanalysed = {UnanalysedOf(occs, o, repos, local) :
                                o \in occs \ MatchedOccurrences(occs, local)}
  BY <1>1 DEF Produce
<1> QED
  BY <1>2

\* The evidence of a finding in such a graph.
LEMMA ProducedEvidence ==
    ASSUME NEW occs, NEW repos, NEW files, Input(occs, files), NEW reach,
           NEW graph, graph = Produce(occs, repos, files, reach), NEW f, NEW r
    PROVE  Gathered(f, r, TRUE, BuildObservations(occs, LocalFiles(files, repos), reach),
                    EvidenceOf(f, r, graph))
<1> DEFINE local == LocalFiles(files, repos)
<1>1. Input(occs, local)
  BY LocalInput
<1>2. /\ graph.header.schema13 = TRUE
      /\ graph.observations = BuildObservations(occs, local, reach)
  BY ProducedGraph
<1>3. /\ IsFiniteSet(graph.observations)
      /\ \A o \in graph.observations : IsFiniteSet(o.calls)
  BY <1>1, <1>2, ObservationsAreFinite
<1>4. Gathered(f, r, graph.header.schema13, graph.observations, EvidenceOf(f, r, graph))
  BY <1>3, EvidenceGathers
<1> QED
  BY <1>2, <1>4

\* A call site keeps the name of its call, and is resolved when there is one.
LEMMA SiteSays ==
    ASSUME NEW c, NEW resolution, NEW reach
    PROVE  /\ SiteOf(c, resolution, reach).symbol = c.symbol
           /\ SiteOf(c, resolution, reach).resolution = "resolved" <=> c.symbol # Computed
BY DEF SiteOf

\* What a negative verdict asks of a graph.
LEMMA NegativeNeeds ==
    ASSUME NEW h, NEW r, NEW reasons, NEW e,
           DetermineState(h, r, reasons, e) = "no_usage_detected"
    PROVE  /\ h.status = "complete" /\ reasons = {}
           /\ e.matched = {} /\ ~(e.imports > 0) /\ ~(e.calls > 0)
<1>1. /\ \A y \in reasons : ~Blocking(y)
      /\ e.matched = {} /\ MayConcludeNegative(h, r, reasons, e)
  BY DEF DetermineState
<1> QED
  BY <1>1 DEF Blocking, MayConcludeNegative, RelevantUnresolved

\* A negative verdict is true of the files, parsed or not.
LEMMA NegativeIsTrue ==
    ASSUME NEW f \in Findings, NEW occs, NEW repos, NEW files, Input(occs, files), NEW reach,
           NEW graph, graph = Produce(occs, repos, files, reach), NEW r,
           DetermineState(graph.header, r, ReasonsOf(f, graph), EvidenceOf(f, r, graph))
              = "no_usage_detected"
    PROVE  /\ \A x \in files : x.walk # "pruned" /\ x.repo \in repos =>
                 \A i \in x.imports :
                    BelongsTo(f, x, i, occs) /\ ~i.typeOnly =>
                       \A c \in i.calls : c.symbol \notin Keys(r) \cup {Computed}
           /\ \A o \in ScanFindings[f].occurrences \cap occs :
                 \E x \in files : \E i \in x.imports :
                    OccurrenceInfo[o].npm = i.package /\ ~OccurrenceInfo[o].nested
<1> DEFINE local == LocalFiles(files, repos)
           e == EvidenceOf(f, r, graph)
           observations == BuildObservations(occs, local, reach)
<1>1. /\ graph.header.status = "complete" /\ ReasonsOf(f, graph) = {}
      /\ e.matched = {} /\ ~(e.imports > 0) /\ ~(e.calls > 0)
  BY NegativeNeeds
<1>2. /\ graph.header.status = IF repos = {} THEN "unsupported" ELSE Status(repos, local)
      /\ \A o \in occs \ MatchedOccurrences(occs, local) :
            UnanalysedOf(occs, o, repos, local) \in graph.unanalysed
  BY ProducedGraph
<1>3. \A x \in local : x.walk \in {"parsed", "pruned"}
  BY <1>1, <1>2 DEF Status
<1>4. Gathered(f, r, TRUE, observations, e)
  BY ProducedEvidence
<1>5. Input(occs, local)
  BY LocalInput
<1> HIDE DEF local, e, observations
<1>6. ASSUME NEW x \in files, x.walk # "pruned", x.repo \in repos, NEW i \in x.imports,
             BelongsTo(f, x, i, occs), ~i.typeOnly, NEW c \in i.calls
      PROVE  c.symbol \notin Keys(r) \cup {Computed}
  <2>1. x \in local
    BY <1>6 DEF local, LocalFiles
  <2>2. x.walk \in {"parsed", "errors"}
    BY <1>3, <1>6, <2>1
  <2>3. PICK n \in observations :
           \/ CouldRefer(f, n, TRUE)
           \/ /\ Runtime(f, n)
              /\ n.calls = AllSites(i, reach)
    BY <1>5, <1>6, <2>1, <2>2, Observed DEF observations
  <2>4. ~CouldRefer(f, n, TRUE)
    BY <1>1, <1>4 DEF Gathered
  <2>5. Runtime(f, n) /\ SiteOf(c, "resolved", reach) \in n.calls
    BY <1>6, <2>3, <2>4 DEF AllSites
  <2>6. UnresolvedCalls(n) = {}
    BY <1>1, <1>4, <2>5 DEF Gathered
  <2>7. Matches(r, n) = {}
    BY <1>1, <1>4, <2>5 DEF Gathered
  <2>8. SiteOf(c, "resolved", reach).resolution = "resolved"
    BY <2>5, <2>6 DEF UnresolvedCalls
  <2> QED
    BY <2>5, <2>7, <2>8, SiteSays DEF Matches, ResolvedCalls
<1>7. ASSUME NEW o \in ScanFindings[f].occurrences \cap occs
      PROVE  \E x \in files : \E i \in x.imports :
                OccurrenceInfo[o].npm = i.package /\ ~OccurrenceInfo[o].nested
  <2>1. o \in MatchedOccurrences(occs, local)
    <3> SUFFICES ASSUME o \notin MatchedOccurrences(occs, local) PROVE FALSE
      OBVIOUS
    <3> DEFINE u == UnanalysedOf(occs, o, repos, local)
    <3>1. u \in graph.unanalysed
      BY <1>2
    <3>2. u.occurrence = o
      BY DEF UnanalysedOf
    <3>3. o \in Occurrences
      BY <1>5 DEF Input
    <3>4. Tied(f, u)
      BY <3>2, <3>3, OccurrencesAreTyped DEF Tied
    <3>5. u.reason \in ReasonsOf(f, graph)
      BY <3>1, <3>4 DEF ReasonsOf
    <3> QED
      BY <1>1, <3>5
  <2>2. PICK p \in Seen(occs, local) : o \in Joined(occs, p[1], p[2])
    BY <2>1 DEF MatchedOccurrences
  <2>3. p[1] \in files /\ p[2] \in p[1].imports
    BY DEF Seen, Parsed, local, LocalFiles
  <2>4. o \in Direct(occs, p[1].repo, p[2].package)
    BY <2>2 DEF Joined, Select, Nearest, CandidatesOf
  <2> QED
    BY <2>3, <2>4 DEF Direct
<1> QED
  BY <1>6, <1>7

\* A positive verdict is true of the files that were parsed.
LEMMA PositiveIsTrue ==
    ASSUME NEW f \in Findings, NEW occs, NEW repos, NEW files, Input(occs, files), NEW reach,
           NEW graph, graph = Produce(occs, repos, files, reach), NEW r,
           DetermineState(graph.header, r, ReasonsOf(f, graph), EvidenceOf(f, r, graph))
              = "usage_detected"
    PROVE  \E x \in files : \E i \in x.imports : \E c \in i.calls :
              /\ x.walk \in {"parsed", "errors"}
              /\ BelongsTo(f, x, i, occs)
              /\ ~i.typeOnly
              /\ c.symbol \in Keys(r)
<1> DEFINE local == LocalFiles(files, repos)
           e == EvidenceOf(f, r, graph)
           observations == BuildObservations(occs, local, reach)
<1>1. e.matched # {}
  BY DEF DetermineState
<1>2. Gathered(f, r, TRUE, observations, e)
  BY ProducedEvidence
<1>3. Input(occs, local)
  BY LocalInput
<1> HIDE DEF local, e
<1>4. PICK n \in observations : Runtime(f, n) /\ Matches(r, n) # {}
  BY <1>1, <1>2 DEF Gathered
<1>5. PICK p \in Seen(occs, local) : n = ObservationOf(occs, p[1], p[2], reach)
  BY DEF BuildObservations
<1> DEFINE x == p[1]
           i == p[2]
<1>6. x \in files /\ x.walk \in {"parsed", "errors"} /\ i \in x.imports
  BY DEF Seen, Parsed, local, LocalFiles
<1>7. /\ n.resolution = Resolution(Joined(occs, x, i), i)
      /\ \A o : Joined(occs, x, i) = {o} =>
                   n.occurrence = o /\ n.purl = OccurrenceInfo[o].purl
      /\ n.resolution # "type_only" =>
            n.calls = {SiteOf(c, n.resolution, reach) : c \in i.calls}
  BY <1>5, ObservationSays
<1> HIDE DEF x, i, observations
<1>8. n.resolution = "resolved" /\ Tied(f, n)
  BY <1>4 DEF Runtime
<1>9. Joined(occs, x, i) # {} /\ ~i.typeOnly /\ i.package # Absent
  BY <1>7, <1>8 DEF Resolution, Joined
<1>10. PICK o \in Direct(occs, x.repo, i.package) :
          /\ Joined(occs, x, i) = {o}
          /\ OccurrenceInfo[o].purl = ScanFindings[f].purl <=> BelongsTo(f, x, i, occs)
  BY <1>3, <1>9, JoinedToItsOwn DEF Input
<1>11. BelongsTo(f, x, i, occs)
  <2>1. o \in Occurrences
    BY <1>3 DEF Input, Direct
  <2>2. n.occurrence = o /\ n.purl = OccurrenceInfo[o].purl
    BY <1>7, <1>10
  <2>3. OccurrenceInfo[o].purl = ScanFindings[f].purl
    BY <1>8, <2>1, <2>2, PurlsNamePackages DEF Tied
  <2> QED
    BY <1>10, <2>3
<1>12. PICK cs \in n.calls : cs.symbol \in Keys(r)
  BY <1>4 DEF Matches, ResolvedCalls
<1>13. PICK c \in i.calls : cs = SiteOf(c, n.resolution, reach)
  BY <1>7, <1>8, <1>12
<1>14. c.symbol \in Keys(r)
  BY <1>12, <1>13, SiteSays
<1> QED
  BY <1>6, <1>9, <1>11, <1>14

(***************************************************************************)
(* The documents, whatever was edited and run in between.                  *)
(***************************************************************************)

\* The scans the documents that are there were written from.
Held == {s \in {scanDoc, graphDoc.scan, locDoc.scan, decisions.scan} :
            \/ Written(scanDoc) /\ s = scanDoc
            \/ Written(graphDoc) /\ s = graphDoc.scan
            \/ Written(locDoc) /\ s = locDoc.scan
            \/ Written(decisions) /\ s = decisions.scan}

\* A scanId names one scan among those, all of them earlier than the next
\* command; a document carries the scanId of its scan.
IdsName == /\ runs \in Nat
           /\ \A s \in Held : s.id[1] \in Nat /\ s.id[1] < runs
           /\ \A s, t \in Held : s.id = t.id => s = t
           /\ Written(graphDoc) => graphDoc.id = graphDoc.scan.id
           /\ Written(locDoc) => locDoc.id = locDoc.scan.id
           /\ Written(decisions) => decisions.id = decisions.scan.id

\* What s records is what some state of the tree held.
ScanOfTree(s) == \E t \in Trees : s.installed = t.installed /\ s.local = t.local

\* g is what Component 2 makes of the source of some state of the tree and of a
\* scan, perhaps of another state.
GraphOfTree(g) ==
    /\ ScanOfTree(g.scan)
    /\ \E t \in Trees : g.files = t.files
    /\ \E reach \in BOOLEAN : g.graph = Produce(g.scan.installed, g.scan.local, g.files, reach)

\* A document is what its command computes from what was there.
Sourced == /\ tree \in Trees
           /\ Written(scanDoc) => ScanOfTree(scanDoc)
           /\ Written(graphDoc) => GraphOfTree(graphDoc)
           /\ Replayed => /\ GraphOfTree(replay.graph)
                          /\ replay = Results(replay.scan, replay.graph, replay.loc)

\* The fields of what decide and audit compute.
LEMMA ResultsFields ==
    ASSUME NEW scan, NEW g, NEW loc, NEW n, n = Results(scan, g, loc)
    PROVE  /\ n.id = scan.id /\ n.scan = scan /\ n.graph = g /\ n.loc = loc
           /\ n.verdicts = Verdicts(scan, g, loc)
BY DEF Results

\* A scan takes an id of its own; every other command hands on scans it read.
LEMMA IdsStep == IdsName /\ [Next]_vars => IdsName'
<1> SUFFICES ASSUME IdsName, [Next]_vars PROVE IdsName'
  OBVIOUS
<1>1. CASE Edit
  BY <1>1 DEF Edit, IdsName, Held, Written, Missing
<1>2. CASE Scan
  <2>1. PICK new : new = [id |-> ScanId, installed |-> tree.installed, local |-> tree.local]
    OBVIOUS
  <2>2. scanDoc' = new /\ runs' = runs + 1 /\ new.id[1] = runs
        /\ UNCHANGED <<graphDoc, locDoc, decisions>>
    BY <1>2, <2>1 DEF Scan, Run, ScanId
  <2>3. Held' \subseteq Held \cup {new}
    BY <2>2 DEF Held, Written, Missing
  <2>4. \A s \in Held : s.id # new.id
    BY <2>2 DEF IdsName
  <2>5. /\ runs' \in Nat
        /\ \A s \in Held' : s.id[1] \in Nat /\ s.id[1] < runs'
    BY <2>2, <2>3 DEF IdsName
  <2>6. \A s, t \in Held' : s.id = t.id => s = t
    BY <2>3, <2>4 DEF IdsName
  <2> QED
    BY <2>2, <2>5, <2>6 DEF IdsName, Written, Missing
<1>3. ASSUME NEW reach \in BOOLEAN, Usage(reach) PROVE IdsName'
  <2>1. /\ Written(scanDoc) /\ runs' = runs + 1
        /\ graphDoc'.id = scanDoc.id /\ graphDoc'.scan = scanDoc
        /\ UNCHANGED <<scanDoc, locDoc, decisions>>
    BY <1>3 DEF Usage, Run
  <2>2. Held' \subseteq Held
    BY <2>1 DEF Held, Written, Missing
  <2> QED
    BY <2>1, <2>2 DEF IdsName, Written, Missing
<1>4. CASE Localise
  <2>1. /\ Written(scanDoc) /\ runs' = runs + 1
        /\ locDoc'.id = scanDoc.id /\ locDoc'.scan = scanDoc
        /\ UNCHANGED <<scanDoc, graphDoc, decisions>>
    BY <1>4 DEF Localise, Run
  <2>2. Held' \subseteq Held
    BY <2>1 DEF Held, Written, Missing
  <2> QED
    BY <2>1, <2>2 DEF IdsName, Written, Missing
<1>5. CASE Decide
  <2>1. /\ Written(scanDoc) /\ runs' = runs + 1
        /\ decisions'.id = scanDoc.id /\ decisions'.scan = scanDoc
        /\ UNCHANGED <<scanDoc, graphDoc, locDoc>>
    BY <1>5, ResultsFields DEF Decide, Run, HaveInputs
  <2>2. Held' \subseteq Held
    BY <2>1 DEF Held, Written, Missing
  <2> QED
    BY <2>1, <2>2 DEF IdsName, Written, Missing
<1>6. CASE Audit
  <2>1. runs' = runs + 1 /\ UNCHANGED <<scanDoc, graphDoc, locDoc, decisions>>
    BY <1>6 DEF Audit, Run
  <2> QED
    BY <2>1 DEF IdsName, Held, Written, Missing
<1>7. ASSUME NEW coverage \in {graphDoc, Missing}, NEW filter \in Filters,
             Report(coverage, filter)
      PROVE  IdsName'
  <2>1. runs' = runs + 1 /\ UNCHANGED <<scanDoc, graphDoc, locDoc, decisions>>
    BY <1>7 DEF Report, Run
  <2> QED
    BY <2>1 DEF IdsName, Held, Written, Missing
<1>8. CASE UNCHANGED vars
  BY <1>8 DEF vars, IdsName, Held, Written, Missing
<1> QED
  BY <1>1, <1>2, <1>3, <1>4, <1>5, <1>6, <1>7, <1>8 DEF Next

\* What audit replays, and what report shows with its coverage, is of one scan:
\* the scanIds it compared are equal.
LEMMA ShownStep == IdsName /\ ShownJoinsOneScan /\ [Next]_vars => ShownJoinsOneScan'
<1> SUFFICES ASSUME IdsName, ShownJoinsOneScan, [Next]_vars PROVE ShownJoinsOneScan'
  OBVIOUS
<1>1. CASE Audit
  <2>1. PICK n : n = Results(scanDoc, graphDoc, locDoc)
    OBVIOUS
  <2>2. shown' = [as |-> "replay", results |-> n, coverage |-> graphDoc]
        /\ HaveInputs /\ OneScan
    BY <1>1, <2>1 DEF Audit
  <2>3. graphDoc.scan = scanDoc /\ locDoc.scan = scanDoc
    BY <2>2 DEF HaveInputs, OneScan, IdsName, Held
  <2>4. n.scan = scanDoc /\ n.graph = graphDoc /\ n.loc = locDoc
    BY <2>1, ResultsFields
  <2> QED
    BY <2>2, <2>3, <2>4 DEF ShownJoinsOneScan, Replayed, Reported, replay
<1>2. ASSUME NEW coverage \in {graphDoc, Missing}, NEW filter \in Filters,
             Report(coverage, filter)
      PROVE  ShownJoinsOneScan'
  <2>1. shown'.as = "report" /\ shown'.results = decisions /\ shown'.coverage = coverage
    BY <1>2 DEF Report
  <2>2. Written(decisions) /\ (Written(coverage) => coverage.id = decisions.id)
    BY <1>2 DEF Report
  <2>3. Written(coverage) => coverage.scan = decisions.scan
    BY <2>2 DEF IdsName, Held, Written
  <2> QED
    BY <2>1, <2>3 DEF ShownJoinsOneScan, Replayed, Reported, replay, Written, Missing
<1>3. CASE UNCHANGED shown
  BY <1>3 DEF ShownJoinsOneScan, Replayed, Reported, replay, Written, Missing
<1> QED
  BY <1>1, <1>2, <1>3 DEF Next, Edit, Scan, Usage, Localise, Decide, vars

\* What a command writes it computed from the tree and the documents it read.
LEMMA SourcedStep == Sourced /\ [Next]_vars => Sourced'
<1> SUFFICES ASSUME Sourced, [Next]_vars PROVE Sourced'
  OBVIOUS
<1>1. tree' \in Trees
  BY TreesAreTyped DEF Next, Edit, Scan, Usage, Localise, Decide, Audit, Report, vars, Sourced
<1>2. (Written(scanDoc) => ScanOfTree(scanDoc))'
  <2>1. CASE Scan
    <3>1. scanDoc'.installed = tree.installed /\ scanDoc'.local = tree.local
      BY <2>1 DEF Scan
    <3> QED
      BY <3>1 DEF ScanOfTree, Sourced
  <2>2. CASE UNCHANGED scanDoc
    BY <2>2 DEF Sourced, ScanOfTree, Written, Missing
  <2> QED
    BY <2>1, <2>2 DEF Next, Edit, Usage, Localise, Decide, Audit, Report, vars
<1>3. (Written(graphDoc) => GraphOfTree(graphDoc))'
  <2>1. ASSUME NEW reach \in BOOLEAN, Usage(reach) PROVE GraphOfTree(graphDoc)'
    <3>1. PICK g : g = Produce(scanDoc.installed, scanDoc.local, tree.files, reach)
      OBVIOUS
    <3>2. Written(scanDoc) /\ graphDoc' = [id |-> scanDoc.id, scan |-> scanDoc,
                                           files |-> tree.files, graph |-> g]
      BY <2>1, <3>1 DEF Usage
    <3>3. graphDoc'.scan = scanDoc /\ graphDoc'.files = tree.files /\ graphDoc'.graph = g
      BY <3>2
    <3>4. ScanOfTree(scanDoc)
      BY <3>2 DEF Sourced
    <3>5. PICK d : d = graphDoc'
      OBVIOUS
    <3>6. GraphOfTree(d)
      BY <3>1, <3>3, <3>4, <3>5 DEF GraphOfTree, Sourced
    <3> QED
      BY <3>5, <3>6 DEF GraphOfTree, ScanOfTree
  <2>2. CASE UNCHANGED graphDoc
    BY <2>2 DEF Sourced, GraphOfTree, ScanOfTree, Written, Missing
  <2> QED
    BY <2>1, <2>2 DEF Next, Edit, Scan, Localise, Decide, Audit, Report, vars
<1>4. (Replayed => /\ GraphOfTree(replay.graph)
                   /\ replay = Results(replay.scan, replay.graph, replay.loc))'
  <2>1. CASE Audit
    <3>1. PICK n : n = Results(scanDoc, graphDoc, locDoc)
      OBVIOUS
    <3>2. shown' = [as |-> "replay", results |-> n, coverage |-> graphDoc] /\ HaveInputs
      BY <2>1, <3>1 DEF Audit
    <3>3. n.scan = scanDoc /\ n.graph = graphDoc /\ n.loc = locDoc
      BY <3>1, ResultsFields
    <3>4. GraphOfTree(n.graph) /\ n = Results(n.scan, n.graph, n.loc)
      BY <3>1, <3>2, <3>3 DEF Sourced, HaveInputs
    <3>5. replay' = n
      BY <3>2 DEF replay
    <3> QED
      BY <3>4, <3>5
  <2>2. ASSUME NEW coverage \in {graphDoc, Missing}, NEW filter \in Filters,
               Report(coverage, filter)
        PROVE  ~Replayed'
    BY <2>2 DEF Report, Replayed
  <2>3. CASE UNCHANGED shown
    <3>1. replay' = replay /\ Replayed' = Replayed
      BY <2>3 DEF replay, Replayed
    <3> QED
      BY <3>1 DEF Sourced
  <2> QED
    BY <2>1, <2>2, <2>3 DEF Next, Edit, Scan, Usage, Localise, Decide, vars
<1> QED
  BY <1>1, <1>2, <1>3, <1>4 DEF Sourced

\* The three together, and that nothing is there at first.
THEOREM Invariant == Spec => [](IdsName /\ Sourced /\ ShownJoinsOneScan)
<1> DEFINE Inv == IdsName /\ Sourced /\ ShownJoinsOneScan
<1>1. Init => Inv
  <2> SUFFICES ASSUME Init PROVE Inv
    OBVIOUS
  <2>1. /\ tree \in Trees /\ runs = 0 /\ shown.as = "nothing"
        /\ ~Written(scanDoc) /\ ~Written(graphDoc) /\ ~Written(locDoc) /\ ~Written(decisions)
    BY DEF Init, Nothing, Written
  <2> QED
    BY <2>1 DEF IdsName, Held, Sourced, ShownJoinsOneScan, Replayed, Reported
<1>2. Inv /\ [Next]_vars => Inv'
  BY IdsStep, SourcedStep, ShownStep
<1> QED
  BY <1>1, <1>2, PTL DEF Spec

\* What audit replays, and the coverage a report shows beside its verdicts, are
\* documents of one scan, however often each command was run again since
\* (audit/case.go:77-79, report/coverage.go:80-88).
THEOREM JoinsOneScan == Spec => []ShownJoinsOneScan
BY Invariant, PTL

\* A graph is produced from an input the lemmas above are about.
LEMMA GraphHasInput ==
    ASSUME NEW g, GraphOfTree(g)
    PROVE  Input(g.scan.installed, g.files)
<1>1. PICK s \in Trees : g.scan.installed = s.installed
  BY DEF GraphOfTree, ScanOfTree
<1>2. PICK t \in Trees : g.files = t.files
  BY DEF GraphOfTree
<1>3. /\ s \in Tree /\ t \in Tree /\ FiniteTree(s) /\ FiniteTree(t)
  BY TreesAreTyped, TreesAreFinite
<1> QED
  BY <1>1, <1>2, <1>3 DEF Input, Tree, FiniteTree

\* The verdict of a finding in a replay of one scan.
LEMMA ReplayedVerdict ==
    ASSUME Sourced, ShownJoinsOneScan, Replayed, NEW f \in DOMAIN replay.verdicts
    PROVE  /\ f \in Findings
           /\ GraphOfTree(replay.graph) /\ replay.graph.scan = replay.scan
           /\ replay.verdicts[f].state =
                 DetermineState(replay.graph.graph.header, LocOf(replay.loc, f),
                                ReasonsOf(f, replay.graph.graph),
                                EvidenceOf(f, LocOf(replay.loc, f), replay.graph.graph))
<1>1. /\ GraphOfTree(replay.graph) /\ replay.graph.scan = replay.scan
      /\ replay = Results(replay.scan, replay.graph, replay.loc)
  BY DEF Sourced, ShownJoinsOneScan
<1>2. replay.verdicts = Verdicts(replay.scan, replay.graph, replay.loc)
  BY <1>1, ResultsFields
<1>3. f \in FindingsOf(replay.scan.installed)
  BY <1>2 DEF Verdicts
<1>4. replay.verdicts[f] =
         BuildDecision(f, replay.graph.graph.header, LocOf(replay.loc, f),
                       ReasonsOf(f, replay.graph.graph),
                       EvidenceOf(f, LocOf(replay.loc, f), replay.graph.graph))
  BY <1>2, <1>3 DEF Verdicts
<1> QED
  BY <1>1, <1>3, <1>4 DEF FindingsOf, BuildDecision

\* A negative verdict a replay shows is true of the source the analysis read
\* (NegativeIsTrue), of the very scan the findings are of.
THEOREM NegativesHold == Spec => []NegativesAreTrue
<1>1. Sourced /\ ShownJoinsOneScan => NegativesAreTrue
  <2> SUFFICES ASSUME Sourced, ShownJoinsOneScan, Replayed, NEW f \in DOMAIN replay.verdicts,
                      replay.verdicts[f].state = "no_usage_detected"
               PROVE  /\ \A x \in replay.graph.files :
                            x.walk # "pruned" /\ x.repo \in replay.scan.local =>
                               \A i \in x.imports :
                                  BelongsTo(f, x, i, replay.scan.installed) /\ ~i.typeOnly =>
                                     \A c \in i.calls :
                                        c.symbol \notin Names(replay.loc, f) \cup {Computed}
                      /\ \A o \in ScanFindings[f].occurrences \cap replay.scan.installed :
                            \E x \in replay.graph.files : \E i \in x.imports :
                               OccurrenceInfo[o].npm = i.package /\ ~OccurrenceInfo[o].nested
    BY DEF NegativesAreTrue
  <2>1. PICK g, r : g = replay.graph /\ r = LocOf(replay.loc, f)
    OBVIOUS
  <2>2. /\ f \in Findings /\ GraphOfTree(g) /\ g.scan = replay.scan
        /\ DetermineState(g.graph.header, r, ReasonsOf(f, g.graph), EvidenceOf(f, r, g.graph))
              = "no_usage_detected"
    BY <2>1, ReplayedVerdict
  <2>3. Input(g.scan.installed, g.files)
    BY <2>2, GraphHasInput
  <2>4. PICK reach : g.graph = Produce(g.scan.installed, g.scan.local, g.files, reach)
    BY <2>2 DEF GraphOfTree
  <2>5. /\ \A x \in g.files : x.walk # "pruned" /\ x.repo \in g.scan.local =>
              \A i \in x.imports :
                 BelongsTo(f, x, i, g.scan.installed) /\ ~i.typeOnly =>
                    \A c \in i.calls : c.symbol \notin Keys(r) \cup {Computed}
        /\ \A o \in ScanFindings[f].occurrences \cap g.scan.installed :
              \E x \in g.files : \E i \in x.imports :
                 OccurrenceInfo[o].npm = i.package /\ ~OccurrenceInfo[o].nested
    BY <2>2, <2>3, <2>4, NegativeIsTrue
  <2>6. Names(replay.loc, f) = Keys(r)
    BY <2>1 DEF Names
  <2> QED
    BY <2>1, <2>2, <2>5, <2>6
<1> QED
  BY <1>1, Invariant, PTL

\* Usage a replay reports is there in a file that was parsed (PositiveIsTrue).
THEOREM PositivesHold == Spec => []PositivesAreTrue
<1>1. Sourced /\ ShownJoinsOneScan => PositivesAreTrue
  <2> SUFFICES ASSUME Sourced, ShownJoinsOneScan, Replayed, NEW f \in DOMAIN replay.verdicts,
                      replay.verdicts[f].state = "usage_detected"
               PROVE  \E x \in replay.graph.files : \E i \in x.imports : \E c \in i.calls :
                         /\ x.walk \in {"parsed", "errors"}
                         /\ BelongsTo(f, x, i, replay.scan.installed)
                         /\ ~i.typeOnly
                         /\ c.symbol \in Names(replay.loc, f)
    BY DEF PositivesAreTrue
  <2>1. PICK g, r : g = replay.graph /\ r = LocOf(replay.loc, f)
    OBVIOUS
  <2>2. /\ f \in Findings /\ GraphOfTree(g) /\ g.scan = replay.scan
        /\ DetermineState(g.graph.header, r, ReasonsOf(f, g.graph), EvidenceOf(f, r, g.graph))
              = "usage_detected"
    BY <2>1, ReplayedVerdict
  <2>3. Input(g.scan.installed, g.files)
    BY <2>2, GraphHasInput
  <2>4. PICK reach : g.graph = Produce(g.scan.installed, g.scan.local, g.files, reach)
    BY <2>2 DEF GraphOfTree
  <2>5. \E x \in g.files : \E i \in x.imports : \E c \in i.calls :
           /\ x.walk \in {"parsed", "errors"}
           /\ BelongsTo(f, x, i, g.scan.installed)
           /\ ~i.typeOnly
           /\ c.symbol \in Keys(r)
    BY <2>2, <2>3, <2>4, PositiveIsTrue
  <2>6. Names(replay.loc, f) = Keys(r)
    BY <2>1 DEF Names
  <2> QED
    BY <2>1, <2>2, <2>5, <2>6
<1> QED
  BY <1>1, Invariant, PTL

(***************************************************************************)
(* Lists by rank, and sums of the sizes of sets.                           *)
(***************************************************************************)

\* before is a strict order of the elements of S, any two of them.
Orders(before, S) ==
    /\ \A a \in S : <<a, a>> \notin before
    /\ \A a, b \in S : a # b => <<a, b>> \in before \/ <<b, a>> \in before
    /\ \A a, b, c \in S : <<a, b>> \in before /\ <<b, c>> \in before => <<a, c>> \in before

\* A finite set that is ordered is listed by rank: each element once, in order.
LEMMA RankedLists ==
    ASSUME NEW S, IsFiniteSet(S), NEW before, Orders(before, S),
           NEW list, list = Ranked(S, before)
    PROVE  /\ Cardinality(S) \in Nat /\ list \in [1 .. Cardinality(S) -> S]
           /\ \A a \in S : \E k \in 1 .. Cardinality(S) : list[k] = a
           /\ \A j, k \in 1 .. Cardinality(S) : j < k => <<list[j], list[k]>> \in before
           /\ \A j, k \in 1 .. Cardinality(S) : list[j] = list[k] => j = k
<1> DEFINE n == Cardinality(S)
           below(a) == {b \in S : <<b, a>> \in before}
           rank == [a \in S |-> Cardinality(below(a))]
<1>1. n \in Nat
  BY FS_CardinalityType
<1>2. ASSUME NEW a \in S PROVE IsFiniteSet(below(a)) /\ rank[a] \in Nat /\ rank[a] < n
  <2>1. IsFiniteSet(below(a)) /\ below(a) \subseteq S \ {a}
    <3>1. below(a) \subseteq S \ {a}
      BY DEF Orders
    <3> QED
      BY <3>1, FS_Subset
  <2>2. IsFiniteSet(S \ {a}) /\ Cardinality(S \ {a}) = n - 1
    BY FS_RemoveElement
  <2>3. Cardinality(below(a)) \in Nat /\ Cardinality(below(a)) <= n - 1
    BY <2>1, <2>2, FS_Subset, FS_CardinalityType
  <2> QED
    BY <1>1, <2>1, <2>3
<1>3. ASSUME NEW a \in S, NEW b \in S, <<a, b>> \in before PROVE rank[a] < rank[b]
  <2>1. below(a) \cup {a} \subseteq below(b)
    BY <1>3 DEF Orders
  <2>2. a \notin below(a)
    BY DEF Orders
  <2>3. /\ IsFiniteSet(below(a)) /\ IsFiniteSet(below(b))
        /\ rank[a] = Cardinality(below(a)) /\ rank[b] = Cardinality(below(b))
        /\ rank[a] \in Nat /\ rank[b] \in Nat
    BY <1>2
  <2> HIDE DEF below, rank
  <2>4. Cardinality(below(a) \cup {a}) = rank[a] + 1 /\ IsFiniteSet(below(a) \cup {a})
    BY <2>2, <2>3, FS_AddElement
  <2>5. Cardinality(below(a) \cup {a}) <= rank[b]
    BY <2>1, <2>3, FS_Subset
  <2> QED
    BY <2>3, <2>4, <2>5
<1> DEFINE Z == 0 .. n - 1
<1>4. rank \in Injection(S, Z)
  <2>1. rank \in [S -> Z]
    <3>1. \A a \in S : rank[a] \in Z
      BY <1>1, <1>2
    <3> QED
      BY <3>1
  <2>2. ASSUME NEW a \in S, NEW b \in S, rank[a] = rank[b] PROVE a = b
    <3> SUFFICES ASSUME a # b PROVE FALSE
      OBVIOUS
    <3>1. rank[a] < rank[b] \/ rank[b] < rank[a]
      BY <1>3 DEF Orders
    <3>2. rank[a] \in Nat /\ rank[b] \in Nat
      BY <1>2
    <3> QED
      BY <2>2, <3>1, <3>2
  <2> HIDE DEF rank
  <2> QED
    BY <2>1, <2>2 DEF Injection, IsInjective
<1>5. IsFiniteSet(Z) /\ Cardinality(Z) = n
  BY <1>1, FS_Interval
<1>6. rank \in Surjection(S, Z)
  <2> HIDE DEF rank, Z, n
  <2> QED
    BY <1>1, <1>4, <1>5, FS_Injection DEF n
<1>7. DOMAIN list = 1 .. n /\ \A k \in 1 .. n : list[k] = CHOOSE a \in S : rank[a] = k - 1
  BY DEF Ranked
<1>8. ASSUME NEW k \in 1 .. n PROVE list[k] \in S /\ rank[list[k]] = k - 1
  <2>1. k - 1 \in Z
    BY <1>1
  <2>2. \E a \in S : rank[a] = k - 1
    BY <1>6, <2>1 DEF Surjection
  <2> HIDE DEF rank
  <2> QED
    BY <1>7, <2>2
<1>9. list \in [1 .. n -> S]
  <2> DEFINE el(k) == CHOOSE a \in S : Cardinality(below(a)) = k - 1
  <2>1. list = [k \in 1 .. n |-> el(k)]
    BY DEF Ranked
  <2> HIDE DEF el
  <2> QED
    BY <1>8, <2>1
<1>r. \A a \in S : rank[a] \in Nat /\ rank[a] < n
  BY <1>2
<1> HIDE DEF rank, n, below, Z
<1>10. ASSUME NEW a \in S PROVE \E k \in 1 .. n : list[k] = a
  <2>1. rank[a] + 1 \in 1 .. n
    BY <1>1, <1>r
  <2>2. rank[list[rank[a] + 1]] = rank[a] /\ list[rank[a] + 1] \in S
    BY <1>r, <1>8, <2>1
  <2>3. list[rank[a] + 1] = a
    BY <1>4, <2>2 DEF Injection, IsInjective
  <2> QED
    BY <2>1, <2>3
<1>11. ASSUME NEW j \in 1 .. n, NEW k \in 1 .. n, j < k PROVE <<list[j], list[k]>> \in before
  <2>1. list[j] # list[k]
    BY <1>1, <1>8, <1>11
  <2>2. ~ (<<list[k], list[j]>> \in before)
    BY <1>1, <1>3, <1>8, <1>11
  <2> QED
    BY <1>8, <2>1, <2>2 DEF Orders
<1>12. ASSUME NEW j \in 1 .. n, NEW k \in 1 .. n, list[j] = list[k] PROVE j = k
  BY <1>1, <1>8, <1>12
<1> QED
  BY <1>1, <1>9, <1>10, <1>11, <1>12 DEF n

\* The places of a sequence are in order.
LEMMA PlacesOrdered ==
    ASSUME NEW n \in Nat, NEW at \in SUBSET (1 .. n)
    PROVE  IsFiniteSet(at) /\ Orders({p \in at \X at : p[1] < p[2]}, at)
<1>1. IsFiniteSet(at)
  <2>1. IsFiniteSet(1 .. n)
    BY FS_Interval
  <2> QED
    BY <2>1, FS_Subset
<1>2. \A a \in at : a \in Nat
  OBVIOUS
<1> DEFINE before == {p \in at \X at : p[1] < p[2]}
<1>3. \A a, b \in at : <<a, b>> \in before <=> a < b
  OBVIOUS
<1> HIDE DEF before
<1>4. Orders(before, at)
  BY <1>2, <1>3 DEF Orders
<1> QED
  BY <1>1, <1>4 DEF before

\* The elements of s at some places, each place once and in their order.
Selects(s, at, list, order) ==
    /\ Cardinality(at) \in Nat
    /\ DOMAIN list = 1 .. Cardinality(at)
    /\ order \in [1 .. Cardinality(at) -> at]
    /\ \A k \in 1 .. Cardinality(at) : list[k] = s[order[k]]
    /\ \A i \in at : \E k \in 1 .. Cardinality(at) : order[k] = i
    /\ \A j, k \in 1 .. Cardinality(at) : j < k => order[j] < order[k]
    /\ \A j, k \in 1 .. Cardinality(at) : order[j] = order[k] => j = k

\* The elements at some places of a sequence are listed in their order.
LEMMA OnlySelects ==
    ASSUME NEW n \in Nat, NEW at \in SUBSET (1 .. n), NEW s, NEW list, list = Only(s, at)
    PROVE  \E order : Selects(s, at, list, order)
<1> DEFINE before == {p \in at \X at : p[1] < p[2]}
<1>1. PICK order : order = Ranked(at, before)
  OBVIOUS
<1>2. list = [k \in DOMAIN order |-> s[order[k]]]
  BY <1>1 DEF Only
<1>3. IsFiniteSet(at) /\ Orders(before, at)
  BY PlacesOrdered
<1>4. \A a, b \in at : <<a, b>> \in before <=> a < b
  OBVIOUS
<1> HIDE DEF before
<1>5. /\ Cardinality(at) \in Nat /\ order \in [1 .. Cardinality(at) -> at]
      /\ \A a \in at : \E k \in 1 .. Cardinality(at) : order[k] = a
      /\ \A j, k \in 1 .. Cardinality(at) : j < k => <<order[j], order[k]>> \in before
      /\ \A j, k \in 1 .. Cardinality(at) : order[j] = order[k] => j = k
  BY <1>1, <1>3, RankedLists
<1>6. Selects(s, at, list, order)
  BY <1>2, <1>4, <1>5 DEF Selects
<1> QED
  BY <1>6

-----------------------------------------------------------------------------
(* Sums.                                                                    *)

\* fold sums up h over each of the sets D.
SumsUp(h, D, fold) ==
    fold = [s \in D |-> IF s = {} THEN 0
                        ELSE LET i == CHOOSE i \in s : TRUE IN h[i] + fold[s \ {i}]]

\* The function a sum is defined by exists, whatever element it takes next.
LEMMA SumExists ==
    ASSUME NEW h, NEW S, IsFiniteSet(S)
    PROVE  \A n \in Nat : \E fold : SumsUp(h, Sized(S, n), fold)
<1> DEFINE T == {n \in Nat : \E fold : SumsUp(h, Sized(S, n), fold)}
<1>1. \A s \in SUBSET S : /\ IsFiniteSet(s) /\ Cardinality(s) \in Nat
                          /\ Cardinality(s) = 0 <=> s = {}
                          /\ \A i \in s : Cardinality(s \ {i}) = Cardinality(s) - 1
  BY FS_Subset, FS_CardinalityType, FS_EmptySet, FS_RemoveElement
<1>2. 0 \in T
  <2> DEFINE none == [s \in Sized(S, 0) |-> 0]
  <2>1. \A s \in Sized(S, 0) : s = {}
    BY <1>1 DEF Sized
  <2>2. SumsUp(h, Sized(S, 0), none)
    BY <2>1 DEF SumsUp
  <2> QED
    BY <2>2
<1>3. ASSUME NEW n \in Nat, n \in T PROVE n + 1 \in T
  <2>1. PICK fold : SumsUp(h, Sized(S, n), fold)
    BY <1>3
  <2> DEFINE next == [s \in Sized(S, n + 1) |->
                         IF s = {} THEN 0
                         ELSE LET i == CHOOSE i \in s : TRUE IN h[i] + fold[s \ {i}]]
  <2>2. ASSUME NEW s \in Sized(S, n) PROVE next[s] = fold[s]
    <3>1. s \in Sized(S, n + 1)
      BY <1>1 DEF Sized
    <3>2. fold[s] = IF s = {} THEN 0
                    ELSE LET i == CHOOSE i \in s : TRUE IN h[i] + fold[s \ {i}]
      BY <2>1 DEF SumsUp
    <3> QED
      BY <3>1, <3>2
  <2>3. ASSUME NEW s \in Sized(S, n + 1), s # {}, NEW i \in s
        PROVE  s \ {i} \in Sized(S, n)
    <3>1. Cardinality(s \ {i}) = Cardinality(s) - 1 /\ Cardinality(s) \in Nat
      BY <1>1 DEF Sized
    <3> QED
      BY <3>1 DEF Sized
  <2>4. ASSUME NEW s \in Sized(S, n + 1)
        PROVE  next[s] = IF s = {} THEN 0
                         ELSE LET i == CHOOSE i \in s : TRUE IN h[i] + next[s \ {i}]
    <3> DEFINE i == CHOOSE i \in s : TRUE
    <3>1. next[s] = IF s = {} THEN 0 ELSE h[i] + fold[s \ {i}]
      OBVIOUS
    <3>2. s # {} => i \in s
      OBVIOUS
    <3> HIDE DEF next, i
    <3>3. s # {} => next[s \ {i}] = fold[s \ {i}]
      BY <2>2, <2>3, <3>2
    <3>4. next[s] = IF s = {} THEN 0 ELSE h[i] + next[s \ {i}]
      BY <3>1, <3>3
    <3> QED
      BY <3>4 DEF i
  <2>5. next = [s \in Sized(S, n + 1) |-> next[s]]
    OBVIOUS
  <2> HIDE DEF next
  <2>6. SumsUp(h, Sized(S, n + 1), next)
    BY <2>4, <2>5 DEF SumsUp
  <2> QED
    BY <2>6
<1> HIDE DEF T
<1>4. Nat \subseteq T
  BY <1>2, <1>3, Induction
<1> QED
  BY <1>4 DEF T

\* part gives every element of S a finite set, no two of them the same thing.
Apart(part, S) ==
    /\ \A i \in S : IsFiniteSet(part[i])
    /\ \A i, j \in S : i # j => part[i] \cap part[j] = {}

\* All that is in one of the parts.
Parts(part, S) == UNION {part[i] : i \in S}

\* That function counts the elements of the parts.
LEMMA SumCounts ==
    ASSUME NEW S, IsFiniteSet(S), NEW part, Apart(part, S), NEW h,
           \A i \in S : h[i] = Cardinality(part[i]), NEW fold, SumsUp(h, SUBSET S, fold)
    PROVE  IsFiniteSet(Parts(part, S)) /\ fold[S] = Cardinality(Parts(part, S))
<1> DEFINE Counts(s) == IsFiniteSet(Parts(part, s)) /\ fold[s] = Cardinality(Parts(part, s))
           T == {n \in Nat : \A s \in SUBSET S : Cardinality(s) = n => Counts(s)}
<1>1. \A s \in SUBSET S : /\ IsFiniteSet(s) /\ Cardinality(s) \in Nat
                          /\ Cardinality(s) = 0 <=> s = {}
                          /\ \A i \in s : Cardinality(s \ {i}) = Cardinality(s) - 1
  BY FS_Subset, FS_CardinalityType, FS_EmptySet, FS_RemoveElement
<1>2. ASSUME NEW s \in SUBSET S
      PROVE  fold[s] = IF s = {} THEN 0
                       ELSE LET i == CHOOSE i \in s : TRUE IN h[i] + fold[s \ {i}]
  BY DEF SumsUp
<1>3. 0 \in T
  <2>1. Parts(part, {}) = {}
    BY DEF Parts
  <2>2. fold[{}] = 0
    BY <1>2
  <2> QED
    BY <1>1, <2>1, <2>2, FS_EmptySet
<1>4. ASSUME NEW n \in Nat, n \in T PROVE n + 1 \in T
  <2> SUFFICES ASSUME NEW s \in SUBSET S, Cardinality(s) = n + 1 PROVE Counts(s)
    OBVIOUS
  <2>1. s # {}
    BY <1>1
  <2>2. PICK i \in s : i = CHOOSE x \in s : TRUE
    BY <2>1
  <2>3. fold[s] = h[i] + fold[s \ {i}]
    BY <1>2, <2>1, <2>2
  <2>4. s \ {i} \in SUBSET S /\ Cardinality(s \ {i}) = n
    <3>1. Cardinality(s \ {i}) = Cardinality(s) - 1
      BY <1>1
    <3> QED
      BY <3>1
  <2>5. Counts(s \ {i})
    BY <1>4, <2>4
  <2> DEFINE rest == Parts(part, s \ {i})
             one == part[i]
  <2>6. Parts(part, s) = rest \cup one /\ rest \cap one = {}
    BY DEF Parts, Apart
  <2>7. IsFiniteSet(one) /\ h[i] = Cardinality(one)
    BY DEF Apart
  <2> HIDE DEF one, rest
  <2>8. IsFiniteSet(rest \cup one)
    BY <2>5, <2>7, FS_Union DEF rest
  <2>9. Cardinality(rest \cup one) = Cardinality(rest) + Cardinality(one)
    <3>1. IsFiniteSet(rest)
      BY <2>5 DEF rest
    <3>2. Cardinality(rest \cup one)
             = Cardinality(rest) + Cardinality(one) - Cardinality(rest \cap one)
      BY <3>1, <2>7, FS_Union
    <3>3. Cardinality(rest \cap one) = 0
      BY <2>6, FS_EmptySet
    <3>4. Cardinality(rest) \in Nat /\ Cardinality(one) \in Nat
      BY <3>1, <2>7, FS_CardinalityType
    <3> QED
      BY <3>2, <3>3, <3>4
  <2> QED
    BY <2>3, <2>5, <2>6, <2>7, <2>8, <2>9, FS_CardinalityType DEF rest
<1> HIDE DEF T
<1>5. Nat \subseteq T
  BY <1>3, <1>4, Induction
<1> QED
  BY <1>1, <1>5 DEF T

\* A sum of the sizes of sets without a common element is the size of their union.
LEMMA SumOfParts ==
    ASSUME NEW h, IsFiniteSet(DOMAIN h), NEW part, Apart(part, DOMAIN h),
           \A i \in DOMAIN h : h[i] = Cardinality(part[i])
    PROVE  /\ IsFiniteSet(Parts(part, DOMAIN h))
           /\ SumFunction(h) = Cardinality(Parts(part, DOMAIN h))
<1> DEFINE S == DOMAIN h
           folded == CHOOSE fold : SumsUp(h, SUBSET S, fold)
<1>1. Cardinality(S) \in Nat /\ Sized(S, Cardinality(S)) = SUBSET S
  <2>1. \A s \in SUBSET S : Cardinality(s) <= Cardinality(S)
    BY FS_Subset
  <2> QED
    BY <2>1, FS_CardinalityType DEF Sized
<1>2. \E fold : SumsUp(h, SUBSET S, fold)
  <2>1. \A n \in Nat : \E fold : SumsUp(h, Sized(S, n), fold)
    BY SumExists
  <2> QED
    BY <1>1, <2>1
<1>3. SumsUp(h, SUBSET S, folded)
  BY <1>2
<1>4. SumFunction(h) = folded[S]
  BY DEF SumFunction, SumFunctionOnSet, FoldFunctionOnSet, MapThenFoldSet, SumsUp
<1> HIDE DEF folded
<1> QED
  BY <1>3, <1>4, SumCounts

(***************************************************************************)
(* Greatest elements, and comparison place by place.                       *)
(***************************************************************************)

\* Numbers have a least one.
LEMMA MinOf ==
    ASSUME NEW S \in SUBSET Nat, S # {}
    PROVE  Min(S) \in S /\ \A y \in S : Min(S) <= y
<1> DEFINE less == {ss \in Nat \X Nat : ss[1] < ss[2]}
<1>1. IsWellFoundedOn(less, Nat)
  BY NatLessThanWellFounded DEF OpToRel
<1>2. PICK m \in S : \A y \in S : ~ (<<y, m>> \in less)
  <2> HIDE DEF less
  <2> QED
    BY <1>1, WFMin
<1>3. ASSUME NEW y \in S PROVE m <= y
  <2>1. y \in Nat /\ m \in Nat
    OBVIOUS
  <2>2. ~ (y < m)
    BY <1>2, <2>1
  <2> QED
    BY <2>1, <2>2
<1> QED
  BY <1>3 DEF Min

\* Finitely many things, some above others, have a highest one.
LEMMA HighestExists ==
    ASSUME NEW S, IsFiniteSet(S), NEW above,
           \A a \in S : <<a, a>> \notin above,
           \A a, b, c \in S : <<a, b>> \in above /\ <<b, c>> \in above => <<a, c>> \in above,
           S # {}
    PROVE  \E x \in S : \A y \in S : <<y, x>> \notin above
<1> DEFINE Tops(s) == \E x \in s : \A y \in s : <<y, x>> \notin above
           T == {n \in Nat : \A s \in SUBSET S : Cardinality(s) = n => s = {} \/ Tops(s)}
<1>1. \A s \in SUBSET S : /\ IsFiniteSet(s) /\ Cardinality(s) \in Nat
                          /\ Cardinality(s) = 0 <=> s = {}
                          /\ \A i \in s : Cardinality(s \ {i}) = Cardinality(s) - 1
  BY FS_Subset, FS_CardinalityType, FS_EmptySet, FS_RemoveElement
<1>2. 0 \in T
  BY <1>1
<1>3. ASSUME NEW n \in Nat, n \in T PROVE n + 1 \in T
  <2> SUFFICES ASSUME NEW s \in SUBSET S, Cardinality(s) = n + 1 PROVE Tops(s)
    OBVIOUS
  <2>1. PICK i \in s : TRUE
    BY <1>1
  <2>2. Cardinality(s \ {i}) = Cardinality(s) - 1
    BY <1>1
  <2>3. s \ {i} \in SUBSET S /\ Cardinality(s \ {i}) = n
    BY <2>2
  <2>4. s \ {i} = {} \/ Tops(s \ {i})
    BY <1>3, <2>3
  <2>5. CASE s \ {i} = {}
    <3>1. \A y \in s : <<y, i>> \notin above
      BY <2>5
    <3> QED
      BY <3>1
  <2>6. CASE Tops(s \ {i})
    <3>1. PICK x \in s \ {i} : \A y \in s \ {i} : <<y, x>> \notin above
      BY <2>6
    <3>2. CASE <<i, x>> \in above
      <4>1. \A y \in s : <<y, i>> \notin above
        BY <3>1, <3>2
      <4> QED
        BY <4>1
    <3>3. CASE <<i, x>> \notin above
      BY <3>1, <3>3
    <3> QED
      BY <3>2, <3>3
  <2> QED
    BY <2>4, <2>5, <2>6
<1> HIDE DEF T
<1>4. Nat \subseteq T
  BY <1>2, <1>3, Induction
<1> QED
  BY <1>1, <1>4 DEF T

\* Finitely many numbers have a greatest one.
LEMMA MaxOf ==
    ASSUME NEW S \in SUBSET Nat, IsFiniteSet(S), S # {}
    PROVE  Max(S) \in S /\ \A y \in S : Max(S) >= y
<1> DEFINE above == {p \in S \X S : p[1] > p[2]}
<1>1. \A a, b \in S : <<a, b>> \in above <=> a > b
  OBVIOUS
<1>2. \A a \in S : a \in Nat
  OBVIOUS
<1> HIDE DEF above
<1>3. \E x \in S : \A y \in S : <<y, x>> \notin above
  <2>1. /\ \A a \in S : <<a, a>> \notin above
        /\ \A a, b, c \in S : <<a, b>> \in above /\ <<b, c>> \in above => <<a, c>> \in above
    BY <1>1, <1>2
  <2> QED
    BY <2>1, HighestExists
<1>4. \E x \in S : \A y \in S : x >= y
  <2>1. PICK x \in S : \A y \in S : <<y, x>> \notin above
    BY <1>3
  <2>2. ASSUME NEW y \in S PROVE x >= y
    <3>1. ~ (y > x)
      BY <1>1, <2>1
    <3> QED
      BY <1>2, <3>1
  <2> QED
    BY <2>2
<1> QED
  BY <1>4 DEF Max

-----------------------------------------------------------------------------
(* Comparison place by place.                                               *)

\* s is first greater at place i.
Exceeds(s, t, n, i) == /\ i \in 1 .. n /\ s[i] > t[i]
                       /\ \A j \in 1 .. n : j < i => s[j] = t[j]

\* One tuple comes after another when it exceeds it at a place; of two that differ
\* one does.
LEMMA AfterAtPlace ==
    ASSUME NEW n \in Nat, NEW s \in [1 .. n -> Nat], NEW t \in [1 .. n -> Nat]
    PROVE  /\ AfterAt(s, t) <=> \E i \in 1 .. n : Exceeds(s, t, n, i)
           /\ s # t => AfterAt(s, t) \/ AfterAt(t, s)
<1> DEFINE apart(a, b) == {i \in DOMAIN a : a[i] # b[i]}
<1>1. apart(s, t) = apart(t, s) /\ apart(s, t) \in SUBSET (1 .. n)
  OBVIOUS
<1>2. \A i \in 1 .. n : i \in Nat /\ s[i] \in Nat /\ t[i] \in Nat
  OBVIOUS
<1>3. PICK A : A = apart(s, t)
  OBVIOUS
<1>4. /\ AfterAt(s, t) <=> A # {} /\ s[Min(A)] > t[Min(A)]
      /\ AfterAt(t, s) <=> A # {} /\ t[Min(A)] > s[Min(A)]
  BY <1>1, <1>3 DEF AfterAt
<1>5. A \in SUBSET Nat /\ A \in SUBSET (1 .. n)
  BY <1>1, <1>3
<1>6. PICK m : m = Min(A)
  OBVIOUS
<1>7. A # {} => m \in A /\ m \in 1 .. n /\ \A y \in A : m <= y
  BY <1>5, <1>6, MinOf
<1>8. \A i \in 1 .. n : i \in A <=> s[i] # t[i]
  BY <1>3
<1>9. s # t => A # {}
  <2>1. ASSUME A = {} PROVE s = t
    BY <1>8, <2>1
  <2> QED
    BY <2>1
<1>10. AfterAt(s, t) <=> A # {} /\ s[m] > t[m]
  BY <1>4, <1>6
<1>11. AfterAt(t, s) <=> A # {} /\ t[m] > s[m]
  BY <1>4, <1>6
<1>12. s # t => AfterAt(s, t) \/ AfterAt(t, s)
  <2>1. ASSUME A # {} PROVE s[m] > t[m] \/ t[m] > s[m]
    <3>1. m \in 1 .. n /\ s[m] # t[m]
      BY <1>7, <1>8, <2>1
    <3>2. s[m] \in Nat /\ t[m] \in Nat
      BY <3>1
    <3> QED
      BY <3>1, <3>2
  <2> QED
    BY <1>9, <1>10, <1>11, <2>1
<1> HIDE DEF apart
<1>13. ASSUME AfterAt(s, t) PROVE \E i \in 1 .. n : Exceeds(s, t, n, i)
  <2>1. m \in 1 .. n /\ s[m] > t[m] /\ \A y \in A : m <= y
    BY <1>7, <1>10, <1>13
  <2>2. ASSUME NEW j \in 1 .. n, j < m PROVE s[j] = t[j]
    <3>1. j \notin A
      BY <2>1, <2>2
    <3> QED
      BY <1>8, <3>1
  <2>3. Exceeds(s, t, n, m)
    BY <2>1, <2>2 DEF Exceeds
  <2> QED
    BY <2>1, <2>3
<1>14. ASSUME NEW i \in 1 .. n, Exceeds(s, t, n, i) PROVE AfterAt(s, t)
  <2>1. s[i] > t[i] /\ s[i] # t[i]
    <3>1. s[i] \in Nat /\ t[i] \in Nat /\ s[i] > t[i]
      BY <1>14 DEF Exceeds
    <3> QED
      BY <3>1
  <2>2. i \in A
    BY <1>8, <2>1
  <2>3. ~ (m < i)
    <3>1. m \in A /\ m \in 1 .. n
      BY <1>7, <2>2
    <3>2. s[m] # t[m]
      BY <1>8, <3>1
    <3> QED
      BY <1>14, <3>1, <3>2 DEF Exceeds
  <2>4. m <= i /\ m \in 1 .. n
    BY <1>7, <2>2
  <2>5. m = i
    BY <2>3, <2>4
  <2> QED
    BY <1>10, <2>1, <2>2, <2>5
<1> QED
  BY <1>12, <1>13, <1>14

\* Nothing comes after itself; what comes after comes after all before.
LEMMA AfterAtOrders ==
    ASSUME NEW n \in Nat, NEW s \in [1 .. n -> Nat], NEW t \in [1 .. n -> Nat],
           NEW u \in [1 .. n -> Nat]
    PROVE  ~AfterAt(s, s) /\ (AfterAt(s, t) /\ AfterAt(t, u) => AfterAt(s, u))
<1>0. \A i \in 1 .. n : i \in Nat /\ s[i] \in Nat /\ t[i] \in Nat /\ u[i] \in Nat
  OBVIOUS
<1>1. ~AfterAt(s, s)
  <2>1. ~ (\E i \in 1 .. n : Exceeds(s, s, n, i))
    BY <1>0 DEF Exceeds
  <2> QED
    BY <2>1, AfterAtPlace
<1>2. ASSUME AfterAt(s, t), AfterAt(t, u) PROVE AfterAt(s, u)
  <2>1. PICK i \in 1 .. n : Exceeds(s, t, n, i)
    BY <1>2, AfterAtPlace
  <2>2. PICK j \in 1 .. n : Exceeds(t, u, n, j)
    BY <1>2, AfterAtPlace
  <2>3. i <= j => Exceeds(s, u, n, i)
    BY <1>0, <2>1, <2>2 DEF Exceeds
  <2>4. j < i => Exceeds(s, u, n, j)
    BY <1>0, <2>1, <2>2 DEF Exceeds
  <2>5. \E k \in 1 .. n : Exceeds(s, u, n, k)
    BY <2>3, <2>4
  <2> QED
    BY <2>5, AfterAtPlace
<1> QED
  BY <1>1, <1>2

(***************************************************************************)
(* The groups of packages, and their order.                                *)
(***************************************************************************)

\* The greatest of finitely many numbers is one of them.
LEMMA GreatestOf ==
    ASSUME NEW S, IsFiniteSet(S), S # {}, NEW h, \A x \in S : h[x] \in Nat,
           NEW M, \A y : y \in M <=> \E x \in S : y = h[x]
    PROVE  Max(M) \in Nat /\ (\E x \in S : Max(M) = h[x]) /\ \A x \in S : Max(M) >= h[x]
<1> DEFINE f == [x \in S |-> h[x]]
<1>1. f \in Surjection(S, M)
  <2>1. \A x \in S : h[x] \in M
    OBVIOUS
  <2> QED
    BY <2>1 DEF Surjection
<1>2. IsFiniteSet(M)
  BY <1>1, FS_Surjection
<1>3. M \in SUBSET Nat /\ M # {}
  OBVIOUS
<1>4. Max(M) \in M /\ \A y \in M : Max(M) >= y
  BY <1>2, <1>3, MaxOf
<1> QED
  BY <1>3, <1>4

\* The bands of a decision.
Bands == {"act_now", "insufficient_information", "lower_priority"}

\* v maps findings of the scan to their decisions.
Decided(v) == DOMAIN v \subseteq Findings /\ \A f \in DOMAIN v : v[f].band \in Bands

\* The groups of the decisions v.
GroupsOf(v) == {Group(v, ScanFindings[f].purl) : f \in DOMAIN v}

\* The findings to act on now.
ActNow(fs, v) == {f \in fs : v[f].band = "act_now"}

\* What a group of decisions holds, and what it is ordered by.
GroupSays(g, v) ==
    /\ g.purl \in PURLs
    /\ g.findings = FindingsAt(v, g.purl) /\ g.findings # {} /\ IsFiniteSet(g.findings)
    /\ g.findings \subseteq DOMAIN v
    /\ g.fixed = ReportedFixedVersion(FindingsAt(v, g.purl), Installed[g.purl])
    /\ g.urgency \in [1 .. 5 -> Nat]
    /\ g.urgency[1] <= 3 /\ g.urgency[2] <= 1
    /\ g.urgency[1] = 3 <=> ActNow(g.findings, v) # {}
    /\ ActNow(g.findings, v) # {} =>
          (g.urgency[2] = 1 <=> \E f \in ActNow(g.findings, v) : ScanFindings[f].kev)

\* The group of a finding's package says that of itself.
LEMMA GroupHolds ==
    ASSUME NEW v, Decided(v), NEW f \in DOMAIN v, NEW p, p = ScanFindings[f].purl,
           NEW g, g = Group(v, p)
    PROVE  g.purl = p /\ GroupSays(g, v)
<1> DEFINE fs == FindingsAt(v, p)
           top == Highest(v, fs)
           ranks == {BandRank(v[x].band) : x \in fs}
<1>1. p \in PURLs /\ fs \subseteq DOMAIN v /\ f \in fs /\ fs \subseteq Findings
  BY ScanIsTyped DEF Decided, FindingsAt, ScanFinding
<1>2. IsFiniteSet(fs) /\ fs # {}
  BY <1>1, SignalsAreTyped, FS_Subset
<1>3. g = [purl |-> p, findings |-> fs, fixed |-> ReportedFixedVersion(fs, Installed[p]),
           urgency |-> << Max(ranks), IF \E x \in top : ScanFindings[x].kev THEN 1 ELSE 0,
                          Epss(top), Cvss(top), Cardinality(fs) >>]
  BY DEF Group
<1>4. \A x \in fs : BandRank(v[x].band) \in 1 .. 3
                    /\ (BandRank(v[x].band) = 3 <=> v[x].band = "act_now")
  BY <1>1 DEF Decided, Bands, BandRank
<1> HIDE DEF fs
<1>5. /\ Max(ranks) \in Nat /\ \E x \in fs : Max(ranks) = BandRank(v[x].band)
      /\ \A x \in fs : Max(ranks) >= BandRank(v[x].band)
  <2> DEFINE h == [x \in fs |-> BandRank(v[x].band)]
  <2>1. (\A y : y \in ranks <=> \E x \in fs : y = h[x]) /\ \A x \in fs : h[x] \in Nat
    BY <1>4
  <2>2. \A x \in fs : h[x] = BandRank(v[x].band)
    OBVIOUS
  <2> HIDE DEF h, ranks
  <2>3. /\ Max(ranks) \in Nat
        /\ \E x \in fs : Max(ranks) = h[x]
        /\ \A x \in fs : Max(ranks) >= h[x]
    BY <1>2, <2>1, GreatestOf
  <2> QED
    BY <2>2, <2>3
<1> DEFINE best == Max(ranks)
<1> HIDE DEF ranks
<1>6. best <= 3 /\ (best = 3 <=> ActNow(fs, v) # {})
  BY <1>4, <1>5 DEF ActNow
<1>7. top # {} /\ top \subseteq fs /\ IsFiniteSet(top)
  <2>1. top # {}
    BY <1>4, <1>5 DEF Highest
  <2> QED
    BY <1>2, <2>1, FS_Subset DEF Highest
<1>8. ActNow(fs, v) # {} => top = ActNow(fs, v)
  BY <1>4 DEF ActNow, Highest
<1> HIDE DEF top
<1>9. \A x \in top : Signals[x].epss \in Nat /\ Signals[x].cvss \in Nat
  BY <1>1, <1>7, SignalsAreTyped DEF Signal
<1>10. Epss(top) \in Nat
  <2> DEFINE h == [x \in top |-> Signals[x].epss]
             M == {Signals[x].epss : x \in top}
  <2>1. (\A y : y \in M <=> \E x \in top : y = h[x]) /\ \A x \in top : h[x] \in Nat
    BY <1>9
  <2> HIDE DEF h, M
  <2>2. Max(M) \in Nat
    BY <1>7, <2>1, GreatestOf
  <2> QED
    BY <2>2 DEF Epss, M
<1>11. Cvss(top) \in Nat
  <2> DEFINE h == [x \in top |-> Signals[x].cvss]
             M == {Signals[x].cvss : x \in top}
  <2>1. (\A y : y \in M <=> \E x \in top : y = h[x]) /\ \A x \in top : h[x] \in Nat
    BY <1>9
  <2> HIDE DEF h, M
  <2>2. Max(M) \in Nat
    BY <1>7, <2>1, GreatestOf
  <2> QED
    BY <2>2 DEF Cvss, M
<1>12. Cardinality(fs) \in Nat
  BY <1>2, FS_CardinalityType
<1> DEFINE kev == IF \E x \in top : ScanFindings[x].kev THEN 1 ELSE 0
           u == << best, kev, Epss(top), Cvss(top), Cardinality(fs) >>
<1>13. kev \in {0, 1} /\ (kev = 1 <=> \E x \in top : ScanFindings[x].kev)
  OBVIOUS
<1>14. g.urgency = u /\ g.purl = p /\ g.findings = fs
       /\ g.fixed = ReportedFixedVersion(fs, Installed[p])
  BY <1>3
<1> HIDE DEF kev, best
<1>15. u \in [1 .. 5 -> Nat] /\ u[1] = best /\ u[2] = kev
  BY <1>5, <1>10, <1>11, <1>12, <1>13 DEF best
<1> HIDE DEF u
<1>16. /\ ActNow(fs, v) # {} => (kev = 1 <=> \E x \in ActNow(fs, v) : ScanFindings[x].kev)
  BY <1>8, <1>13
<1> QED
  BY <1>1, <1>2, <1>6, <1>13, <1>14, <1>15, <1>16 DEF GroupSays, fs, best

\* The pairs of groups of which the first is updated before the second.
Sooner(v) == {p \in GroupsOf(v) \X GroupsOf(v) : UpdatedBefore(p[1], p[2])}

\* Every group says that of itself, and there is one for a package URL.
LEMMA GroupsSay ==
    ASSUME NEW v, Decided(v)
    PROVE  /\ \A g \in GroupsOf(v) : GroupSays(g, v)
           /\ \A g, h \in GroupsOf(v) : g.purl = h.purl => g = h
           /\ \A f \in DOMAIN v : \E g \in GroupsOf(v) : f \in g.findings
           /\ IsFiniteSet(GroupsOf(v))
<1>1. ASSUME NEW g \in GroupsOf(v) PROVE GroupSays(g, v) /\ g = Group(v, g.purl)
  <2>1. PICK f \in DOMAIN v : g = Group(v, ScanFindings[f].purl)
    BY DEF GroupsOf
  <2>2. g.purl = ScanFindings[f].purl /\ GroupSays(g, v)
    BY <2>1, GroupHolds
  <2> QED
    BY <2>1, <2>2
<1>2. ASSUME NEW f \in DOMAIN v PROVE \E g \in GroupsOf(v) : f \in g.findings
  <2>1. PICK g \in GroupsOf(v) : g = Group(v, ScanFindings[f].purl)
    BY DEF GroupsOf
  <2>2. g.purl = ScanFindings[f].purl /\ GroupSays(g, v)
    BY <2>1, GroupHolds
  <2>3. f \in g.findings
    BY <2>2 DEF GroupSays, FindingsAt
  <2> QED
    BY <2>3
<1>3. IsFiniteSet(GroupsOf(v))
  <2> DEFINE m == [f \in DOMAIN v |-> Group(v, ScanFindings[f].purl)]
  <2>1. m \in Surjection(DOMAIN v, GroupsOf(v))
    BY DEF Surjection, GroupsOf
  <2>2. IsFiniteSet(DOMAIN v)
    BY SignalsAreTyped, FS_Subset DEF Decided
  <2> HIDE DEF m
  <2> QED
    BY <2>1, <2>2, FS_Surjection
<1>4. ASSUME NEW g \in GroupsOf(v), NEW h \in GroupsOf(v), g.purl = h.purl PROVE g = h
  <2>1. g = Group(v, g.purl) /\ h = Group(v, h.purl)
    BY <1>1
  <2> QED
    BY <1>4, <2>1
<1> QED
  BY <1>1, <1>2, <1>3, <1>4

\* The order of the groups leaves no two of them in doubt.
LEMMA GroupsOrdered ==
    ASSUME NEW v, Decided(v)
    PROVE  Orders(Sooner(v), GroupsOf(v))
<1> DEFINE S == GroupsOf(v)
<1>1. \A a, b \in S : <<a, b>> \in Sooner(v) <=> UpdatedBefore(a, b)
  BY DEF Sooner
<1>2. ASSUME NEW a \in S
      PROVE  /\ a.urgency \in [1 .. 5 -> Nat] /\ a.purl \in PURLs
             /\ NameOrder[a.purl] \in Nat
  BY GroupsSay, SignalsAreTyped DEF GroupSays
<1>3. ASSUME NEW a \in S, NEW b \in S, NameOrder[a.purl] = NameOrder[b.purl] PROVE a = b
  <2>1. a.purl = b.purl
    BY <1>2, <1>3, SignalsAreTyped DEF IsInjective
  <2> QED
    BY <2>1, GroupsSay
<1> HIDE DEF S
<1>4. ASSUME NEW a \in S PROVE <<a, a>> \notin Sooner(v)
  <2>1. ~AfterAt(a.urgency, a.urgency)
    BY <1>2, AfterAtOrders
  <2>2. ~(NameOrder[a.purl] < NameOrder[a.purl])
    BY <1>2
  <2> QED
    BY <1>1, <2>1, <2>2 DEF UpdatedBefore
<1>5. ASSUME NEW a \in S, NEW b \in S, a # b
      PROVE  <<a, b>> \in Sooner(v) \/ <<b, a>> \in Sooner(v)
  <2>1. CASE a.urgency = b.urgency
    <3>1. NameOrder[a.purl] # NameOrder[b.purl]
      BY <1>3, <1>5
    <3>2. NameOrder[a.purl] < NameOrder[b.purl] \/ NameOrder[b.purl] < NameOrder[a.purl]
      BY <1>2, <3>1
    <3> QED
      BY <1>1, <2>1, <3>2 DEF UpdatedBefore
  <2>2. CASE a.urgency # b.urgency
    <3>1. AfterAt(a.urgency, b.urgency) \/ AfterAt(b.urgency, a.urgency)
      BY <1>2, <2>2, AfterAtPlace
    <3> QED
      BY <1>1, <3>1 DEF UpdatedBefore
  <2> QED
    BY <2>1, <2>2
<1>6. ASSUME NEW a \in S, NEW b \in S, NEW c \in S,
             <<a, b>> \in Sooner(v), <<b, c>> \in Sooner(v)
      PROVE  <<a, c>> \in Sooner(v)
  <2>1. UpdatedBefore(a, b) /\ UpdatedBefore(b, c)
    BY <1>1, <1>6
  <2>2. CASE a.urgency = b.urgency /\ b.urgency = c.urgency
    <3>0. AfterAt(a.urgency, b.urgency) = FALSE /\ AfterAt(b.urgency, c.urgency) = FALSE
      BY <1>2, <2>2, AfterAtOrders DEF AfterAt
    <3>1. NameOrder[a.purl] < NameOrder[b.purl] /\ NameOrder[b.purl] < NameOrder[c.purl]
      BY <2>1, <3>0 DEF UpdatedBefore
    <3>2. NameOrder[a.purl] < NameOrder[c.purl]
      BY <1>2, <3>1
    <3> QED
      BY <1>1, <2>2, <3>2 DEF UpdatedBefore
  <2>3. CASE a.urgency # b.urgency \/ b.urgency # c.urgency
    <3>1. AfterAt(a.urgency, b.urgency) \/ a.urgency = b.urgency
      BY <2>1 DEF UpdatedBefore
    <3>2. AfterAt(b.urgency, c.urgency) \/ b.urgency = c.urgency
      BY <2>1 DEF UpdatedBefore
    <3>3. AfterAt(a.urgency, c.urgency)
      BY <1>2, <2>3, <3>1, <3>2, AfterAtOrders
    <3> QED
      BY <1>1, <3>3 DEF UpdatedBefore
  <2> QED
    BY <2>2, <2>3
<1> QED
  BY <1>4, <1>5, <1>6 DEF Orders, S

\* The groups are listed once each, the more urgent first.
LEMMA GroupsListed ==
    ASSUME NEW v, Decided(v), NEW groups, groups = BuildRemediationGroups(v)
    PROVE  \E n \in Nat :
              /\ groups \in [1 .. n -> GroupsOf(v)]
              /\ \A g \in GroupsOf(v) : \E k \in 1 .. n : groups[k] = g
              /\ \A j, k \in 1 .. n : j < k => UpdatedBefore(groups[j], groups[k])
              /\ \A j, k \in 1 .. n : groups[j] = groups[k] => j = k
<1>1. groups = Ranked(GroupsOf(v), Sooner(v))
  BY DEF BuildRemediationGroups, GroupsOf, Sooner
<1>2. IsFiniteSet(GroupsOf(v)) /\ Orders(Sooner(v), GroupsOf(v))
  BY GroupsSay, GroupsOrdered
<1>3. PICK n : n = Cardinality(GroupsOf(v))
  OBVIOUS
<1>4. /\ n \in Nat /\ groups \in [1 .. n -> GroupsOf(v)]
      /\ \A g \in GroupsOf(v) : \E k \in 1 .. n : groups[k] = g
      /\ \A j, k \in 1 .. n : j < k => <<groups[j], groups[k]>> \in Sooner(v)
      /\ \A j, k \in 1 .. n : groups[j] = groups[k] => j = k
  BY <1>1, <1>2, <1>3, RankedLists
<1>5. \A a, b : <<a, b>> \in Sooner(v) => UpdatedBefore(a, b)
  BY DEF Sooner
<1>6. \A j, k \in 1 .. n : j < k => UpdatedBefore(groups[j], groups[k])
  BY <1>4, <1>5
<1> QED
  BY <1>4, <1>6

(***************************************************************************)
(* The order of versions is a strict one, so the version a group reports is the *)
(* highest.                                                                *)
(***************************************************************************)

\* The greater and the smaller of two numbers.
LEMMA PairOf ==
    ASSUME NEW x \in Nat, NEW y \in Nat
    PROVE  /\ Max({x, y}) \in Nat /\ Max({x, y}) >= x /\ Max({x, y}) >= y
           /\ Min({x, y}) \in {x, y} /\ Min({x, y}) <= x /\ Min({x, y}) <= y
<1>1. IsFiniteSet({x, y})
  <2>1. IsFiniteSet({x}) /\ {x} \cup {y} = {x, y}
    BY FS_Singleton
  <2> QED
    BY <2>1, FS_AddElement
<1>2. {x, y} \in SUBSET Nat /\ {x, y} # {}
  OBVIOUS
<1>3. PICK S : S = {x, y}
  OBVIOUS
<1>4. Max(S) \in S /\ \A z \in S : Max(S) >= z
  BY <1>1, <1>2, <1>3, MaxOf
<1>5. Min(S) \in S /\ \A z \in S : Min(S) <= z
  BY <1>2, <1>3, MinOf
<1> QED
  BY <1>3, <1>4, <1>5

\* The numbers of a version, missing ones included, and their comparison.
Places == Nat \ {0}
\* Two versions agree, or differ first, in their numbers.
Level(a, b) == \A i \in Places : NumberAt(a, i) = NumberAt(b, i)
Bigger(a, b) == \E i \in Places : /\ NumberAt(a, i) > NumberAt(b, i)
                                  /\ \A j \in Places : j < i => NumberAt(a, j) = NumberAt(b, j)

\* The identifiers of a pre-release, and their comparison.
Longer(p, q) == Len(p) > Len(q) /\ \A i \in 1 .. Len(q) : p[i] = q[i]
Greater(p, q) == \E i \in 1 .. Len(p) : /\ i <= Len(q) /\ p[i] > q[i]
                                        /\ \A j \in 1 .. Len(p) : j < i => p[j] = q[j]

\* The numbers and the pre-release of a version are sequences of numbers.
IsNumbered(v) == v.nums \in Seq(Nat) /\ v.pre \in Seq(Nat)

\* What the padded numbers of two versions hold.
LEMMA NumbersAre ==
    ASSUME NEW v, IsNumbered(v)
    PROVE  /\ \A i \in Places : NumberAt(v, i) \in Nat
           /\ \A i \in Places : i > Len(v.nums) => NumberAt(v, i) = 0
BY DEF IsNumbered, NumberAt, Places

\* What compareVersions compares, of numbers of any length.
LEMMA AboveMeans ==
    ASSUME NEW a, NEW b, IsNumbered(a), IsNumbered(b)
    PROVE  Above(a, b) <=> Bigger(a, b) \/ (Level(a, b) /\ PreReleaseAfter(a.pre, b.pre))
<1>1. Len(a.nums) \in Nat /\ Len(b.nums) \in Nat
  BY DEF IsNumbered
<1> DEFINE n == Max({Len(a.nums), Len(b.nums)})
           s == [i \in 1 .. n |-> NumberAt(a, i)]
           t == [i \in 1 .. n |-> NumberAt(b, i)]
<1>3. n \in Nat /\ n >= Len(a.nums) /\ n >= Len(b.nums)
  BY <1>1, PairOf
<1>5. Above(a, b) <=> AfterAt(s, t) \/ (s = t /\ PreReleaseAfter(a.pre, b.pre))
  BY DEF Above
<1> HIDE DEF n
<1>4. s = [i \in 1 .. n |-> NumberAt(a, i)] /\ t = [i \in 1 .. n |-> NumberAt(b, i)]
  OBVIOUS
<1> HIDE DEF s, t
<1>6. \A i \in Places : NumberAt(a, i) \in Nat /\ NumberAt(b, i) \in Nat
  BY NumbersAre
<1>7. \A i \in Places : i \in Nat /\ (i <= n <=> i \in 1 .. n)
  BY <1>3 DEF Places
<1>8. 1 .. n \subseteq Places
  BY DEF Places
<1>9. s \in [1 .. n -> Nat] /\ t \in [1 .. n -> Nat]
  BY <1>4, <1>6, <1>8
<1>10. \A i \in 1 .. n : s[i] = NumberAt(a, i) /\ t[i] = NumberAt(b, i)
  BY <1>4
<1>11. \A i \in Places : i > n => NumberAt(a, i) = NumberAt(b, i)
  <2>1. ASSUME NEW i \in Places, i > n PROVE NumberAt(a, i) = 0 /\ NumberAt(b, i) = 0
    <3>1. i > Len(a.nums) /\ i > Len(b.nums)
      BY <1>1, <1>3, <1>7, <2>1
    <3> QED
      BY <3>1, NumbersAre
  <2> QED
    BY <2>1
<1>12. s = t <=> Level(a, b)
  <2>1. ASSUME Level(a, b) PROVE s = t
    BY <1>4, <1>8, <2>1 DEF Level
  <2>2. ASSUME s = t, NEW i \in Places PROVE NumberAt(a, i) = NumberAt(b, i)
    <3>1. CASE i <= n
      BY <1>7, <1>10, <2>2, <3>1
    <3>2. CASE i > n
      BY <1>11, <3>2
    <3> QED
      BY <1>3, <1>7, <3>1, <3>2
  <2> QED
    BY <2>1, <2>2 DEF Level
<1>13. AfterAt(s, t) <=> Bigger(a, b)
  <2>1. ASSUME NEW i \in 1 .. n, Exceeds(s, t, n, i) PROVE Bigger(a, b)
    <3>1. i \in Places /\ NumberAt(a, i) > NumberAt(b, i)
      BY <1>8, <1>10, <2>1 DEF Exceeds
    <3>2. ASSUME NEW j \in Places, j < i PROVE NumberAt(a, j) = NumberAt(b, j)
      <4>1. j \in 1 .. n
        BY <1>3, <1>7, <3>2
      <4> QED
        BY <1>10, <2>1, <3>2, <4>1 DEF Exceeds
    <3> QED
      BY <3>1, <3>2 DEF Bigger
  <2>2. ASSUME Bigger(a, b) PROVE \E i \in 1 .. n : Exceeds(s, t, n, i)
    <3>1. PICK i \in Places : /\ NumberAt(a, i) > NumberAt(b, i)
                              /\ \A j \in Places : j < i => NumberAt(a, j) = NumberAt(b, j)
      BY <2>2 DEF Bigger
    <3>2. ~ (i > n)
      BY <1>6, <1>11, <3>1
    <3>3. i \in 1 .. n
      BY <1>3, <1>7, <3>2
    <3>4. s[i] > t[i] /\ \A j \in 1 .. n : j < i => s[j] = t[j]
      BY <1>8, <1>10, <3>1, <3>3
    <3>5. Exceeds(s, t, n, i)
      BY <3>3, <3>4 DEF Exceeds
    <3> QED
      BY <3>3, <3>5
  <2> QED
    BY <1>3, <1>9, <2>1, <2>2, AfterAtPlace
<1> QED
  BY <1>5, <1>12, <1>13

\* A pre-release comes after another when it is longer or greater at a place.
LEMMA PreReleaseMeans ==
    ASSUME NEW p \in Seq(Nat), NEW q \in Seq(Nat)
    PROVE  PreReleaseAfter(p, q) <=>
              /\ q # << >>
              /\ p = << >> \/ Longer(p, q) \/ Greater(p, q)
<1>1. Len(p) \in Nat /\ Len(q) \in Nat
  OBVIOUS
<1>2. PICK n : n = Min({Len(p), Len(q)})
  OBVIOUS
<1>3. n \in Nat /\ n <= Len(p) /\ n <= Len(q) /\ (n = Len(p) \/ n = Len(q))
  BY <1>1, <1>2, PairOf
<1>4. PICK s, t : s = SubSeq(p, 1, n) /\ t = SubSeq(q, 1, n)
  OBVIOUS
<1>5. PreReleaseAfter(p, q) <=>
         \/ p = << >> /\ q # << >>
         \/ p # << >> /\ q # << >> /\ s = t /\ Len(p) > Len(q)
         \/ p # << >> /\ q # << >> /\ AfterAt(s, t)
  BY <1>2, <1>4 DEF PreReleaseAfter
<1>6. /\ s \in [1 .. n -> Nat] /\ t \in [1 .. n -> Nat]
      /\ \A i \in 1 .. n : s[i] = p[i] /\ t[i] = q[i]
  <2>1. /\ s \in Seq(Nat) /\ Len(s) = n /\ \A i \in 1 .. n : s[i] = p[i]
    BY <1>1, <1>3, <1>4, SubSeqProperties
  <2>2. /\ t \in Seq(Nat) /\ Len(t) = n /\ \A i \in 1 .. n : t[i] = q[i]
    BY <1>1, <1>3, <1>4, SubSeqProperties
  <2> QED
    BY <2>1, <2>2
<1>7. s = t <=> \A i \in 1 .. n : p[i] = q[i]
  <2>1. ASSUME \A i \in 1 .. n : p[i] = q[i] PROVE s = t
    <3>1. \A i \in 1 .. n : s[i] = t[i]
      BY <1>6, <2>1
    <3>2. s = [i \in 1 .. n |-> s[i]] /\ t = [i \in 1 .. n |-> t[i]]
      BY <1>6
    <3> QED
      BY <3>1, <3>2, Zenon
  <2> QED
    BY <1>6, <2>1
<1>8. s = t /\ Len(p) > Len(q) <=> Longer(p, q)
  BY <1>1, <1>3, <1>7 DEF Longer
<1>9. AfterAt(s, t) <=> Greater(p, q)
  <2>1. ASSUME NEW i \in 1 .. n, Exceeds(s, t, n, i) PROVE Greater(p, q)
    <3>1. i \in 1 .. Len(p) /\ i <= Len(q) /\ p[i] > q[i]
      BY <1>1, <1>3, <1>6, <2>1 DEF Exceeds
    <3>2. ASSUME NEW j \in 1 .. Len(p), j < i PROVE p[j] = q[j]
      <4>1. j \in 1 .. n
        BY <1>1, <1>3, <3>2
      <4>2. s[j] = t[j]
        BY <2>1, <3>2, <4>1 DEF Exceeds
      <4> QED
        BY <1>6, <4>1, <4>2
    <3> QED
      BY <3>1, <3>2 DEF Greater
  <2>2. ASSUME Greater(p, q) PROVE \E i \in 1 .. n : Exceeds(s, t, n, i)
    <3>1. PICK i \in 1 .. Len(p) : /\ i <= Len(q) /\ p[i] > q[i]
                                    /\ \A j \in 1 .. Len(p) : j < i => p[j] = q[j]
      BY <2>2 DEF Greater
    <3>2. i \in 1 .. n
      BY <1>1, <1>3, <3>1
    <3>3. s[i] > t[i]
      BY <1>6, <3>1, <3>2
    <3>4. ASSUME NEW j \in 1 .. n, j < i PROVE s[j] = t[j]
      <4>1. j \in 1 .. Len(p)
        BY <1>1, <1>3
      <4> QED
        BY <1>6, <3>1, <3>4, <4>1
    <3>5. Exceeds(s, t, n, i)
      BY <3>2, <3>3, <3>4 DEF Exceeds
    <3> QED
      BY <3>2, <3>5
  <2> QED
    BY <1>3, <1>6, <2>1, <2>2, AfterAtPlace
<1>10. p = << >> <=> Len(p) = 0
  OBVIOUS
<1>11. p = << >> => ~Longer(p, q) /\ ~Greater(p, q)
  BY <1>1, <1>10 DEF Longer, Greater
<1> QED
  BY <1>5, <1>8, <1>9, <1>11

\* Two sequences agree before the place i.
Agree(p, q, i) == \A j \in Nat : 1 <= j /\ j < i => p[j] = q[j]

\* The comparison of pre-releases is a strict order.
LEMMA PreReleaseOrders ==
    ASSUME NEW p \in Seq(Nat), NEW q \in Seq(Nat), NEW r \in Seq(Nat)
    PROVE  /\ ~PreReleaseAfter(p, p)
           /\ PreReleaseAfter(p, q) /\ PreReleaseAfter(q, r) => PreReleaseAfter(p, r)
<1>1. Len(p) \in Nat /\ Len(q) \in Nat /\ Len(r) \in Nat
  OBVIOUS
<1>2. /\ \A i \in 1 .. Len(p) : i \in Nat /\ p[i] \in Nat
      /\ \A i \in 1 .. Len(q) : i \in Nat /\ q[i] \in Nat
      /\ \A i \in 1 .. Len(r) : i \in Nat /\ r[i] \in Nat
  OBVIOUS
<1>a. ASSUME NEW x \in {p, q, r}, NEW y \in {p, q, r}
      PROVE  /\ Longer(x, y) <=> Len(x) > Len(y) /\ Agree(x, y, Len(y) + 1)
             /\ Greater(x, y) <=> \E i \in Nat : /\ 1 <= i /\ i <= Len(x) /\ i <= Len(y)
                                                 /\ x[i] > y[i] /\ Agree(x, y, i)
  <2>0. Len(x) \in Nat /\ Len(y) \in Nat
    BY <1>1
  <2>1. Longer(x, y) <=> Len(x) > Len(y) /\ Agree(x, y, Len(y) + 1)
    BY <2>0 DEF Longer, Agree
  <2>2. ASSUME NEW i \in 1 .. Len(x)
        PROVE  (\A j \in 1 .. Len(x) : j < i => x[j] = y[j]) <=> Agree(x, y, i)
    BY <2>0 DEF Agree
  <2>3. Greater(x, y) <=> \E i \in 1 .. Len(x) : i <= Len(y) /\ x[i] > y[i] /\ Agree(x, y, i)
    BY <2>2 DEF Greater
  <2> QED
    BY <2>0, <2>1, <2>3
<1>c. /\ \A i \in Nat : 1 <= i /\ i <= Len(p) => p[i] \in Nat
      /\ \A i \in Nat : 1 <= i /\ i <= Len(q) => q[i] \in Nat
      /\ \A i \in Nat : 1 <= i /\ i <= Len(r) => r[i] \in Nat
  BY <1>1
<1>3. ~PreReleaseAfter(p, p)
  <2>1. ~Longer(p, p) /\ ~Greater(p, p)
    BY <1>1, <1>a, <1>c
  <2> QED
    BY <2>1, PreReleaseMeans
<1>4. ASSUME Longer(p, q), Longer(q, r) PROVE Longer(p, r)
  <2>1. Len(p) > Len(q) /\ Len(q) > Len(r) /\ Agree(p, q, Len(q) + 1) /\ Agree(q, r, Len(r) + 1)
    BY <1>a, <1>4
  <2>2. Agree(p, r, Len(r) + 1)
    BY <1>1, <2>1 DEF Agree
  <2> QED
    BY <1>1, <1>a, <2>1, <2>2
<1>5. ASSUME Longer(p, q), Greater(q, r) PROVE Greater(p, r)
  <2>1. Len(p) > Len(q) /\ Agree(p, q, Len(q) + 1)
    BY <1>a, <1>5
  <2>2. PICK i \in Nat : /\ 1 <= i /\ i <= Len(q) /\ i <= Len(r)
                         /\ q[i] > r[i] /\ Agree(q, r, i)
    BY <1>a, <1>5
  <2>3. Agree(p, r, i) /\ p[i] = q[i]
    BY <1>1, <2>1, <2>2 DEF Agree
  <2>4. i <= Len(p) /\ p[i] > r[i]
    BY <1>1, <2>1, <2>2, <2>3
  <2> QED
    BY <1>a, <2>2, <2>3, <2>4
<1>6. ASSUME Greater(p, q), Longer(q, r) PROVE Longer(p, r) \/ Greater(p, r)
  <2>1. Len(q) > Len(r) /\ Agree(q, r, Len(r) + 1)
    BY <1>a, <1>6
  <2>2. PICK i \in Nat : /\ 1 <= i /\ i <= Len(p) /\ i <= Len(q)
                         /\ p[i] > q[i] /\ Agree(p, q, i)
    BY <1>a, <1>6
  <2>3. CASE i <= Len(r)
    <3>1. Agree(p, r, i) /\ q[i] = r[i]
      BY <1>1, <2>1, <2>2, <2>3 DEF Agree
    <3>2. p[i] > r[i]
      BY <2>2, <3>1
    <3> QED
      BY <1>a, <2>2, <2>3, <3>1, <3>2
  <2>4. CASE i > Len(r)
    <3>1. Agree(p, r, Len(r) + 1) /\ Len(p) > Len(r)
      BY <1>1, <2>1, <2>2, <2>4 DEF Agree
    <3> QED
      BY <1>a, <3>1
  <2> QED
    BY <1>1, <2>3, <2>4
<1>7. ASSUME Greater(p, q), Greater(q, r) PROVE Greater(p, r)
  <2>1. PICK i \in Nat : /\ 1 <= i /\ i <= Len(p) /\ i <= Len(q)
                         /\ p[i] > q[i] /\ Agree(p, q, i)
    BY <1>a, <1>7
  <2>2. PICK k \in Nat : /\ 1 <= k /\ k <= Len(q) /\ k <= Len(r)
                         /\ q[k] > r[k] /\ Agree(q, r, k)
    BY <1>a, <1>7
  <2>3. CASE i <= k
    <3>1. Agree(p, r, i) /\ (i < k => q[i] = r[i])
      BY <2>1, <2>2, <2>3 DEF Agree
    <3>2. i <= Len(r) /\ p[i] > r[i]
      <4>0. i <= Len(q) /\ i <= Len(r)
        BY <1>1, <2>1, <2>2, <2>3
      <4>1. p[i] \in Nat /\ q[i] \in Nat /\ r[i] \in Nat /\ i <= Len(r)
        BY <1>c, <2>1, <4>0
      <4>2. q[i] >= r[i]
        BY <2>2, <2>3, <3>1, <4>1
      <4> QED
        BY <2>1, <4>1, <4>2
    <3> QED
      BY <1>a, <2>1, <3>1, <3>2
  <2>4. CASE k < i
    <3>1. Agree(p, r, k) /\ p[k] = q[k] /\ k <= Len(p)
      BY <1>1, <2>1, <2>2, <2>4 DEF Agree
    <3>2. p[k] > r[k]
      BY <2>2, <3>1
    <3> QED
      BY <1>a, <2>2, <3>1, <3>2
  <2> QED
    BY <2>3, <2>4
<1> QED
  BY <1>3, <1>4, <1>5, <1>6, <1>7, PreReleaseMeans

\* No version is above itself; one above another is above all the other is.
LEMMA AboveOrders ==
    ASSUME NEW a, NEW b, NEW c, IsNumbered(a), IsNumbered(b), IsNumbered(c)
    PROVE  ~Above(a, a) /\ (Above(a, b) /\ Above(b, c) => Above(a, c))
<1>1. \A i \in Places : /\ i \in Nat
                        /\ NumberAt(a, i) \in Nat /\ NumberAt(b, i) \in Nat
                        /\ NumberAt(c, i) \in Nat
  BY NumbersAre DEF Places
<1>2. ~Bigger(a, a)
  BY <1>1 DEF Bigger
<1>3. ASSUME Bigger(a, b), Bigger(b, c) PROVE Bigger(a, c)
  <2>1. PICK i \in Places : /\ NumberAt(a, i) > NumberAt(b, i)
                            /\ \A j \in Places : j < i => NumberAt(a, j) = NumberAt(b, j)
    BY <1>3 DEF Bigger
  <2>2. PICK k \in Places : /\ NumberAt(b, k) > NumberAt(c, k)
                            /\ \A j \in Places : j < k => NumberAt(b, j) = NumberAt(c, j)
    BY <1>3 DEF Bigger
  <2>3. CASE i <= k
    <3>1. NumberAt(a, i) > NumberAt(c, i)
      BY <1>1, <2>1, <2>2, <2>3
    <3>2. \A j \in Places : j < i => NumberAt(a, j) = NumberAt(c, j)
      BY <1>1, <2>1, <2>2, <2>3
    <3> QED
      BY <3>1, <3>2 DEF Bigger
  <2>4. CASE k < i
    <3>1. NumberAt(a, k) > NumberAt(c, k)
      BY <1>1, <2>1, <2>2, <2>4
    <3>2. \A j \in Places : j < k => NumberAt(a, j) = NumberAt(c, j)
      BY <1>1, <2>1, <2>2, <2>4
    <3> QED
      BY <3>1, <3>2 DEF Bigger
  <2> QED
    BY <1>1, <2>3, <2>4
<1>4. ASSUME Bigger(a, b), Level(b, c) PROVE Bigger(a, c)
  BY <1>4 DEF Bigger, Level
<1>5. ASSUME Level(a, b), Bigger(b, c) PROVE Bigger(a, c)
  BY <1>5 DEF Bigger, Level
<1>6. ASSUME Level(a, b), Level(b, c) PROVE Level(a, c)
  BY <1>6 DEF Level
<1>7. /\ ~PreReleaseAfter(a.pre, a.pre)
      /\ PreReleaseAfter(a.pre, b.pre) /\ PreReleaseAfter(b.pre, c.pre)
            => PreReleaseAfter(a.pre, c.pre)
  BY PreReleaseOrders DEF IsNumbered
<1> QED
  BY <1>2, <1>3, <1>4, <1>5, <1>6, <1>7, AboveMeans

\* A version reported for a group fixes what it claims: no fix of the group is
\* above it, and it is above the version installed.
LEMMA FixedIsHighest ==
    ASSUME NEW fs \in SUBSET Findings, NEW installed, NEW x,
           x = ReportedFixedVersion(fs, installed), x.given
    PROVE  /\ IsVersion(installed) => Above(x, installed)
           /\ \A y \in Fixes(fs) : IsVersion(y) /\ ~Above(y, x)
<1> DEFINE fixes == Fixes(fs)
<1>1. x # NoFix
  BY DEF NoFix
<1>2. fixes # {} /\ \A y \in fixes : UpgradeTarget(y, installed)
  BY <1>1 DEF ReportedFixedVersion
<1>3. x = CHOOSE y \in fixes : \A z \in fixes : ~Above(z, y)
  BY <1>2 DEF ReportedFixedVersion
<1>4. ASSUME NEW y \in fixes PROVE IsNumbered(y)
  BY SignalsAreTyped DEF Fixes, Signal, Fix, IsNumbered
<1>5. IsFiniteSet(fixes)
  <2> DEFINE given == {g \in fs : Signals[g].fixed.given}
             m == [g \in given |-> Signals[g].fixed]
  <2>1. IsFiniteSet(given)
    BY SignalsAreTyped, FS_Subset
  <2>2. m \in Surjection(given, fixes)
    BY DEF Surjection, Fixes
  <2> HIDE DEF m, given
  <2> QED
    BY <2>1, <2>2, FS_Surjection
<1> DEFINE above == {p \in fixes \X fixes : Above(p[1], p[2])}
<1>6. \A y, z \in fixes : <<y, z>> \in above <=> Above(y, z)
  OBVIOUS
<1> HIDE DEF fixes, above
<1>7. /\ \A y \in fixes : <<y, y>> \notin above
      /\ \A y, z, w \in fixes : <<y, z>> \in above /\ <<z, w>> \in above => <<y, w>> \in above
  BY <1>4, <1>6, AboveOrders
<1>8. \E y \in fixes : \A z \in fixes : <<z, y>> \notin above
  BY <1>2, <1>5, <1>7, HighestExists
<1>9. x \in fixes /\ \A z \in fixes : ~Above(z, x)
  BY <1>3, <1>6, <1>8
<1> QED
  BY <1>2, <1>9 DEF UpgradeTarget, fixes

(***************************************************************************)
(* The sections of a report and the findings in them.                      *)
(***************************************************************************)

\* The sections a report may have.
SectionNames == {"update-first", "insufficient-information", "no-direct-usage", "lower-priority"}

\* The findings of a group that stay with its main entry.
Main(g, v) == g.findings \ Moved(g, v)

\* Where a package is filed besides among those without direct usage.
LEMMA FiledSays ==
    ASSUME NEW v, NEW g, GroupSays(g, v)
    PROVE  /\ FiledUnder(g, v) \subseteq {"update-first", "insufficient-information",
                                          "lower-priority"}
           /\ \A s, t \in FiledUnder(g, v) : s = t
           /\ Main(g, v) # {} => FiledUnder(g, v) # {}
           /\ Main(g, v) = {} => FiledUnder(g, v) \subseteq {"update-first"}
           /\ "update-first" \in FiledUnder(g, v) <=> ActNow(g.findings, v) # {}
           /\ (\E f \in Main(g, v) : v[f].state \in {"unknown", "unsupported"}) =>
                 FiledUnder(g, v) \subseteq {"update-first", "insufficient-information"}
<1> DEFINE main == Main(g, v)
           moved == Moved(g, v)
<1>1. FiledUnder(g, v) = IF \E f \in moved : v[f].band = "act_now" THEN {"update-first"}
                         ELSE IF main = {} THEN {} ELSE {ClassifyGroup(main, v)}
  BY DEF FiledUnder, MainSection, Main
<1>2. /\ ClassifyGroup(main, v) \in {"update-first", "insufficient-information",
                                     "lower-priority"}
      /\ ClassifyGroup(main, v) = "update-first" <=> \E f \in main : v[f].band = "act_now"
      /\ (\E f \in main : v[f].state \in {"unknown", "unsupported"}) =>
            ClassifyGroup(main, v) # "lower-priority"
  <2>1. CASE \E f \in main : v[f].band = "act_now"
    <3>1. ClassifyGroup(main, v) = "update-first"
      BY <2>1 DEF ClassifyGroup
    <3> QED
      BY <2>1, <3>1
  <2>2. CASE ~(\E f \in main : v[f].band = "act_now")
    <3> DEFINE doubt == \E f \in main : \/ v[f].band = "insufficient_information"
                                        \/ v[f].state \in {"unknown", "unsupported"}
    <3>1. ClassifyGroup(main, v) = IF doubt THEN "insufficient-information" ELSE "lower-priority"
      BY <2>2 DEF ClassifyGroup
    <3> QED
      BY <2>2, <3>1
  <2> QED
    BY <2>1, <2>2
<1>3. g.findings = main \cup moved
  BY DEF Main, Moved
<1>4. ActNow(g.findings, v) # {} <=>
         (\E f \in main : v[f].band = "act_now") \/ (\E f \in moved : v[f].band = "act_now")
  BY <1>3 DEF ActNow
<1> HIDE DEF main, moved
<1> QED
  BY <1>1, <1>2, <1>4 DEF main

\* The fields of an entry.
LEMMA EntrySays ==
    ASSUME NEW v, NEW g, GroupSays(g, v), NEW s \in SectionsOf(g, v), NEW e, e = Entry(g, s, v)
    PROVE  /\ e.purl = g.purl /\ e.section = s /\ e.fixed = g.fixed
           /\ s \in SectionNames
           /\ e.findings = IF s = "no-direct-usage" THEN Moved(g, v) ELSE Main(g, v)
           /\ e.findings \subseteq g.findings
           /\ e.findings = {} => s = "update-first"
           /\ s # "no-direct-usage" => s \in FiledUnder(g, v)
           /\ Cardinality(e.findings) + e.elsewhere = e.total
<1> DEFINE main == Main(g, v)
           moved == Moved(g, v)
           filed == FiledUnder(g, v)
<1>1. /\ e.purl = g.purl /\ e.section = s /\ e.fixed = g.fixed
      /\ e.findings = IF s = "no-direct-usage" THEN moved ELSE main
      /\ e.total = Cardinality(g.findings)
      /\ e.elsewhere = IF s # "no-direct-usage" THEN Cardinality(moved)
                       ELSE IF filed = {} THEN 0 ELSE Cardinality(main)
  BY DEF Entry, Main
<1>2. g.findings = main \cup moved /\ main \cap moved = {}
  BY DEF Main, Moved
<1>3. IsFiniteSet(main) /\ IsFiniteSet(moved)
  BY FS_Subset DEF Main, Moved, GroupSays
<1>4. s \in filed \/ (s = "no-direct-usage" /\ moved # {})
  BY DEF SectionsOf
<1> HIDE DEF main, moved, filed
<1>5. Cardinality(g.findings) = Cardinality(main) + Cardinality(moved)
  <2>1. Cardinality(main \cup moved)
           = Cardinality(main) + Cardinality(moved) - Cardinality(main \cap moved)
    BY <1>3, FS_Union
  <2>2. Cardinality(main \cap moved) = 0
    BY <1>2, FS_EmptySet
  <2>3. Cardinality(main) \in Nat /\ Cardinality(moved) \in Nat
    BY <1>3, FS_CardinalityType
  <2> QED
    BY <1>2, <2>1, <2>2, <2>3
<1>6. Cardinality(main) \in Nat /\ Cardinality(moved) \in Nat /\ Cardinality({}) = 0
  BY <1>3, FS_CardinalityType, FS_EmptySet
<1>7. /\ filed \subseteq {"update-first", "insufficient-information", "lower-priority"}
      /\ main # {} => filed # {}
      /\ main = {} => filed \subseteq {"update-first"}
  BY FiledSays DEF filed, main
<1>8. Cardinality(e.findings) + e.elsewhere = e.total
  <2>1. CASE s # "no-direct-usage"
    BY <1>1, <1>5, <1>6, <2>1
  <2>2. CASE s = "no-direct-usage" /\ filed # {}
    BY <1>1, <1>5, <1>6, <2>2
  <2>3. CASE s = "no-direct-usage" /\ filed = {}
    <3>1. main = {} /\ e.elsewhere = 0 /\ e.findings = moved
      BY <1>1, <1>7, <2>3
    <3>2. Cardinality(main) = 0
      BY <1>6, <3>1
    <3> QED
      BY <1>1, <1>5, <1>6, <3>1, <3>2
  <2> QED
    BY <2>1, <2>2, <2>3
<1>9. /\ s \in SectionNames
      /\ s # "no-direct-usage" => s \in filed
      /\ e.findings = {} => s = "update-first"
  BY <1>1, <1>4, <1>7 DEF SectionNames
<1>10. e.findings \subseteq g.findings
  BY <1>1, <1>2
<1> QED
  BY <1>1, <1>8, <1>9, <1>10 DEF main, moved, filed

\* Every finding of a group is listed in one of its sections, and in one only.
LEMMA FindingsFiled ==
    ASSUME NEW v, NEW g, GroupSays(g, v), NEW f \in g.findings
    PROVE  /\ \E s \in SectionsOf(g, v) : f \in Entry(g, s, v).findings
           /\ \A s, t \in SectionsOf(g, v) :
                 f \in Entry(g, s, v).findings /\ f \in Entry(g, t, v).findings => s = t
<1>1. \A s \in SectionsOf(g, v) :
         Entry(g, s, v).findings = IF s = "no-direct-usage" THEN Moved(g, v) ELSE Main(g, v)
  BY EntrySays
<1>2. \A s \in SectionsOf(g, v) : s # "no-direct-usage" => s \in FiledUnder(g, v)
  BY EntrySays
<1>3. \A s, t \in FiledUnder(g, v) : s = t
  BY FiledSays
<1>4. f \in Moved(g, v) <=> ~(f \in Main(g, v))
  BY DEF Main, Moved
<1>5. ASSUME f \in Main(g, v) PROVE \E s \in SectionsOf(g, v) : s # "no-direct-usage"
  <2>1. PICK s \in FiledUnder(g, v) : TRUE
    BY <1>5, FiledSays
  <2>2. s \in SectionsOf(g, v) /\ s # "no-direct-usage"
    BY <2>1, FiledSays DEF SectionsOf
  <2> QED
    BY <2>2
<1>6. ASSUME f \in Moved(g, v) PROVE "no-direct-usage" \in SectionsOf(g, v)
  BY <1>6 DEF SectionsOf
<1> QED
  BY <1>1, <1>2, <1>3, <1>4, <1>5, <1>6

\* The entries of a section: one for each group that has one, in their order.
Lists(groups, name, v, m, from, list) ==
    /\ m \in Nat /\ from \in [1 .. m -> GroupsOf(v)] /\ DOMAIN list = 1 .. m
    /\ \A k \in 1 .. m : list[k] = Entry(from[k], name, v) /\ name \in SectionsOf(from[k], v)
    /\ \A g \in GroupsOf(v) : name \in SectionsOf(g, v) => \E k \in 1 .. m : from[k] = g
    /\ \A j, k \in 1 .. m : j < k => UpdatedBefore(from[j], from[k])
    /\ \A j, k \in 1 .. m : from[j] = from[k] => j = k

\* The entries of a section are listed so.
LEMMA ListedSays ==
    ASSUME NEW v, Decided(v), NEW groups, groups = BuildRemediationGroups(v),
           NEW name, NEW list, list = Listed(groups, name, v)
    PROVE  \E m \in Nat, from \in [DOMAIN list -> GroupsOf(v)] :
              Lists(groups, name, v, m, from, list)
<1>1. PICK n \in Nat : /\ groups \in [1 .. n -> GroupsOf(v)]
                       /\ \A g \in GroupsOf(v) : \E k \in 1 .. n : groups[k] = g
                       /\ \A j, k \in 1 .. n : j < k => UpdatedBefore(groups[j], groups[k])
                       /\ \A j, k \in 1 .. n : groups[j] = groups[k] => j = k
  BY GroupsListed
<1>2. PICK at : at = {i \in DOMAIN groups : name \in SectionsOf(groups[i], v)}
  OBVIOUS
<1>3. at \in SUBSET (1 .. n) /\ \A i \in 1 .. n : i \in at <=> name \in SectionsOf(groups[i], v)
  BY <1>1, <1>2
<1>4. PICK filed : filed = Only(groups, at)
  OBVIOUS
<1>5. PICK order : Selects(groups, at, filed, order)
  BY <1>3, <1>4, OnlySelects
<1>6. PICK m : m = Cardinality(at)
  OBVIOUS
<1>7. /\ m \in Nat /\ DOMAIN filed = 1 .. m /\ order \in [1 .. m -> at]
      /\ \A k \in 1 .. m : filed[k] = groups[order[k]]
      /\ \A i \in at : \E k \in 1 .. m : order[k] = i
      /\ \A j, k \in 1 .. m : j < k => order[j] < order[k]
      /\ \A j, k \in 1 .. m : order[j] = order[k] => j = k
  BY <1>5, <1>6 DEF Selects
<1>8. list = [k \in DOMAIN filed |-> Entry(filed[k], name, v)]
  BY <1>2, <1>4 DEF Listed
<1>9. \A k \in 1 .. m : order[k] \in 1 .. n /\ order[k] \in at
  BY <1>3, <1>7
<1> DEFINE from == [k \in 1 .. m |-> groups[order[k]]]
<1>10. from \in [1 .. m -> GroupsOf(v)] /\ \A k \in 1 .. m : from[k] = groups[order[k]]
  BY <1>1, <1>9
<1> HIDE DEF from
<1>11. DOMAIN list = 1 .. m /\ \A k \in 1 .. m : list[k] = Entry(from[k], name, v)
  BY <1>7, <1>8, <1>10
<1>12. \A k \in 1 .. m : name \in SectionsOf(from[k], v)
  BY <1>3, <1>9, <1>10
<1>13. ASSUME NEW g \in GroupsOf(v), name \in SectionsOf(g, v) PROVE \E k \in 1 .. m : from[k] = g
  <2>1. PICK i \in 1 .. n : groups[i] = g
    BY <1>1
  <2>2. i \in at
    BY <1>3, <1>13, <2>1
  <2>3. PICK k \in 1 .. m : order[k] = i
    BY <1>7, <2>2
  <2> QED
    BY <1>10, <2>1, <2>3
<1>14. \A j, k \in 1 .. m : j < k => UpdatedBefore(from[j], from[k])
  BY <1>1, <1>7, <1>9, <1>10
<1>15. \A j, k \in 1 .. m : from[j] = from[k] => j = k
  BY <1>1, <1>7, <1>9, <1>10
<1>16. Lists(groups, name, v, m, from, list)
  BY <1>7, <1>10, <1>11, <1>12, <1>13, <1>14, <1>15 DEF Lists
<1> QED
  BY <1>7, <1>10, <1>11, <1>16

\* What a filter leaves of an entry, and what it hides.
Shown(filter, g, name, v) ==
    [Entry(g, name, v) EXCEPT !.findings = Kept(filter, Entry(g, name, v), v)]
\* The findings a filter hides of an entry.
Gone(filter, e, v) == e.findings \ Kept(filter, e, v)

\* The groups with an entry in a section, and what a filter hides of it.
InSection(name, v) == {g \in GroupsOf(v) : name \in SectionsOf(g, v)}
GoneFrom(filter, name, v) == UNION {Gone(filter, Entry(g, name, v), v) : g \in InSection(name, v)}

\* A section of the report: the entries that stay, in order, and the number of
\* findings hidden.
Views(filter, name, v, w, c, from) ==
    /\ w.section = name
    /\ IsFiniteSet(GoneFrom(filter, name, v))
    /\ w.hidden = Cardinality(GoneFrom(filter, name, v))
    /\ c \in Nat /\ from \in [1 .. c -> InSection(name, v)] /\ DOMAIN w.entries = 1 .. c
    /\ \A k \in 1 .. c : /\ w.entries[k] = Shown(filter, from[k], name, v)
                         /\ Stays(filter, Entry(from[k], name, v), v)
    /\ \A g \in InSection(name, v) :
          Stays(filter, Entry(g, name, v), v) => \E k \in 1 .. c : from[k] = g
    /\ \A j, k \in 1 .. c : j < k => UpdatedBefore(from[j], from[k])

\* The number a section calls hidden is how many findings it hides.
LEMMA HiddenCounts ==
    ASSUME NEW v, Decided(v), NEW filter, NEW name, NEW groups, NEW m, NEW from, NEW list,
           Lists(groups, name, v, m, from, list),
           NEW s, s.entries = list
    PROVE  /\ IsFiniteSet(GoneFrom(filter, name, v))
           /\ Hidden(filter, s, v) = Cardinality(GoneFrom(filter, name, v))
<1> DEFINE gone == [k \in 1 .. m |-> Gone(filter, list[k], v)]
           h == [i \in DOMAIN list |-> Cardinality(list[i].findings \ Kept(filter, list[i], v))]
<1>1. /\ m \in Nat /\ from \in [1 .. m -> GroupsOf(v)] /\ DOMAIN list = 1 .. m
      /\ \A k \in 1 .. m : list[k] = Entry(from[k], name, v) /\ name \in SectionsOf(from[k], v)
      /\ \A g \in GroupsOf(v) : name \in SectionsOf(g, v) => \E k \in 1 .. m : from[k] = g
      /\ \A j, k \in 1 .. m : from[j] = from[k] => j = k
  BY DEF Lists
<1>2. Hidden(filter, s, v) = SumFunction(h)
  BY DEF Hidden
<1>3. DOMAIN h = 1 .. m /\ \A k \in 1 .. m : h[k] = Cardinality(gone[k])
  BY <1>1 DEF Gone
<1>4. ASSUME NEW k \in 1 .. m
      PROVE  /\ GroupSays(from[k], v)
             /\ gone[k] \subseteq from[k].findings /\ IsFiniteSet(gone[k])
             /\ from[k].findings = FindingsAt(v, from[k].purl)
  <2>1. from[k] \in GroupsOf(v) /\ name \in SectionsOf(from[k], v)
        /\ list[k] = Entry(from[k], name, v)
    BY <1>1
  <2>2. GroupSays(from[k], v)
    BY <2>1, GroupsSay
  <2>3. list[k].findings \subseteq from[k].findings
    BY <2>1, <2>2, EntrySays
  <2>4. gone[k] \subseteq from[k].findings
    BY <2>3 DEF Gone
  <2>5. IsFiniteSet(from[k].findings) /\ from[k].findings = FindingsAt(v, from[k].purl)
    BY <2>2 DEF GroupSays
  <2> HIDE DEF gone
  <2> QED
    BY <2>2, <2>4, <2>5, FS_Subset
<1> HIDE DEF h, gone
<1>5. ASSUME NEW j \in 1 .. m, NEW k \in 1 .. m, j # k PROVE gone[j] \cap gone[k] = {}
  <2>1. from[j] # from[k] /\ from[j] \in GroupsOf(v) /\ from[k] \in GroupsOf(v)
    BY <1>1, <1>5
  <2>2. from[j].purl # from[k].purl
    BY <2>1, GroupsSay
  <2> QED
    BY <1>4, <2>2 DEF FindingsAt
<1>6. IsFiniteSet(1 .. m)
  BY <1>1, FS_Interval
<1>7. Apart(gone, 1 .. m)
  BY <1>4, <1>5 DEF Apart
<1>8. /\ IsFiniteSet(Parts(gone, 1 .. m))
      /\ SumFunction(h) = Cardinality(Parts(gone, 1 .. m))
  BY <1>3, <1>6, <1>7, SumOfParts
<1>9. Parts(gone, 1 .. m) = GoneFrom(filter, name, v)
  <2>1. \A k \in 1 .. m : /\ gone[k] = Gone(filter, Entry(from[k], name, v), v)
                          /\ from[k] \in InSection(name, v)
    BY <1>1 DEF gone, InSection
  <2>2. \A g \in InSection(name, v) : \E k \in 1 .. m : from[k] = g
    BY <1>1 DEF InSection
  <2> QED
    BY <2>1, <2>2 DEF Parts, GoneFrom
<1> QED
  BY <1>2, <1>8, <1>9

\* A filter leaves a section with such a view.
LEMMA ViewSays ==
    ASSUME NEW v, Decided(v), NEW groups, groups = BuildRemediationGroups(v), NEW filter,
           NEW name, NEW s, s.section = name, s.entries = Listed(groups, name, v),
           NEW w, w = View(filter, s, v)
    PROVE  \E c \in Nat, from \in [DOMAIN w.entries -> InSection(name, v)] :
              Views(filter, name, v, w, c, from)
<1>1. PICK list : list = Listed(groups, name, v)
  OBVIOUS
<1>2. PICK m \in Nat, all \in [DOMAIN list -> GroupsOf(v)] : Lists(groups, name, v, m, all, list)
  BY <1>1, ListedSays
<1>3. /\ m \in Nat /\ all \in [1 .. m -> GroupsOf(v)] /\ DOMAIN list = 1 .. m
      /\ \A k \in 1 .. m : list[k] = Entry(all[k], name, v) /\ name \in SectionsOf(all[k], v)
      /\ \A g \in GroupsOf(v) : name \in SectionsOf(g, v) => \E k \in 1 .. m : all[k] = g
      /\ \A j, k \in 1 .. m : j < k => UpdatedBefore(all[j], all[k])
  BY <1>2 DEF Lists
<1>4. PICK at : at = {i \in DOMAIN list : Stays(filter, list[i], v)}
  OBVIOUS
<1>5. PICK left : left = Only(list, at)
  OBVIOUS
<1>6. w = [section |-> name, hidden |-> Hidden(filter, s, v),
           entries |-> [k \in DOMAIN left |->
                           [left[k] EXCEPT !.findings = Kept(filter, left[k], v)]]]
  BY <1>1, <1>4, <1>5 DEF View
<1>7. at \in SUBSET (1 .. m) /\ \A i \in 1 .. m : i \in at <=> Stays(filter, list[i], v)
  BY <1>3, <1>4
<1>8. PICK order : Selects(list, at, left, order)
  BY <1>3, <1>5, <1>7, OnlySelects
<1>9. PICK c : c = Cardinality(at)
  OBVIOUS
<1>10. /\ c \in Nat /\ DOMAIN left = 1 .. c /\ order \in [1 .. c -> at]
       /\ \A k \in 1 .. c : left[k] = list[order[k]]
       /\ \A i \in at : \E k \in 1 .. c : order[k] = i
       /\ \A j, k \in 1 .. c : j < k => order[j] < order[k]
  BY <1>8, <1>9 DEF Selects
<1> DEFINE from == [k \in 1 .. c |-> all[order[k]]]
<1>11. \A k \in 1 .. c : order[k] \in 1 .. m /\ order[k] \in at
  BY <1>7, <1>10
<1>12. from \in [1 .. c -> InSection(name, v)] /\ \A k \in 1 .. c : from[k] = all[order[k]]
  BY <1>3, <1>11 DEF InSection
<1> HIDE DEF from
<1>13. DOMAIN w.entries = 1 .. c /\ w.section = name /\ w.hidden = Hidden(filter, s, v)
  BY <1>6, <1>10
<1>14. ASSUME NEW k \in 1 .. c
       PROVE  /\ w.entries[k] = Shown(filter, from[k], name, v)
              /\ Stays(filter, Entry(from[k], name, v), v)
  <2>1. left[k] = Entry(from[k], name, v) /\ Stays(filter, left[k], v)
    BY <1>3, <1>7, <1>10, <1>11, <1>12
  <2>2. w.entries[k] = [left[k] EXCEPT !.findings = Kept(filter, left[k], v)]
    BY <1>6, <1>10
  <2> QED
    BY <2>1, <2>2 DEF Shown
<1>15. ASSUME NEW g \in InSection(name, v), Stays(filter, Entry(g, name, v), v)
       PROVE  \E k \in 1 .. c : from[k] = g
  <2>1. PICK i \in 1 .. m : all[i] = g
    BY <1>3 DEF InSection
  <2>2. i \in at
    BY <1>3, <1>7, <1>15, <2>1
  <2>3. PICK k \in 1 .. c : order[k] = i
    BY <1>10, <2>2
  <2> QED
    BY <1>12, <2>1, <2>3
<1>16. \A j, k \in 1 .. c : j < k => UpdatedBefore(from[j], from[k])
  BY <1>3, <1>10, <1>11, <1>12
<1>17. /\ IsFiniteSet(GoneFrom(filter, name, v))
       /\ Hidden(filter, s, v) = Cardinality(GoneFrom(filter, name, v))
  BY <1>1, <1>2, HiddenCounts
<1>18. Views(filter, name, v, w, c, from)
  BY <1>10, <1>12, <1>13, <1>14, <1>15, <1>16, <1>17 DEF Views
<1> QED
  BY <1>10, <1>12, <1>13, <1>18

\* The sections of a report, in their order.
Sections(filter, v, sections, m) ==
    /\ m \in Nat /\ DOMAIN sections = 1 .. m
    /\ \A i \in 1 .. m : /\ sections[i].section \in SectionNames
                         /\ \E c \in Nat, from \in [DOMAIN sections[i].entries ->
                                                       InSection(sections[i].section, v)] :
                               Views(filter, sections[i].section, v, sections[i], c, from)
    /\ \A i, j \in 1 .. m : sections[i].section = sections[j].section => i = j
    /\ \A name \in SectionNames :
          \/ InSection(name, v) # {}
          \/ name \in {"insufficient-information", "no-direct-usage"}
          => \E i \in 1 .. m : sections[i].section = name

\* The report has these sections.
LEMMA ReportSays ==
    ASSUME NEW v, Decided(v), NEW groups, groups = BuildRemediationGroups(v), NEW filter,
           NEW sections, sections = Apply(BuildReport(groups, v), filter, v)
    PROVE  \E m \in Nat : Sections(filter, v, sections, m)
<1>1. PICK full : full = [i \in DOMAIN SectionOrder |->
                             [section |-> SectionOrder[i], hidden |-> 0,
                              entries |-> Listed(groups, SectionOrder[i], v)]]
  OBVIOUS
<1>2. DOMAIN SectionOrder = 1 .. 4
  BY DEF SectionOrder
<1>3. /\ DOMAIN full = 1 .. 4
      /\ \A i \in 1 .. 4 : /\ full[i].section = SectionOrder[i]
                           /\ full[i].entries = Listed(groups, SectionOrder[i], v)
  BY <1>1, <1>2
<1>4. /\ \A i \in 1 .. 4 : SectionOrder[i] \in SectionNames
      /\ \A i, j \in 1 .. 4 : SectionOrder[i] = SectionOrder[j] => i = j
      /\ \A name \in SectionNames : \E i \in 1 .. 4 : SectionOrder[i] = name
  <2>1. /\ SectionOrder[1] = "update-first" /\ SectionOrder[2] = "insufficient-information"
        /\ SectionOrder[3] = "no-direct-usage" /\ SectionOrder[4] = "lower-priority"
    BY DEF SectionOrder
  <2>2. \A i \in 1 .. 4 : i = 1 \/ i = 2 \/ i = 3 \/ i = 4
    OBVIOUS
  <2> QED
    BY <2>1, <2>2 DEF SectionNames
<1>5. PICK at : at = {i \in DOMAIN full :
                         \/ full[i].entries # << >>
                         \/ full[i].section \in {"insufficient-information", "no-direct-usage"}}
  OBVIOUS
<1>6. PICK report : report = Only(full, at)
  OBVIOUS
<1>7. sections = [i \in DOMAIN report |-> View(filter, report[i], v)]
  BY <1>1, <1>5, <1>6 DEF Apply, BuildReport
<1>8. /\ at \in SUBSET (1 .. 4)
      /\ \A i \in 1 .. 4 : i \in at <=>
            \/ full[i].entries # << >>
            \/ full[i].section \in {"insufficient-information", "no-direct-usage"}
  BY <1>3, <1>5
<1>9. PICK order : Selects(full, at, report, order)
  BY <1>6, <1>8, OnlySelects
<1>10. PICK m : m = Cardinality(at)
  OBVIOUS
<1>11. /\ m \in Nat /\ DOMAIN report = 1 .. m /\ order \in [1 .. m -> at]
       /\ \A k \in 1 .. m : report[k] = full[order[k]]
       /\ \A i \in at : \E k \in 1 .. m : order[k] = i
       /\ \A j, k \in 1 .. m : order[j] = order[k] => j = k
  BY <1>9, <1>10 DEF Selects
<1>12. ASSUME NEW i \in 1 .. m
       PROVE  /\ order[i] \in 1 .. 4
              /\ sections[i].section = SectionOrder[order[i]]
              /\ sections[i].section \in SectionNames
              /\ \E c \in Nat, from \in [DOMAIN sections[i].entries ->
                                            InSection(sections[i].section, v)] :
                    Views(filter, sections[i].section, v, sections[i], c, from)
  <2>1. order[i] \in 1 .. 4 /\ report[i] = full[order[i]]
    BY <1>8, <1>11
  <2>2. PICK name : name = SectionOrder[order[i]]
    OBVIOUS
  <2>3. report[i].section = name /\ report[i].entries = Listed(groups, name, v)
    BY <1>3, <2>1, <2>2
  <2>4. PICK w : w = View(filter, report[i], v)
    OBVIOUS
  <2>5. sections[i] = w
    BY <1>7, <1>11, <2>4
  <2>6. \E c \in Nat, from \in [DOMAIN w.entries -> InSection(name, v)] :
           Views(filter, name, v, w, c, from)
    BY <2>3, <2>4, ViewSays
  <2>7. w.section = name
    BY <2>3, <2>4 DEF View
  <2>8. name \in SectionNames
    BY <1>4, <2>1, <2>2
  <2> QED
    BY <2>1, <2>2, <2>5, <2>6, <2>7, <2>8
<1>13. \A i, j \in 1 .. m : sections[i].section = sections[j].section => i = j
  BY <1>4, <1>11, <1>12
<1>14. ASSUME NEW name \in SectionNames,
              \/ InSection(name, v) # {}
              \/ name \in {"insufficient-information", "no-direct-usage"}
       PROVE  \E i \in 1 .. m : sections[i].section = name
  <2>1. PICK q \in 1 .. 4 : SectionOrder[q] = name
    BY <1>4
  <2>2. q \in at
    <3>1. CASE name \in {"insufficient-information", "no-direct-usage"}
      BY <1>3, <1>8, <2>1, <3>1
    <3>2. CASE InSection(name, v) # {}
      <4>1. PICK list : list = Listed(groups, name, v)
        OBVIOUS
      <4>2. PICK n \in Nat, from \in [DOMAIN list -> GroupsOf(v)] :
               Lists(groups, name, v, n, from, list)
        BY <4>1, ListedSays
      <4>3. PICK k \in 1 .. n : k \in DOMAIN list
        BY <3>2, <4>2 DEF InSection, Lists
      <4>4. list # << >>
        BY <4>3
      <4>5. full[q].entries = list
        BY <1>3, <2>1, <4>1
      <4> QED
        BY <1>8, <4>4, <4>5
    <3> QED
      BY <1>14, <3>1, <3>2
  <2>3. PICK k \in 1 .. m : order[k] = q
    BY <1>11, <2>2
  <2> QED
    BY <1>12, <2>1, <2>3
<1>15. DOMAIN sections = 1 .. m
  BY <1>7, <1>11
<1>16. Sections(filter, v, sections, m)
  BY <1>11, <1>12, <1>13, <1>14, <1>15 DEF Sections
<1> QED
  BY <1>11, <1>16

\* What stays of an entry keeps everything but the findings hidden.
LEMMA ShownSays ==
    ASSUME NEW v, NEW filter, NEW g, NEW s, NEW e, e = Entry(g, s, v),
           NEW n, n = Shown(filter, g, s, v)
    PROVE  /\ n.purl = e.purl /\ n.section = e.section /\ n.fixed = e.fixed
           /\ n.total = e.total /\ n.elsewhere = e.elsewhere
           /\ n.findings = Kept(filter, e, v)
<1>1. n = [e EXCEPT !.findings = Kept(filter, e, v)]
  BY DEF Shown
<1>2. e = [purl |-> e.purl, section |-> e.section, fixed |-> e.fixed, findings |-> e.findings,
           total |-> e.total, resolved |-> e.resolved, elsewhere |-> e.elsewhere]
  BY DEF Entry
<1> QED
  BY <1>1, <1>2

\* e shows the group g in a section of the report.
Shows(filter, v, e, g, name) ==
    /\ g \in InSection(name, v)
    /\ Stays(filter, Entry(g, name, v), v)
    /\ e = Shown(filter, g, name, v)

\* The entries of a report, and the findings they list.
EntriesOf(sections) == UNION {ToSet(s.entries) : s \in ToSet(sections)}
ListedBy(sections) == UNION {e.findings : e \in EntriesOf(sections)}

\* Every entry shows a group, and every group that stays has its entry.
LEMMA EntriesShow ==
    ASSUME NEW v, NEW filter, NEW sections, NEW m, Sections(filter, v, sections, m)
    PROVE  /\ \A i \in 1 .. m : \A k \in DOMAIN sections[i].entries :
                 /\ sections[i].entries[k] \in EntriesOf(sections)
                 /\ \E g : Shows(filter, v, sections[i].entries[k], g, sections[i].section)
           /\ \A e \in EntriesOf(sections) : \E i \in 1 .. m :
                 \E k \in DOMAIN sections[i].entries : e = sections[i].entries[k]
           /\ \A name \in SectionNames : \A g \in InSection(name, v) :
                 Stays(filter, Entry(g, name, v), v) =>
                    \E i \in 1 .. m : /\ sections[i].section = name
                                      /\ \E k \in DOMAIN sections[i].entries :
                                            sections[i].entries[k] = Shown(filter, g, name, v)
<1>1. DOMAIN sections = 1 .. m
  BY DEF Sections
<1>2. ASSUME NEW i \in 1 .. m, NEW k \in DOMAIN sections[i].entries
      PROVE  \E g : Shows(filter, v, sections[i].entries[k], g, sections[i].section)
  <2>1. PICK name : name = sections[i].section
    OBVIOUS
  <2>2. PICK c \in Nat, from \in [DOMAIN sections[i].entries -> InSection(name, v)] :
           Views(filter, name, v, sections[i], c, from)
    BY <2>1 DEF Sections
  <2>3. /\ from[k] \in InSection(name, v)
        /\ sections[i].entries[k] = Shown(filter, from[k], name, v)
        /\ Stays(filter, Entry(from[k], name, v), v)
    BY <2>2 DEF Views
  <2> QED
    BY <2>1, <2>3 DEF Shows
<1>3. ASSUME NEW i \in 1 .. m, NEW k \in DOMAIN sections[i].entries
      PROVE  sections[i].entries[k] \in EntriesOf(sections)
  BY <1>1 DEF EntriesOf, ToSet
<1>4. ASSUME NEW e \in EntriesOf(sections)
      PROVE  \E i \in 1 .. m : \E k \in DOMAIN sections[i].entries : e = sections[i].entries[k]
  BY <1>1 DEF EntriesOf, ToSet
<1>5. ASSUME NEW name \in SectionNames, NEW g \in InSection(name, v),
             Stays(filter, Entry(g, name, v), v)
      PROVE  \E i \in 1 .. m : /\ sections[i].section = name
                               /\ \E k \in DOMAIN sections[i].entries :
                                     sections[i].entries[k] = Shown(filter, g, name, v)
  <2>1. PICK i \in 1 .. m : sections[i].section = name
    BY <1>5 DEF Sections
  <2>2. PICK c \in Nat, from \in [DOMAIN sections[i].entries -> InSection(name, v)] :
           Views(filter, name, v, sections[i], c, from)
    BY <2>1 DEF Sections
  <2>3. PICK k \in 1 .. c : from[k] = g
    BY <1>5, <2>2 DEF Views
  <2>4. k \in DOMAIN sections[i].entries
        /\ sections[i].entries[k] = Shown(filter, g, name, v)
    BY <2>2, <2>3 DEF Views
  <2> QED
    BY <2>1, <2>4
<1> QED
  BY <1>2, <1>3, <1>4, <1>5

\* A finding is filed in one entry of one group.
LEMMA OneEntry ==
    ASSUME NEW v, Decided(v), NEW f, NEW s, NEW t, NEW g \in InSection(s, v),
           NEW h \in InSection(t, v),
           f \in Entry(g, s, v).findings, f \in Entry(h, t, v).findings
    PROVE  g = h /\ s = t /\ ScanFindings[f].purl = g.purl /\ f \in DOMAIN v
<1>1. /\ g \in GroupsOf(v) /\ s \in SectionsOf(g, v)
      /\ h \in GroupsOf(v) /\ t \in SectionsOf(h, v)
  BY DEF InSection
<1>2. GroupSays(g, v) /\ GroupSays(h, v)
  BY <1>1, GroupsSay
<1>3. f \in g.findings /\ f \in h.findings
  BY <1>1, <1>2, EntrySays
<1>4. ScanFindings[f].purl = g.purl /\ ScanFindings[f].purl = h.purl /\ f \in DOMAIN v
  BY <1>2, <1>3 DEF GroupSays, FindingsAt
<1>5. g = h
  BY <1>1, <1>4, GroupsSay
<1>6. s = t
  BY <1>1, <1>2, <1>3, <1>5, FindingsFiled
<1> QED
  BY <1>4, <1>5, <1>6

\* What an entry says of a finding it lists.
LEMMA ListedOnce ==
    ASSUME NEW v, Decided(v), NEW filter, NEW sections, NEW m, Sections(filter, v, sections, m),
           NEW e \in EntriesOf(sections), NEW f \in e.findings
    PROVE  /\ \A other \in EntriesOf(sections) : f \in other.findings => other = e
           /\ ScanFindings[f].purl = e.purl
           /\ v[f].state \in {"unknown", "unsupported"} =>
                 e.section \in {"update-first", "insufficient-information"}
<1>1. \A x \in EntriesOf(sections) : \E name, g : Shows(filter, v, x, g, name)
  BY EntriesShow
<1>2. PICK s, g : Shows(filter, v, e, g, s)
  BY <1>1
<1>3. /\ g \in InSection(s, v) /\ e = Shown(filter, g, s, v)
      /\ g \in GroupsOf(v) /\ s \in SectionsOf(g, v)
  BY <1>2 DEF Shows, InSection
<1>4. PICK x : x = Entry(g, s, v)
  OBVIOUS
<1>5. f \in x.findings /\ e.purl = x.purl /\ e.section = x.section
  BY <1>3, <1>4, ShownSays DEF Kept
<1>6. GroupSays(g, v)
  BY <1>3, GroupsSay
<1>7. /\ x.purl = g.purl /\ x.section = s
      /\ x.findings = IF s = "no-direct-usage" THEN Moved(g, v) ELSE Main(g, v)
      /\ s # "no-direct-usage" => s \in FiledUnder(g, v)
  BY <1>3, <1>4, <1>6, EntrySays
<1>8. ASSUME NEW other \in EntriesOf(sections), f \in other.findings PROVE other = e
  <2>1. PICK t, h : Shows(filter, v, other, h, t)
    BY <1>1
  <2>2. h \in InSection(t, v) /\ other = Shown(filter, h, t, v)
    BY <2>1 DEF Shows
  <2>3. f \in Entry(h, t, v).findings
    BY <1>8, <2>2, ShownSays DEF Kept
  <2>4. g = h /\ s = t
    BY <1>3, <1>4, <1>5, <2>2, <2>3, OneEntry
  <2> QED
    BY <1>3, <2>2, <2>4
<1>9. ScanFindings[f].purl = g.purl
  <2>1. f \in g.findings
    BY <1>3, <1>4, <1>5, <1>6, EntrySays
  <2> QED
    BY <1>6, <2>1 DEF GroupSays, FindingsAt
<1>10. ASSUME v[f].state \in {"unknown", "unsupported"}
       PROVE  s \in {"update-first", "insufficient-information"}
  <2>1. f \notin Moved(g, v)
    BY <1>10 DEF Moved, MovesToNoDirectUsage
  <2>2. s # "no-direct-usage" /\ f \in Main(g, v) /\ s \in FiledUnder(g, v)
    BY <1>5, <1>7, <2>1
  <2> QED
    BY <1>6, <1>10, <2>2, FiledSays
<1> QED
  BY <1>5, <1>7, <1>8, <1>9, <1>10

\* Without a filter, the two entries of a package count each other's findings.
LEMMA EntriesCount ==
    ASSUME NEW v, Decided(v), NEW filter, NEW sections, NEW m, Sections(filter, v, sections, m),
           NEW e \in EntriesOf(sections),
           filter = [sections |-> {}, packages |-> {}, bands |-> {}, states |-> {}]
    PROVE  Cardinality(e.findings) + e.elsewhere = e.total
<1>1. PICK s, g : Shows(filter, v, e, g, s)
  BY EntriesShow
<1>2. /\ e = Shown(filter, g, s, v)
      /\ g \in GroupsOf(v) /\ s \in SectionsOf(g, v)
  BY <1>1 DEF Shows, InSection
<1>3. PICK x : x = Entry(g, s, v)
  OBVIOUS
<1>4. GroupSays(g, v)
  BY <1>2, GroupsSay
<1>5. Cardinality(x.findings) + x.elsewhere = x.total
  BY <1>2, <1>3, <1>4, EntrySays
<1>6. Kept(filter, x, v) = x.findings
  BY DEF Kept, EntryMatches, MatchAny
<1>7. /\ e.findings = Kept(filter, x, v)
      /\ e.elsewhere = x.elsewhere /\ e.total = x.total
  BY <1>2, <1>3, ShownSays
<1> QED
  BY <1>5, <1>6, <1>7

\* The findings listed and those hidden are all there are.
LEMMA NoneLost ==
    ASSUME NEW v, Decided(v), NEW filter, NEW sections, NEW m, Sections(filter, v, sections, m),
           NEW h, h = [i \in DOMAIN sections |-> sections[i].hidden]
    PROVE  Cardinality(ListedBy(sections)) + SumFunction(h) = Cardinality(DOMAIN v)
<1> DEFINE part == [i \in 1 .. m |-> GoneFrom(filter, sections[i].section, v)]
           listed == ListedBy(sections)
           gone == Parts(part, 1 .. m)
<1>1. /\ m \in Nat /\ DOMAIN h = 1 .. m
      /\ \A i \in 1 .. m : h[i] = sections[i].hidden /\ sections[i].section \in SectionNames
      /\ \A i, j \in 1 .. m : sections[i].section = sections[j].section => i = j
  BY DEF Sections
<1>2. ASSUME NEW i \in 1 .. m
      PROVE  IsFiniteSet(part[i]) /\ h[i] = Cardinality(part[i])
  <2>1. PICK name : name = sections[i].section
    OBVIOUS
  <2>2. PICK c \in Nat, from \in [DOMAIN sections[i].entries -> InSection(name, v)] :
           Views(filter, name, v, sections[i], c, from)
    BY <2>1 DEF Sections
  <2>3. /\ IsFiniteSet(GoneFrom(filter, name, v))
        /\ sections[i].hidden = Cardinality(GoneFrom(filter, name, v))
    BY <2>2 DEF Views
  <2> QED
    BY <1>1, <2>1, <2>3
<1>3. \A i \in 1 .. m : part[i] = GoneFrom(filter, sections[i].section, v)
  OBVIOUS
<1> HIDE DEF part
<1>4. ASSUME NEW name, NEW f \in GoneFrom(filter, name, v)
      PROVE  \E g \in InSection(name, v) :
                 /\ f \in Entry(g, name, v).findings
                 /\ f \notin Kept(filter, Entry(g, name, v), v)
  BY DEF GoneFrom, Gone
<1>5. ASSUME NEW i \in 1 .. m, NEW j \in 1 .. m, i # j PROVE part[i] \cap part[j] = {}
  <2>1. SUFFICES ASSUME NEW f \in part[i], f \in part[j] PROVE FALSE
    OBVIOUS
  <2>2. PICK s, t : s = sections[i].section /\ t = sections[j].section
    OBVIOUS
  <2>3. PICK g \in InSection(s, v) : f \in Entry(g, s, v).findings
    BY <1>3, <1>4, <2>2
  <2>4. PICK k \in InSection(t, v) : f \in Entry(k, t, v).findings
    BY <1>3, <1>4, <2>1, <2>2
  <2>5. s = t
    BY <2>3, <2>4, OneEntry
  <2> QED
    BY <1>1, <1>5, <2>2, <2>5
<1>6. IsFiniteSet(1 .. m)
  BY <1>1, FS_Interval
<1>7. Apart(part, 1 .. m)
  BY <1>2, <1>5 DEF Apart
<1>8. IsFiniteSet(gone) /\ SumFunction(h) = Cardinality(gone)
  BY <1>1, <1>2, <1>6, <1>7, SumOfParts
<1>9. \A f \in gone : \E i \in 1 .. m : f \in GoneFrom(filter, sections[i].section, v)
  BY <1>3 DEF Parts
<1>10. \A i \in 1 .. m : GoneFrom(filter, sections[i].section, v) \subseteq gone
  BY <1>3 DEF Parts
<1>11. \A f \in listed : \E s : \E g \in InSection(s, v) :
           f \in Kept(filter, Entry(g, s, v), v) /\ f \in Entry(g, s, v).findings
  <2>1. ASSUME NEW f \in listed
        PROVE  \E s : \E g \in InSection(s, v) :
                  f \in Kept(filter, Entry(g, s, v), v) /\ f \in Entry(g, s, v).findings
    <3>1. PICK e \in EntriesOf(sections) : f \in e.findings
      BY DEF ListedBy
    <3>2. PICK s, g : Shows(filter, v, e, g, s)
      BY EntriesShow
    <3>3. g \in InSection(s, v) /\ e = Shown(filter, g, s, v)
      BY <3>2 DEF Shows
    <3>4. f \in Kept(filter, Entry(g, s, v), v)
      BY <3>1, <3>3, ShownSays
    <3> QED
      BY <3>3, <3>4 DEF Kept
  <2> QED
    BY <2>1
<1> HIDE DEF gone, listed
<1>12. ASSUME NEW f \in gone, f \in listed PROVE FALSE
  <2>1. PICK i \in 1 .. m : f \in GoneFrom(filter, sections[i].section, v)
    BY <1>9
  <2>2. PICK s : s = sections[i].section
    OBVIOUS
  <2>3. PICK g \in InSection(s, v) : /\ f \in Entry(g, s, v).findings
                                     /\ f \notin Kept(filter, Entry(g, s, v), v)
    BY <1>4, <2>1, <2>2
  <2>4. PICK t : \E k \in InSection(t, v) :
           f \in Kept(filter, Entry(k, t, v), v) /\ f \in Entry(k, t, v).findings
    BY <1>11, <1>12
  <2>5. PICK k \in InSection(t, v) :
           f \in Kept(filter, Entry(k, t, v), v) /\ f \in Entry(k, t, v).findings
    BY <2>4
  <2>6. g = k /\ s = t
    BY <2>3, <2>5, OneEntry
  <2> QED
    BY <2>3, <2>5, <2>6
<1>13. ASSUME NEW f \in DOMAIN v PROVE f \in gone \/ f \in listed
  <2>1. PICK g \in GroupsOf(v) : f \in g.findings
    BY GroupsSay
  <2>2. GroupSays(g, v)
    BY <2>1, GroupsSay
  <2>3. PICK s \in SectionsOf(g, v) : f \in Entry(g, s, v).findings
    BY <2>1, <2>2, FindingsFiled
  <2>4. g \in InSection(s, v)
    BY <2>3 DEF InSection
  <2>5. s \in SectionNames
    BY <2>2, <2>3, EntrySays
  <2>6. CASE f \in Kept(filter, Entry(g, s, v), v)
    <3>1. Stays(filter, Entry(g, s, v), v)
      BY <2>6 DEF Stays
    <3>2. PICK i \in 1 .. m : \E k \in DOMAIN sections[i].entries :
             sections[i].entries[k] = Shown(filter, g, s, v)
      BY <2>4, <2>5, <3>1, EntriesShow
    <3>3. PICK k \in DOMAIN sections[i].entries :
             sections[i].entries[k] = Shown(filter, g, s, v)
      BY <3>2
    <3>4. sections[i].entries[k] \in EntriesOf(sections)
      BY EntriesShow
    <3>5. f \in Shown(filter, g, s, v).findings
      BY <2>6, ShownSays
    <3> QED
      BY <3>3, <3>4, <3>5 DEF listed, ListedBy
  <2>7. CASE f \notin Kept(filter, Entry(g, s, v), v)
    <3>1. f \in GoneFrom(filter, s, v)
      BY <2>3, <2>4, <2>7 DEF GoneFrom, Gone
    <3>2. PICK i \in 1 .. m : sections[i].section = s
      BY <2>4, <2>5 DEF Sections
    <3> QED
      BY <1>10, <3>1, <3>2
  <2> QED
    BY <2>6, <2>7
<1>14. DOMAIN v = listed \cup gone /\ listed \cap gone = {}
  <2>1. gone \subseteq DOMAIN v
    <3>1. ASSUME NEW f \in gone PROVE f \in DOMAIN v
      <4>1. PICK i \in 1 .. m : f \in GoneFrom(filter, sections[i].section, v)
        BY <1>9
      <4>2. PICK s : s = sections[i].section
        OBVIOUS
      <4>3. PICK g \in InSection(s, v) : f \in Entry(g, s, v).findings
        BY <1>4, <4>1, <4>2
      <4> QED
        BY <4>3, OneEntry
    <3> QED
      BY <3>1
  <2>2. listed \subseteq DOMAIN v
    <3>1. ASSUME NEW f \in listed PROVE f \in DOMAIN v
      <4>1. PICK s : \E g \in InSection(s, v) : f \in Entry(g, s, v).findings
        BY <1>11
      <4>2. PICK g \in InSection(s, v) : f \in Entry(g, s, v).findings
        BY <4>1
      <4> QED
        BY <4>2, OneEntry
    <3> QED
      BY <3>1
  <2> QED
    BY <1>12, <1>13, <2>1, <2>2
<1>15. IsFiniteSet(DOMAIN v)
  BY SignalsAreTyped, FS_Subset DEF Decided
<1>16. IsFiniteSet(listed)
  BY <1>14, <1>15, FS_Subset
<1>17. Cardinality(DOMAIN v)
          = Cardinality(listed) + Cardinality(gone) - Cardinality(listed \cap gone)
  BY <1>8, <1>14, <1>16, FS_Union
<1>18. /\ Cardinality(listed \cap gone) = 0
       /\ Cardinality(listed) \in Nat /\ Cardinality(gone) \in Nat
  BY <1>8, <1>14, <1>16, FS_EmptySet, FS_CardinalityType
<1> QED
  BY <1>8, <1>17, <1>18 DEF listed

\* The report keeps every decided finding in view.
LEMMA ReportKeepsAll ==
    ASSUME NEW v, Decided(v), shown.results.verdicts = v, NEW m,
           Sections(shown.filter, v, shown.sections, m)
    PROVE  NothingLeftOut
<1>1. PICK sections, filter : sections = shown.sections /\ filter = shown.filter
  OBVIOUS
<1>2. Sections(filter, v, sections, m)
  BY <1>1
<1>3. PICK entries : entries = EntriesOf(sections)
  OBVIOUS
<1>4. PICK listed : listed = ListedBy(sections)
  OBVIOUS
<1>5. \A f \in listed : \E e \in entries :
         /\ \A other \in entries : f \in other.findings => other = e
         /\ f \in e.findings /\ ScanFindings[f].purl = e.purl
         /\ v[f].state \in {"unknown", "unsupported"} =>
               e.section \in {"update-first", "insufficient-information"}
  <2>1. ASSUME NEW f \in listed
        PROVE  \E e \in entries :
                  /\ \A other \in entries : f \in other.findings => other = e
                  /\ f \in e.findings /\ ScanFindings[f].purl = e.purl
                  /\ v[f].state \in {"unknown", "unsupported"} =>
                        e.section \in {"update-first", "insufficient-information"}
    <3>1. PICK e \in entries : f \in e.findings
      BY <1>3, <1>4 DEF ListedBy
    <3>2. /\ \A other \in entries : f \in other.findings => other = e
          /\ ScanFindings[f].purl = e.purl
          /\ v[f].state \in {"unknown", "unsupported"} =>
                e.section \in {"update-first", "insufficient-information"}
      BY <1>2, <1>3, <3>1, ListedOnce
    <3> QED
      BY <3>1, <3>2
  <2> QED
    BY <2>1
<1>6. filter = [sections |-> {}, packages |-> {}, bands |-> {}, states |-> {}] =>
         \A e \in entries : Cardinality(e.findings) + e.elsewhere = e.total
  BY <1>2, <1>3, EntriesCount
<1>7. PICK h : h = [i \in DOMAIN sections |-> sections[i].hidden]
  OBVIOUS
<1>8. Cardinality(listed) + SumFunction(h) = Cardinality(DOMAIN v)
  BY <1>2, <1>4, <1>7, NoneLost
<1>9. {"insufficient-information", "no-direct-usage"}
         \subseteq {s.section : s \in ToSet(sections)}
  <2>1. DOMAIN sections = 1 .. m
    BY <1>2 DEF Sections
  <2>2. ASSUME NEW name \in {"insufficient-information", "no-direct-usage"}
        PROVE  \E i \in 1 .. m : sections[i].section = name
    BY <1>2 DEF Sections, SectionNames
  <2> QED
    BY <2>1, <2>2 DEF ToSet
<1>10. entries = UNION {ToSet(s.entries) : s \in ToSet(shown.sections)}
  BY <1>1, <1>3 DEF EntriesOf
<1>11. listed = UNION {e.findings : e \in entries}
  BY <1>3, <1>4 DEF ListedBy
<1>12. h = [i \in DOMAIN shown.sections |-> shown.sections[i].hidden]
  BY <1>1, <1>7
<1> QED
  BY <1>1, <1>5, <1>6, <1>8, <1>9, <1>10, <1>11, <1>12, Zenon DEF NothingLeftOut

(***************************************************************************)
(* Which package to update first.                                          *)
(***************************************************************************)

\* The packages with a finding to act on now, and those where it is exploited.
ActNowPurls(v) == {ScanFindings[f].purl : f \in {x \in DOMAIN v : v[x].band = "act_now"}}
ExploitedPurls(v) ==
    {ScanFindings[f].purl : f \in {y \in {x \in DOMAIN v : v[x].band = "act_now"} :
                                      ScanFindings[y].kev}}

\* What a group under "update-first" has.
LEMMA UrgentSays ==
    ASSUME NEW v, Decided(v), NEW g \in GroupsOf(v)
    PROVE  /\ GroupSays(g, v)
           /\ "update-first" \in SectionsOf(g, v) <=> g.purl \in ActNowPurls(v)
           /\ "update-first" \in SectionsOf(g, v) => g.urgency[1] = 3
           /\ "update-first" \in SectionsOf(g, v) =>
                 (g.urgency[2] = 1 <=> g.purl \in ExploitedPurls(v))
<1>1. GroupSays(g, v)
  BY GroupsSay
<1>2. "update-first" \in SectionsOf(g, v) <=> ActNow(g.findings, v) # {}
  <2>1. "update-first" \in FiledUnder(g, v) <=> ActNow(g.findings, v) # {}
    BY <1>1, FiledSays
  <2>2. "update-first" \in SectionsOf(g, v) <=> "update-first" \in FiledUnder(g, v)
    BY DEF SectionsOf
  <2> QED
    BY <2>1, <2>2
<1>3. \A f : f \in ActNow(g.findings, v) <=>
          f \in DOMAIN v /\ v[f].band = "act_now" /\ ScanFindings[f].purl = g.purl
  BY <1>1 DEF GroupSays, FindingsAt, ActNow
<1>4. g.purl \in ActNowPurls(v) <=> ActNow(g.findings, v) # {}
  BY <1>3 DEF ActNowPurls
<1>5. g.purl \in ExploitedPurls(v) <=> \E f \in ActNow(g.findings, v) : ScanFindings[f].kev
  BY <1>3 DEF ExploitedPurls
<1> QED
  BY <1>1, <1>2, <1>4, <1>5 DEF GroupSays

\* A group ordered before one with a known exploited finding has one too.
LEMMA ExploitedFirst ==
    ASSUME NEW v, Decided(v), NEW g \in InSection("update-first", v),
           NEW h \in InSection("update-first", v), UpdatedBefore(g, h),
           h.purl \in ExploitedPurls(v)
    PROVE  g.purl \in ExploitedPurls(v)
<1>1. /\ g \in GroupsOf(v) /\ "update-first" \in SectionsOf(g, v)
      /\ h \in GroupsOf(v) /\ "update-first" \in SectionsOf(h, v)
  BY DEF InSection
<1>2. PICK a, b : a = g.urgency /\ b = h.urgency
  OBVIOUS
<1>3. /\ a \in [1 .. 5 -> Nat] /\ b \in [1 .. 5 -> Nat]
      /\ a[1] = 3 /\ b[1] = 3 /\ b[2] = 1 /\ a[2] <= 1
      /\ a[2] = 1 <=> g.purl \in ExploitedPurls(v)
  BY <1>1, <1>2, UrgentSays DEF GroupSays
<1>4. AfterAt(a, b) \/ a = b
  BY <1>2 DEF UpdatedBefore
<1>5. ASSUME AfterAt(a, b) PROVE a[2] = 1
  <2>1. PICK k \in 1 .. 5 : Exceeds(a, b, 5, k)
    BY <1>3, <1>5, AfterAtPlace
  <2>2. a[k] > b[k] /\ \A j \in 1 .. 5 : j < k => a[j] = b[j]
    BY <2>1 DEF Exceeds
  <2>3. k # 1 /\ k # 2
    BY <1>3, <2>2
  <2>4. a[2] = b[2]
    BY <2>2, <2>3
  <2> QED
    BY <1>3, <2>4
<1> QED
  BY <1>3, <1>4, <1>5

\* A package to act on now is shown under "update-first" when the filter asks
\* for it.
LEMMA ActNowIsShown ==
    ASSUME NEW v, Decided(v), NEW filter, NEW sections, NEW m, Sections(filter, v, sections, m),
           filter.bands = {}, filter.states = {}, NEW p \in ActNowPurls(v),
           EntryMatches(filter, [section |-> "update-first", purl |-> p])
    PROVE  \E i \in 1 .. m : /\ sections[i].section = "update-first"
                             /\ \E k \in DOMAIN sections[i].entries :
                                   sections[i].entries[k].purl = p
<1>1. PICK f \in DOMAIN v : ScanFindings[f].purl = p
  BY DEF ActNowPurls
<1>2. PICK g \in GroupsOf(v) : f \in g.findings
  BY <1>1, GroupsSay
<1>3. g.purl = p
  <2>1. GroupSays(g, v)
    BY <1>2, GroupsSay
  <2> QED
    BY <1>1, <1>2, <2>1 DEF GroupSays, FindingsAt
<1>4. g \in InSection("update-first", v) /\ "update-first" \in SectionsOf(g, v)
  BY <1>2, <1>3, UrgentSays DEF InSection
<1>5. PICK e : e = Entry(g, "update-first", v)
  OBVIOUS
<1>6. GroupSays(g, v)
  BY <1>2, UrgentSays
<1>7. e.purl = p /\ e.section = "update-first"
  BY <1>3, <1>4, <1>5, <1>6, EntrySays
<1>8. EntryMatches(filter, e)
  BY <1>7 DEF EntryMatches
<1>9. Stays(filter, e, v)
  BY <1>8 DEF Stays, Kept, KeptEmpty, MatchAny
<1>10. PICK i \in 1 .. m : /\ sections[i].section = "update-first"
                           /\ \E k \in DOMAIN sections[i].entries :
                                 sections[i].entries[k] = Shown(filter, g, "update-first", v)
  BY <1>4, <1>5, <1>9, EntriesShow DEF SectionNames
<1>11. PICK k \in DOMAIN sections[i].entries :
          sections[i].entries[k] = Shown(filter, g, "update-first", v)
  BY <1>10
<1>12. sections[i].entries[k].purl = p
  BY <1>5, <1>7, <1>11, ShownSays
<1> QED
  BY <1>10, <1>12

\* No package is shown below one without a known exploited finding if it has one.
LEMMA ExploitedIsAbove ==
    ASSUME NEW v, Decided(v), NEW filter, NEW sections, NEW m, Sections(filter, v, sections, m),
           NEW q \in 1 .. m, sections[q].section = "update-first",
           NEW i \in DOMAIN sections[q].entries, NEW j \in DOMAIN sections[q].entries, i < j,
           sections[q].entries[j].purl \in ExploitedPurls(v)
    PROVE  sections[q].entries[i].purl \in ExploitedPurls(v)
<1>1. PICK name : name = "update-first"
  OBVIOUS
<1>2. PICK c \in Nat, from \in [DOMAIN sections[q].entries -> InSection(name, v)] :
         Views(filter, name, v, sections[q], c, from)
  BY <1>1 DEF Sections
<1>3. /\ DOMAIN sections[q].entries = 1 .. c /\ from \in [1 .. c -> InSection(name, v)]
      /\ \A k \in 1 .. c : sections[q].entries[k] = Shown(filter, from[k], name, v)
      /\ \A k, l \in 1 .. c : k < l => UpdatedBefore(from[k], from[l])
  BY <1>2 DEF Views
<1>4. ASSUME NEW k \in 1 .. c
      PROVE  from[k] \in InSection(name, v) /\ sections[q].entries[k].purl = from[k].purl
  <2>1. from[k] \in InSection(name, v) /\ from[k] \in GroupsOf(v) /\ name \in SectionsOf(from[k], v)
    BY <1>3 DEF InSection
  <2>2. GroupSays(from[k], v)
    BY <2>1, GroupsSay
  <2>3. PICK e : e = Entry(from[k], name, v)
    OBVIOUS
  <2>4. e.purl = from[k].purl
    BY <2>1, <2>2, <2>3, EntrySays
  <2> QED
    BY <1>3, <2>1, <2>3, <2>4, ShownSays
<1>5. UpdatedBefore(from[i], from[j])
  BY <1>3
<1>6. from[j].purl \in ExploitedPurls(v)
  BY <1>3, <1>4
<1>7. from[i].purl \in ExploitedPurls(v)
  <2>1. from[i] \in InSection("update-first", v) /\ from[j] \in InSection("update-first", v)
    BY <1>1, <1>3, <1>4
  <2> QED
    BY <1>5, <1>6, <2>1, ExploitedFirst
<1> QED
  BY <1>3, <1>4, <1>7

\* The version an entry names is one its package can be updated to.
LEMMA FixedIsAbove ==
    ASSUME NEW v, Decided(v), NEW filter, NEW sections, NEW m, Sections(filter, v, sections, m),
           NEW e \in EntriesOf(sections), e.fixed.given
    PROVE  /\ IsVersion(Installed[e.purl]) => Above(e.fixed, Installed[e.purl])
           /\ \A x \in Fixes(FindingsAt(v, e.purl)) : IsVersion(x) /\ ~Above(x, e.fixed)
<1>1. PICK s, g : Shows(filter, v, e, g, s)
  BY EntriesShow
<1>2. /\ e = Shown(filter, g, s, v)
      /\ g \in GroupsOf(v) /\ s \in SectionsOf(g, v)
  BY <1>1 DEF Shows, InSection
<1>3. PICK n : n = Entry(g, s, v)
  OBVIOUS
<1>4. GroupSays(g, v)
  BY <1>2, GroupsSay
<1>5. n.purl = g.purl /\ n.fixed = g.fixed
  BY <1>2, <1>3, <1>4, EntrySays
<1>6. e.purl = g.purl /\ e.fixed = g.fixed
  BY <1>2, <1>3, <1>5, ShownSays
<1>7. PICK fs : fs = FindingsAt(v, g.purl)
  OBVIOUS
<1>8. fs \in SUBSET Findings
  BY <1>7 DEF Decided, FindingsAt
<1>9. PICK installed : installed = Installed[g.purl]
  OBVIOUS
<1>10. g.fixed = ReportedFixedVersion(fs, installed)
  BY <1>4, <1>7, <1>9 DEF GroupSays
<1>11. PICK x : x = g.fixed
  OBVIOUS
<1>12. x.given
  BY <1>6, <1>11
<1>13. /\ IsVersion(installed) => Above(x, installed)
       /\ \A y \in Fixes(fs) : IsVersion(y) /\ ~Above(y, x)
  BY <1>8, <1>10, <1>11, <1>12, FixedIsHighest
<1> QED
  BY <1>6, <1>7, <1>9, <1>11, <1>13

\* The report says rightly which package to update first.
LEMMA ReportIsRight ==
    ASSUME NEW v, Decided(v), shown.results.verdicts = v, NEW m,
           Sections(shown.filter, v, shown.sections, m)
    PROVE  UpdateFirstIsRight
<1>1. PICK sections, filter : sections = shown.sections /\ filter = shown.filter
  OBVIOUS
<1>2. Sections(filter, v, sections, m)
  BY <1>1
<1>3. PICK urgent : urgent = {s \in ToSet(sections) : s.section = "update-first"}
  OBVIOUS
<1>4. DOMAIN sections = 1 .. m
  BY <1>2 DEF Sections
<1>5. \A s : s \in ToSet(sections) <=> \E i \in 1 .. m : s = sections[i]
  BY <1>4 DEF ToSet
<1>6. filter.bands = {} /\ filter.states = {} =>
         \A p \in ActNowPurls(v) :
            EntryMatches(filter, [section |-> "update-first", purl |-> p]) =>
               \E s \in urgent : \E e \in ToSet(s.entries) : e.purl = p
  <2>1. SUFFICES ASSUME filter.bands = {}, filter.states = {}, NEW p \in ActNowPurls(v),
                        EntryMatches(filter, [section |-> "update-first", purl |-> p])
                 PROVE  \E s \in urgent : \E e \in ToSet(s.entries) : e.purl = p
    OBVIOUS
  <2>2. PICK i \in 1 .. m : /\ sections[i].section = "update-first"
                            /\ \E k \in DOMAIN sections[i].entries :
                                  sections[i].entries[k].purl = p
    BY <1>2, <2>1, ActNowIsShown
  <2>3. sections[i] \in urgent
    BY <1>3, <1>5, <2>2
  <2>4. \E e \in ToSet(sections[i].entries) : e.purl = p
    BY <2>2 DEF ToSet
  <2> QED
    BY <2>3, <2>4
<1>7. \A s \in urgent : \A i, j \in DOMAIN s.entries :
         i < j /\ s.entries[j].purl \in ExploitedPurls(v) =>
            s.entries[i].purl \in ExploitedPurls(v)
  <2>1. SUFFICES ASSUME NEW s \in urgent, NEW i \in DOMAIN s.entries,
                        NEW j \in DOMAIN s.entries, i < j,
                        s.entries[j].purl \in ExploitedPurls(v)
                 PROVE  s.entries[i].purl \in ExploitedPurls(v)
    OBVIOUS
  <2>2. PICK q \in 1 .. m : s = sections[q] /\ sections[q].section = "update-first"
    BY <1>3, <1>5
  <2> QED
    BY <1>2, <2>1, <2>2, ExploitedIsAbove
<1>8. \A s \in ToSet(sections) : \A e \in ToSet(s.entries) : e.fixed.given =>
         /\ IsVersion(Installed[e.purl]) => Above(e.fixed, Installed[e.purl])
         /\ \A x \in Fixes(FindingsAt(v, e.purl)) : IsVersion(x) /\ ~Above(x, e.fixed)
  <2>1. ASSUME NEW s \in ToSet(sections), NEW e \in ToSet(s.entries)
        PROVE  e \in EntriesOf(sections)
    BY DEF EntriesOf
  <2> QED
    BY <1>2, <2>1, FixedIsAbove
<1> DEFINE w == shown.results.verdicts
           hurried == {s \in ToSet(shown.sections) : s.section = "update-first"}
           purls(fs) == {ScanFindings[f].purl : f \in fs}
           actNow == {f \in DOMAIN w : w[f].band = "act_now"}
           exploited == purls({f \in actNow : ScanFindings[f].kev})
<1>9. purls(actNow) = ActNowPurls(v) /\ exploited = ExploitedPurls(v)
  BY DEF ActNowPurls, ExploitedPurls
<1>10. hurried = urgent
  BY <1>1, <1>3
<1> HIDE DEF w, hurried, purls, actNow, exploited
<1>11. shown.filter.bands = {} /\ shown.filter.states = {} =>
          \A p \in purls(actNow) :
             EntryMatches(shown.filter, [section |-> "update-first", purl |-> p]) =>
                \E s \in hurried : \E e \in ToSet(s.entries) : e.purl = p
  BY <1>1, <1>6, <1>9, <1>10
<1>12. \A s \in hurried : \A i, j \in DOMAIN s.entries :
          i < j /\ s.entries[j].purl \in exploited => s.entries[i].purl \in exploited
  BY <1>7, <1>9, <1>10
<1>13. v = w
  BY DEF w
<1>14. \A s \in ToSet(shown.sections) : \A e \in ToSet(s.entries) : e.fixed.given =>
          /\ IsVersion(Installed[e.purl]) => Above(e.fixed, Installed[e.purl])
          /\ \A x \in Fixes({f \in DOMAIN w : ScanFindings[f].purl = e.purl}) :
                IsVersion(x) /\ ~Above(x, e.fixed)
  <2>1. \A s \in ToSet(shown.sections) : \A e \in ToSet(s.entries) : e.fixed.given =>
           /\ IsVersion(Installed[e.purl]) => Above(e.fixed, Installed[e.purl])
           /\ \A x \in Fixes(FindingsAt(w, e.purl)) : IsVersion(x) /\ ~Above(x, e.fixed)
    BY <1>1, <1>8, <1>13
  <2> QED
    BY <2>1, Zenon DEF FindingsAt
<1> QED
  BY <1>11, <1>12, <1>14, Zenon DEF UpdateFirstIsRight, w, hurried, purls, actNow, exploited

\* What decide wrote, as the report reads it.
Settled(n) == Decided(n.verdicts) /\ n.groups = BuildRemediationGroups(n.verdicts)

\* The report shown is the one of the decisions it shows.
Reporting ==
    /\ Written(decisions) => Settled(decisions)
    /\ Reported =>
          /\ Settled(shown.results)
          /\ shown.sections = Apply(BuildReport(shown.results.groups, shown.results.verdicts),
                                    shown.filter, shown.results.verdicts)

\* Every verdict has one of the three bands.
LEMMA ResultsSettled ==
    ASSUME NEW scan, NEW g, NEW loc, NEW n, n = Results(scan, g, loc)
    PROVE  Settled(n)
<1>1. PICK v : v = Verdicts(scan, g, loc)
  OBVIOUS
<1>2. n.verdicts = v /\ n.groups = BuildRemediationGroups(v)
  BY <1>1 DEF Results
<1>3. DOMAIN v = FindingsOf(scan.installed)
  BY <1>1 DEF Verdicts
<1>4. ASSUME NEW f \in DOMAIN v PROVE v[f].band \in Bands
  <2>1. PICK r, reasons, e : v[f] = BuildDecision(f, g.graph.header, r, reasons, e)
    BY <1>1, <1>3 DEF Verdicts
  <2>2. PICK s : s = DetermineState(g.graph.header, r, reasons, e)
    OBVIOUS
  <2>3. v[f].band = RiskBand(f, s)
    BY <2>1, <2>2 DEF BuildDecision
  <2> QED
    BY <2>3 DEF RiskBand, Bands
<1> QED
  BY <1>2, <1>3, <1>4 DEF Settled, Decided, FindingsOf

\* decide writes settled decisions, and report shows those of the file.
LEMMA ReportingStep == Reporting /\ [Next]_vars => Reporting'
<1> SUFFICES ASSUME Reporting, [Next]_vars PROVE Reporting'
  OBVIOUS
<1>1. CASE Decide
  <2>1. PICK n : n = Results(scanDoc, graphDoc, locDoc)
    OBVIOUS
  <2>2. decisions' = n /\ shown' = shown
    BY <1>1, <2>1 DEF Decide
  <2>3. Settled(n)
    BY <2>1, ResultsSettled
  <2> QED
    BY <2>2, <2>3 DEF Reporting, Reported
<1>2. ASSUME NEW coverage \in {graphDoc, Missing}, NEW filter \in Filters,
             Report(coverage, filter)
      PROVE  Reporting'
  <2>1. PICK n : n = decisions
    OBVIOUS
  <2>2. PICK sections : sections = Apply(BuildReport(n.groups, n.verdicts), filter, n.verdicts)
    OBVIOUS
  <2>3. /\ Written(decisions) /\ decisions' = n
        /\ shown' = [as |-> "report", results |-> n, coverage |-> coverage, filter |-> filter,
                     sections |-> sections]
    BY <1>2, <2>1, <2>2 DEF Report
  <2>4. shown'.results = n /\ shown'.filter = filter /\ shown'.sections = sections
    BY <2>3
  <2>5. Settled(n)
    BY <2>1, <2>3 DEF Reporting
  <2> QED
    BY <2>2, <2>3, <2>4, <2>5 DEF Reporting
<1>3. CASE Audit
  <2>1. shown'.as = "replay" /\ decisions' = decisions
    BY <1>3 DEF Audit
  <2> QED
    BY <2>1 DEF Reporting, Reported, Written, Missing
<1>4. CASE UNCHANGED <<decisions, shown>>
  BY <1>4 DEF Reporting, Reported, Written, Missing
<1> QED
  BY <1>1, <1>2, <1>3, <1>4 DEF Next, Edit, Scan, Usage, Localise, vars

\* It holds of every history of commands.
THEOREM ReportInvariant == Spec => []Reporting
<1>1. Init => Reporting
  <2> SUFFICES ASSUME Init PROVE Reporting
    OBVIOUS
  <2>1. ~Written(decisions) /\ shown.as = "nothing"
    BY DEF Init, Nothing, Written
  <2> QED
    BY <2>1 DEF Reporting, Reported
<1> QED
  BY <1>1, ReportingStep, PTL DEF Spec

\* The sections of the report shown are those of its decisions, as the filter
\* leaves them.
LEMMA ReportedSections ==
    ASSUME Reporting, Reported, NEW v, v = shown.results.verdicts
    PROVE  Decided(v) /\ \E m \in Nat : Sections(shown.filter, v, shown.sections, m)
<1>1. PICK groups : groups = BuildRemediationGroups(v)
  OBVIOUS
<1>2. Decided(v) /\ shown.sections = Apply(BuildReport(groups, v), shown.filter, v)
  BY <1>1 DEF Reporting, Settled
<1>3. PICK sections, filter : sections = shown.sections /\ filter = shown.filter
  OBVIOUS
<1>4. \E m \in Nat : Sections(filter, v, sections, m)
  BY <1>1, <1>2, <1>3, ReportSays
<1> QED
  BY <1>2, <1>3, <1>4

\* A report, filtered or not, keeps every decided finding in view: listed in one
\* entry or counted as hidden under its section (report/build.go:88-93,
\* filter.go:75-113).
THEOREM NothingIsLeftOut == Spec => []NothingLeftOut
<1>1. Reporting => NothingLeftOut
  <2> SUFFICES ASSUME Reporting PROVE NothingLeftOut
    OBVIOUS
  <2>1. CASE Reported
    <3>1. PICK v : v = shown.results.verdicts
      OBVIOUS
    <3>2. PICK m \in Nat : Sections(shown.filter, v, shown.sections, m)
      BY <2>1, <3>1, ReportedSections
    <3>3. Decided(v)
      BY <2>1, <3>1, ReportedSections
    <3> QED
      BY <3>1, <3>2, <3>3, ReportKeepsAll
  <2>2. CASE ~Reported
    BY <2>2 DEF NothingLeftOut
  <2> QED
    BY <2>1, <2>2
<1> QED
  BY <1>1, ReportInvariant, PTL

\* "Update first" shows every package with a finding to act on now, the known
\* exploited ones first, and a version that is above the installed one and not
\* below any fix reported (report/build.go:278-310, decision/remediation.go:103-155).
THEOREM UpdateFirstHolds == Spec => []UpdateFirstIsRight
<1>1. Reporting => UpdateFirstIsRight
  <2> SUFFICES ASSUME Reporting PROVE UpdateFirstIsRight
    OBVIOUS
  <2>1. CASE Reported
    <3>1. PICK v : v = shown.results.verdicts
      OBVIOUS
    <3>2. PICK m \in Nat : Sections(shown.filter, v, shown.sections, m)
      BY <2>1, <3>1, ReportedSections
    <3>3. Decided(v)
      BY <2>1, <3>1, ReportedSections
    <3> QED
      BY <3>1, <3>2, <3>3, ReportIsRight
  <2>2. CASE ~Reported
    BY <2>2 DEF UpdateFirstIsRight
  <2> QED
    BY <2>1, <2>2
<1> QED
  BY <1>1, ReportInvariant, PTL
=============================================================================

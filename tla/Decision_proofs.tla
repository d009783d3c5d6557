-------------------------- MODULE Decision_proofs --------------------------
(***************************************************************************)
(* Proofs about Decision for all documents, findings and bounds.           *)
(***************************************************************************)
EXTENDS Contracts, FiniteSetTheorems, WellFoundedInduction, TLAPS

(***************************************************************************)
(* The order on call paths has minimal elements, so ShortestOf chooses one *)
(* of the paths it is given.                                               *)
(***************************************************************************)
Paths == [steps : Nat, site : Nat]

\* A set of numbers has a least one.
LEMMA LeastNatural ==
    ASSUME NEW S \in SUBSET Nat, S # {}
    PROVE  \E m \in S : \A k \in S : m <= k
<1>1. IsWellFoundedOn(OpToRel(<, Nat), Nat)
  BY NatLessThanWellFounded
<1>2. PICK m \in S : \A k \in S : <<k, m>> \notin OpToRel(<, Nat)
  BY <1>1, WFMin
<1>3. \A k \in S : ~(k < m)
  BY <1>2 DEF OpToRel
<1> QED BY <1>3

\* A set of paths has a shortest one.
LEMMA ShortestExists ==
    ASSUME NEW P \in SUBSET Paths, P # {}
    PROVE  \E p \in P : \A q \in P : ~Shorter(q, p)
<1> DEFINE Lengths == {p.steps : p \in P}
<1>1. Lengths \in SUBSET Nat /\ Lengths # {}
  BY DEF Paths
<1>2. PICK n \in Lengths : \A k \in Lengths : n <= k
  BY <1>1, LeastNatural
<1> DEFINE Sites == {p.site : p \in {q \in P : q.steps = n}}
<1>3. Sites \in SUBSET Nat /\ Sites # {}
  BY <1>2 DEF Paths
<1>4. PICK s \in Sites : \A k \in Sites : s <= k
  BY <1>3, LeastNatural
<1>5. PICK p \in P : p.steps = n /\ p.site = s
  BY <1>4
<1>6. ASSUME NEW q \in P PROVE ~Shorter(q, p)
  <2>1. q.steps \in Nat /\ q.site \in Nat /\ n \in Nat /\ s \in Nat /\ n <= q.steps
    BY <1>1, <1>2, <1>3, <1>4 DEF Paths
  <2>2. q.steps = n => s <= q.site
    BY <1>4
  <2> QED BY <1>5, <2>1, <2>2 DEF Shorter
<1> QED BY <1>6

\* ShortestOf chooses one.
LEMMA ShortestOfIsLeast ==
    ASSUME NEW P \in SUBSET Paths, NEW old \in Paths
    PROVE  LET all == IF old = NoPath THEN P ELSE P \cup {old}
           IN  /\ ShortestOf(P, old) \in Paths
               /\ all = {} => ShortestOf(P, old) = NoPath
               /\ all # {} => /\ ShortestOf(P, old) \in all
                              /\ \A q \in all : ~Shorter(q, ShortestOf(P, old))
<1> DEFINE all == IF old = NoPath THEN P ELSE P \cup {old}
<1>1. CASE all = {}
  BY <1>1 DEF ShortestOf, NoPath, Paths
<1>2. CASE all # {}
  <2>1. all \in SUBSET Paths
    OBVIOUS
  <2>2. \E p \in all : \A q \in all : ~Shorter(q, p)
    BY <1>2, <2>1, ShortestExists
  <2>3. ShortestOf(P, old) = CHOOSE p \in all : \A q \in all : ~Shorter(q, p)
    BY <1>2 DEF ShortestOf
  <2> HIDE DEF all
  <2>4. /\ ShortestOf(P, old) \in all
        /\ \A q \in all : ~Shorter(q, ShortestOf(P, old))
    BY <2>2, <2>3
  <2> QED BY <1>2, <2>1, <2>4 DEF all
<1> QED BY <1>1, <1>2

(***************************************************************************)
(* What one observation does to the evidence of one finding.               *)
(***************************************************************************)
Result == LocalisationResults \cup {NotLocalised}

\* An observation keeps the type of the evidence.
LEMMA AddObservationType ==
    ASSUME NEW f \in Findings, NEW r, NEW o \in Observations,
           NEW b \in BOOLEAN, NEW e \in Evidence
    PROVE  AddObservation(f, r, o, b, e) \in Evidence
<1>1. o \in Observation /\ IsFiniteSet(o.calls)
  BY DocumentsAreTyped
<1>2. NamedBy(o) \in SUBSET ObservationIds
  BY <1>1 DEF NamedBy, Observation
<1>3. AddUnresolved(f, o, e) \in Evidence
  <2> DEFINE ids == IF Tied(f, o) THEN e.observationIds \cup NamedBy(o)
                    ELSE e.observationIds
  <2>1. ids \in SUBSET ObservationIds /\ e.imports + 1 \in Nat
    BY <1>2 DEF Evidence
  <2>2. AddUnresolved(f, o, e)
          = [e EXCEPT !.imports = e.imports + 1, !.observationIds = ids]
    BY DEF AddUnresolved
  <2> HIDE DEF ids
  <2> QED BY <2>1, <2>2 DEF Evidence
<1>4. AddTied(o, e) \in Evidence
  BY <1>1, <1>2 DEF AddTied, Evidence, Observation
<1>5. ASSUME NEW t \in Evidence PROVE AddCalls(r, o, t) \in Evidence
  <2> DEFINE paths == {PathOf(cs) : cs \in {x \in Matches(r, o) : HasPath(x)}}
  <2>1. Matches(r, o) \in SUBSET CallSite
    BY <1>1 DEF Matches, ResolvedCalls, Observation
  <2>2. paths \in SUBSET Paths
    BY <2>1 DEF PathOf, CallSite, Paths
  <2>3. t.path \in Paths
    BY DEF Evidence, Paths
  <2>4. ShortestOf(paths, t.path) \in [steps : Nat, site : Nat]
    BY <2>2, <2>3, ShortestOfIsLeast DEF Paths
  <2>5. Cardinality(UnresolvedCalls(o)) \in Nat
    <3>1. UnresolvedCalls(o) \in SUBSET o.calls
      BY DEF UnresolvedCalls
    <3> QED BY <1>1, <3>1, FS_Subset, FS_CardinalityType
  <2>6. {cs.symbol : cs \in Matches(r, o)} \in SUBSET Symbols
    BY <2>1 DEF CallSite
  <2> QED BY <2>4, <2>5, <2>6 DEF AddCalls, Evidence
<1> QED BY <1>3, <1>4, <1>5 DEF AddObservation

\* What one observation adds, and that it takes nothing away.
LEMMA AddObservationEffect ==
    ASSUME NEW f \in Findings, NEW r, NEW o \in Observations,
           NEW b \in BOOLEAN, NEW e \in Evidence
    PROVE  LET n == AddObservation(f, r, o, b, e)
           IN  /\ n.imports >= e.imports
               /\ CouldRefer(f, o, b) => n.imports > 0
               /\ n.calls >= e.calls
               /\ Runtime(f, o) /\ UnresolvedCalls(o) # {} => n.calls > 0
               /\ n.matched = IF Runtime(f, o)
                              THEN e.matched \cup {cs.symbol : cs \in Matches(r, o)}
                              ELSE e.matched
<1>1. o \in Observation /\ IsFiniteSet(o.calls)
  BY DocumentsAreTyped
<1>2. UnresolvedCalls(o) \in SUBSET o.calls
  BY DEF UnresolvedCalls
<1>3. /\ Cardinality(UnresolvedCalls(o)) \in Nat
      /\ UnresolvedCalls(o) # {} => Cardinality(UnresolvedCalls(o)) > 0
  BY <1>1, <1>2, FS_Subset, FS_CardinalityType, FS_EmptySet
<1>4. e.imports \in Nat /\ e.calls \in Nat
  BY DEF Evidence
<1>5. CASE o.resolution = "unresolved" /\ CouldRefer(f, o, b)
  BY <1>4, <1>5 DEF AddObservation, AddUnresolved, Runtime, Evidence
<1>6. CASE ~Runtime(f, o) /\ ~CouldRefer(f, o, b)
  <2>1. AddObservation(f, r, o, b, e) \in {e, AddTied(o, e)}
    BY <1>1, <1>6 DEF AddObservation, Runtime, CouldRefer
  <2>2. /\ AddTied(o, e).imports = e.imports
        /\ AddTied(o, e).calls = e.calls
        /\ AddTied(o, e).matched = e.matched
    BY DEF AddTied, Evidence
  <2> QED BY <1>4, <1>6, <2>1, <2>2
<1>7. CASE Runtime(f, o)
  <2>1. AddObservation(f, r, o, b, e) = AddCalls(r, o, AddTied(o, e))
    BY <1>7 DEF AddObservation, Runtime
  <2>2. AddCalls(r, o, AddTied(o, e)).imports = e.imports
    BY DEF AddCalls, AddTied, Evidence
  <2>3. AddCalls(r, o, AddTied(o, e)).calls = e.calls + Cardinality(UnresolvedCalls(o))
    BY DEF AddCalls, AddTied, Evidence
  <2>4. AddCalls(r, o, AddTied(o, e)).matched
          = e.matched \cup {cs.symbol : cs \in Matches(r, o)}
    BY DEF AddCalls, AddTied, Evidence
  <2>5. ~CouldRefer(f, o, b)
    BY <1>7 DEF Runtime, CouldRefer
  <2> QED BY <1>3, <1>4, <1>7, <2>1, <2>2, <2>3, <2>4, <2>5
<1>8. CouldRefer(f, o, b) => o.resolution = "unresolved"
  BY DEF CouldRefer
<1> QED BY <1>5, <1>6, <1>7, <1>8
(***************************************************************************)
(* Type correctness.                                                       *)
(***************************************************************************)

\* A rating is one of three.
LEMMA RateType ==
    ASSUME NEW h, NEW r, NEW e
    PROVE  Rate(h, r, e) \in {"high", "medium", "low"}
BY DEF Rate

\* A verdict is one of the states.
LEMMA DetermineStateType ==
    ASSUME NEW h, NEW r, NEW x, NEW e
    PROVE  DetermineState(h, r, x, e) \in States
BY DEF DetermineState, States

\* A decision is a record of the document.
LEMMA BuildDecisionType ==
    ASSUME NEW f \in Findings, NEW h, NEW r \in Result, NEW x, NEW e \in Evidence
    PROVE  BuildDecision(f, h, r, x, e) \in DecisionEntry
<1> DEFINE s == DetermineState(h, r, x, e)
<1>1. s \in States
  BY DetermineStateType
<1>2. Rate(h, r, e) \in {"high", "medium", "low"}
  BY RateType
<1>3. RiskBand(f, s) \in {"act_now", "lower_priority", "insufficient_information"}
  BY <1>1 DEF RiskBand, OutweighedByKev
<1>4. VexMapping(s, r, e) \in {"affected", "under_investigation", "omit"}
  <2>1. CASE s = "unsupported"
    BY <2>1 DEF VexMapping
  <2>2. CASE s # "unsupported"
    BY <2>2 DEF VexMapping
  <2> QED BY <2>1, <2>2
<1>5. MethodOf(r) \in Methods /\ LocalisationConfidence(r) \in Ratings
  BY DocumentsAreTyped DEF Result, NotLocalised, LocalisationResult, MethodOf,
     LocalisationConfidence, Methods, Ratings
<1>6. ScanStatusOf(h) \in {"complete", "partial", "failed", Absent}
  BY DEF ScanStatusOf
<1> HIDE DEF s
<1>7. BuildDecision(f, h, r, x, e)
       = [state |-> s, confidence |-> Rate(h, r, e), band |-> RiskBand(f, s),
          statement |-> VexMapping(s, r, e), method |-> MethodOf(r),
          localisationConfidence |-> LocalisationConfidence(r),
          matched |-> e.matched, observationIds |-> e.observationIds,
          level |-> e.level, scanStatus |-> ScanStatusOf(h),
          imports |-> e.imports]
  BY DEF BuildDecision, s
<1>8. /\ e.matched \in SUBSET Symbols /\ e.observationIds \in SUBSET ObservationIds
      /\ e.level \in 0 .. 3 /\ e.imports \in Nat
  BY DEF Evidence
<1> QED BY <1>1, <1>2, <1>3, <1>4, <1>5, <1>6, <1>7, <1>8 DEF DecisionEntry

\* A statement is one the exporter writes, or it fails.
LEMMA MapType ==
    ASSUME NEW d
    PROVE  Map(d) \in {"affected", "under_investigation", "omitted", "error"}
<1>1. CASE MapFails(d)
  BY <1>1 DEF Map
<1>2. CASE ~MapFails(d)
  <2>1. d.state \in States
    BY <1>2 DEF MapFails
  <2>2. Wanted(d) \in {"affected", "under_investigation", "omit"}
    BY <2>1 DEF Wanted, States
  <2> QED BY <1>2, <2>2 DEF Map
<1> QED BY <1>1, <1>2

\* At first.
LEMMA TypeInit == Init => TypeOK
<1> SUFFICES ASSUME Init PROVE TypeOK
  OBVIOUS
<1>1. NoEvidence \in Evidence
  BY DEF NoEvidence, NoPath, Evidence
<1> QED BY <1>1 DEF Init, TypeOK, Phases

\* Every step keeps the types.
LEMMA TypeNext == TypeOK /\ [Next]_vars => TypeOK'
<1> SUFFICES ASSUME TypeOK, [Next]_vars PROVE TypeOK'
  OBVIOUS
<1> USE DEF TypeOK
<1>1. ASSUME NEW f \in Findings, ReadLocalisation(f) PROVE TypeOK'
  BY <1>1 DEF ReadLocalisation
<1>2. CASE EndLocalisation
  BY <1>2 DEF EndLocalisation, Phases
<1>3. ASSUME NEW u \in UnanalysedEntries, ReadUnanalysed(u) PROVE TypeOK'
  <2>1. u.reason \in Reasons
    BY DocumentsAreTyped DEF UnanalysedEntry
  <2>2. reasons' \in [Findings -> SUBSET Reasons]
    BY <1>3, <2>1 DEF ReadUnanalysed
  <2> QED BY <1>3, <2>2 DEF ReadUnanalysed
<1>4. CASE EndUnanalysed
  BY <1>4 DEF EndUnanalysed, Phases
<1>5. ASSUME NEW o \in Observations, ReadObservation(o) PROVE TypeOK'
  <2>1. header.schema13 \in BOOLEAN
    BY DocumentsAreTyped DEF Header
  <2>2. ASSUME NEW f \in Findings
        PROVE  AddObservation(f, loc[f], o, header.schema13, evidence[f]) \in Evidence
    BY <2>1, AddObservationType
  <2>3. evidence' \in [Findings -> Evidence]
    BY <1>5, <2>2 DEF ReadObservation
  <2> QED BY <1>5, <2>3 DEF ReadObservation
<1>6. CASE Decide
  <2>1. ASSUME NEW f \in Findings
        PROVE  BuildDecision(f, header, loc[f], reasons[f], evidence[f]) \in DecisionEntry
    BY BuildDecisionType DEF Result
  <2>2. decisions' \in [Findings -> DecisionEntry \cup {Undecided}]
    BY <1>6, <2>1 DEF Decide
  <2> QED BY <1>6, <2>2 DEF Decide, Phases
<1>7. CASE Export
  <2>1. vex' \in [Findings -> {"none", "affected", "under_investigation", "omitted",
                              "rejected", "error"}]
    <3>1. \A f \in Findings : Map(decisions[f]) \in {"affected", "under_investigation", "omitted", "error"}
      BY MapType
    <3> QED BY <1>7, <3>1 DEF Export
  <2> QED BY <1>7, <2>1 DEF Export, Phases
<1>8. CASE UNCHANGED vars
  BY <1>8 DEF vars
<1> QED BY <1>1, <1>2, <1>3, <1>4, <1>5, <1>6, <1>7, <1>8 DEF Next

\* Every reachable state of the command is well typed, whatever the documents
\* hold: TypeOK of Decision.
THEOREM TypeCorrect == Spec => []TypeOK
BY TypeInit, TypeNext, PTL DEF Spec
(***************************************************************************)
(* The inductive invariant: the accumulators summarise what was read.      *)
(***************************************************************************)
Inv == TypeOK /\ JoinSummarises

\* A matched call site names a symbol.
LEMMA MatchesType ==
    ASSUME NEW r, NEW o \in Observations
    PROVE  \A cs \in Matches(r, o) : cs.symbol \in Symbols
<1>1. o.calls \in SUBSET CallSite
  BY DocumentsAreTyped DEF Observation
<1> QED BY <1>1 DEF Matches, ResolvedCalls, CallSite

\* Nothing has been read.
LEMMA SummaryInit == Init => JoinSummarises
<1> SUFFICES ASSUME Init PROVE JoinSummarises
  OBVIOUS
<1>1. NoEvidence.matched = {}
  BY DEF NoEvidence
<1> QED BY <1>1 DEF Init, JoinSummarises, Witnessed, Decided

\* Every entry read changes the accumulators by what it says.
LEMMA SummaryNext == TypeOK /\ JoinSummarises /\ [Next]_vars => JoinSummarises'
<1> SUFFICES ASSUME TypeOK, JoinSummarises, [Next]_vars PROVE JoinSummarises'
  OBVIOUS
<1>1. ASSUME NEW f \in Findings, ReadLocalisation(f) PROVE JoinSummarises'
  <2>1. observed = {} /\ observed' = {}
    BY <1>1 DEF ReadLocalisation, JoinSummarises
  <2>2. \A g \in Findings : Witnessed(g) = {} /\ Witnessed(g)' = {}
    BY <2>1 DEF Witnessed
  <2>3. /\ ~Decided /\ ~Decided'
        /\ UNCHANGED <<phase, unanalysed, reasons, evidence, decisions>>
    BY <1>1 DEF ReadLocalisation, Decided
  <2> QED BY <2>1, <2>2, <2>3 DEF JoinSummarises
<1>2. CASE EndLocalisation
  BY <1>2 DEF EndLocalisation, JoinSummarises, Witnessed, Decided
<1>3. ASSUME NEW u \in UnanalysedEntries, ReadUnanalysed(u) PROVE JoinSummarises'
  <2>1. /\ observed = {} /\ ~Decided /\ ~Decided'
        /\ UNCHANGED <<phase, observed, header, loc, evidence, decisions>>
    BY <1>3 DEF ReadUnanalysed, JoinSummarises, Decided
  <2>2. ASSUME NEW f \in Findings
        PROVE  /\ \A x \in unanalysed' : Tied(f, x) => x.reason \in reasons'[f]
               /\ \A x \in reasons'[f] : \E y \in unanalysed' : Tied(f, y) /\ y.reason = x
    <3>1. /\ unanalysed' = unanalysed \cup {u}
          /\ reasons'[f] = IF Tied(f, u) THEN reasons[f] \cup {u.reason} ELSE reasons[f]
      BY <1>3 DEF ReadUnanalysed
    <3>2. /\ \A x \in unanalysed : Tied(f, x) => x.reason \in reasons[f]
          /\ \A x \in reasons[f] : \E y \in unanalysed : Tied(f, y) /\ y.reason = x
      BY DEF JoinSummarises
    <3> QED BY <3>1, <3>2
  <2>3. \A f \in Findings : Witnessed(f)' = Witnessed(f)
    BY <2>1 DEF Witnessed
  <2> QED BY <2>1, <2>2, <2>3 DEF JoinSummarises
<1>4. CASE EndUnanalysed
  BY <1>4 DEF EndUnanalysed, JoinSummarises, Witnessed, Decided
<1>5. ASSUME NEW o \in Observations, ReadObservation(o) PROVE JoinSummarises'
  <2>1. /\ observed' = observed \cup {o}
        /\ UNCHANGED <<phase, header, loc, unanalysed, reasons, decisions>>
        /\ phase = "observations"
    BY <1>5 DEF ReadObservation
  <2>2. header.schema13 \in BOOLEAN
    BY DocumentsAreTyped DEF TypeOK, Header
  <2>3. ASSUME NEW f \in Findings
        PROVE  /\ \A x \in observed' :
                     /\ CouldRefer(f, x, header.schema13) => evidence'[f].imports > 0
                     /\ Runtime(f, x) /\ UnresolvedCalls(x) # {} => evidence'[f].calls > 0
               /\ evidence'[f].matched = Witnessed(f)'
    <3> DEFINE new == AddObservation(f, loc[f], o, header.schema13, evidence[f])
    <3>1. evidence'[f] = new
      BY <1>5 DEF ReadObservation
    <3>2. evidence[f] \in Evidence
      BY DEF TypeOK
    <3>3. /\ new.imports >= evidence[f].imports
          /\ CouldRefer(f, o, header.schema13) => new.imports > 0
          /\ new.calls >= evidence[f].calls
          /\ Runtime(f, o) /\ UnresolvedCalls(o) # {} => new.calls > 0
          /\ new.matched = IF Runtime(f, o)
               THEN evidence[f].matched \cup {cs.symbol : cs \in Matches(loc[f], o)}
               ELSE evidence[f].matched
      BY <2>2, <3>2, AddObservationEffect
    <3>4. new \in Evidence
      BY <2>2, <3>2, AddObservationType
    <3>5. /\ evidence[f].imports \in Nat /\ evidence[f].calls \in Nat
          /\ new.imports \in Nat /\ new.calls \in Nat
      BY <3>2, <3>4 DEF Evidence
    <3> HIDE DEF new
    <3>6. \A x \in observed :
             /\ CouldRefer(f, x, header.schema13) => evidence[f].imports > 0
             /\ Runtime(f, x) /\ UnresolvedCalls(x) # {} => evidence[f].calls > 0
      BY DEF JoinSummarises
    <3>7. ASSUME NEW x \in observed'
          PROVE  /\ CouldRefer(f, x, header.schema13) => new.imports > 0
                 /\ Runtime(f, x) /\ UnresolvedCalls(x) # {} => new.calls > 0
      <4>1. CASE x = o
        BY <3>3, <4>1
      <4>2. CASE x \in observed
        BY <3>3, <3>5, <3>6, <4>2
      <4> QED BY <2>1, <4>1, <4>2
    <3>8. evidence[f].matched = Witnessed(f)
      BY DEF JoinSummarises
    <3>9. \A cs \in Matches(loc[f], o) : cs.symbol \in Symbols
      BY MatchesType
    <3>10. Witnessed(f)' = Witnessed(f) \cup
              (IF Runtime(f, o) THEN {cs.symbol : cs \in Matches(loc[f], o)} ELSE {})
      BY <2>1, <3>9 DEF Witnessed
    <3> QED BY <3>1, <3>3, <3>7, <3>8, <3>10
  <2>4. ~Decided /\ ~Decided'
    BY <2>1 DEF Decided
  <2> QED BY <2>1, <2>3, <2>4 DEF JoinSummarises
<1>6. CASE Decide
  BY <1>6 DEF Decide, JoinSummarises, Witnessed, Decided
<1>7. CASE Export
  BY <1>7 DEF Export, JoinSummarises, Witnessed, Decided
<1>8. CASE UNCHANGED vars
  BY <1>8 DEF vars, JoinSummarises, Witnessed, Decided
<1> QED BY <1>1, <1>2, <1>3, <1>4, <1>5, <1>6, <1>7, <1>8 DEF Next

\* The invariant the rest relies on.
LEMMA InvHolds == Spec => []Inv
<1>1. Init => Inv
  BY TypeInit, SummaryInit DEF Inv
<1>2. Inv /\ [Next]_vars => Inv'
  BY TypeNext, SummaryNext DEF Inv
<1> QED BY <1>1, <1>2, PTL DEF Spec

\* The accumulators of BuildFindingInputs' loop summarise the entries read,
\* whatever their order.
THEOREM Summarises == Spec => []JoinSummarises
<1>1. Inv => JoinSummarises
  BY DEF Inv
<1> QED BY <1>1, InvHolds, PTL

(***************************************************************************)
(* What the published verdicts rest on.                                    *)
(***************************************************************************)

\* A set the code takes for closed is exhaustive.
LEMMA ClosedIsExhaustive ==
    ASSUME NEW r \in Result, SetClosed(r)
    PROVE  Exhaustive(r)
<1>1. r.found /\ r.method # "unknown" /\ r.candidates # {}
  BY DEF SetClosed, NamesNothing
<1>2. r.method \in Methods
  BY DocumentsAreTyped DEF Result, NotLocalised, LocalisationResult, Methods
<1>3. r.method \in {"advisory_metadata", "patch_reference", "version_diff"}
  BY <1>1, <1>2 DEF SetClosed, Methods
<1> QED BY <1>1, <1>3 DEF SetClosed, CandidateCloses, CodeDerived, Exhaustive

\* What a negative verdict asks of the evidence.
LEMMA NegativeState ==
    ASSUME NEW h, NEW r, NEW x, NEW e,
           DetermineState(h, r, x, e) = "no_usage_detected"
    PROVE  /\ \A y \in x : ~Blocking(y)
           /\ e.matched = {}
           /\ MayConcludeNegative(h, r, x, e)
BY DEF DetermineState

\* A decision holds the verdict.
LEMMA BuiltState ==
    ASSUME NEW f, NEW h, NEW r, NEW x, NEW e
    PROVE  BuildDecision(f, h, r, x, e).state = DetermineState(h, r, x, e)
BY DEF BuildDecision

\* The verdict written is that of the accumulators.
LEMMA StateDecided ==
    ASSUME JoinSummarises, Decided, NEW f \in Findings
    PROVE  StateOf(f) = DetermineState(header, loc[f], reasons[f], evidence[f])
<1>1. decisions[f] = BuildDecision(f, header, loc[f], reasons[f], evidence[f])
  BY DEF JoinSummarises
<1> QED BY <1>1, BuiltState DEF StateOf

\* A negative rests on the documents, as the accumulators do.
LEMMA EarnedFromInv == Inv => NegativeIsEarned
<1> SUFFICES ASSUME TypeOK, JoinSummarises, Decided, NEW f \in Findings,
                    StateOf(f) = "no_usage_detected"
             PROVE  /\ header.status = "complete" /\ header.discovered > 0
                    /\ ~BlindSpot(f)
                    /\ Exhaustive(loc[f])
                    /\ \A o \in observed : Runtime(f, o) =>
                          \A cs \in ResolvedCalls(o), c \in loc[f].candidates :
                              cs.symbol \notin NamesOf(c)
  BY DEF Inv, NegativeIsEarned
<1>1. DetermineState(header, loc[f], reasons[f], evidence[f]) = "no_usage_detected"
  BY StateDecided
<1>2. /\ \A x \in reasons[f] : ~Blocking(x)
      /\ evidence[f].matched = {}
      /\ MayConcludeNegative(header, loc[f], reasons[f], evidence[f])
  BY <1>1, NegativeState
<1>3. reasons[f] = {}
  BY <1>2 DEF Blocking, MayConcludeNegative
<1>4. SetClosed(loc[f]) /\ header.status = "complete" /\ header.discovered > 0
  BY <1>2 DEF MayConcludeNegative
<1>5. Exhaustive(loc[f])
  BY <1>4, ClosedIsExhaustive DEF TypeOK, Result
<1>6. ~BlindSpot(f)
  <2>1. \A u \in unanalysed : ~Tied(f, u)
    BY <1>3 DEF JoinSummarises
  <2>2. ~(evidence[f].imports > 0) /\ ~(evidence[f].calls > 0)
    BY <1>2 DEF MayConcludeNegative, RelevantUnresolved
  <2>3. \A o \in observed : ~CouldRefer(f, o, header.schema13)
    BY <2>2 DEF JoinSummarises
  <2>4. \A o \in observed : ~(Runtime(f, o) /\ UnresolvedCalls(o) # {})
    BY <2>2 DEF JoinSummarises
  <2> QED BY <2>1, <2>3, <2>4 DEF BlindSpot
<1>7. ASSUME NEW o \in observed, Runtime(f, o),
             NEW cs \in ResolvedCalls(o), NEW c \in loc[f].candidates,
             cs.symbol \in NamesOf(c)
      PROVE  FALSE
  <2>1. ~NamesNothing(loc[f])
    BY <1>4 DEF SetClosed
  <2>2. cs.symbol \in Keys(loc[f])
    BY <1>7, <2>1 DEF Keys
  <2>3. cs \in Matches(loc[f], o)
    BY <2>2 DEF Matches
  <2>4. o \in Observations
    BY DEF TypeOK
  <2>5. cs.symbol \in Witnessed(f)
    BY <1>7, <2>3, <2>4, MatchesType DEF Witnessed
  <2> QED BY <1>2, <2>5 DEF JoinSummarises
<1> QED BY <1>4, <1>5, <1>6, <1>7

\* A negative verdict is published only for a complete analysis with no blind
\* spot and an exhaustive set of names (state.go:155-186): for all documents.
THEOREM NegativesAreEarned == Spec => []NegativeIsEarned
BY InvHolds, EarnedFromInv, PTL

\* Usage rests on an observation, as the matched names do.
LEMMA WitnessedFromInv == Inv => UsageIsWitnessed
<1> SUFFICES ASSUME TypeOK, JoinSummarises, Decided, NEW f \in Findings
             PROVE  (StateOf(f) = "usage_detected") <=>
                       /\ header.status # "unsupported"
                       /\ \A u \in unanalysed : Tied(f, u) => ~Blocking(u.reason)
                       /\ \E o \in observed : /\ Runtime(f, o)
                                              /\ Matches(loc[f], o) # {}
  BY DEF Inv, UsageIsWitnessed
<1>1. StateOf(f) = DetermineState(header, loc[f], reasons[f], evidence[f])
  BY StateDecided
<1>2. (\A u \in unanalysed : Tied(f, u) => ~Blocking(u.reason))
        <=> \A x \in reasons[f] : ~Blocking(x)
  BY DEF JoinSummarises
<1>3. evidence[f].matched # {}
        <=> \E o \in observed : Runtime(f, o) /\ Matches(loc[f], o) # {}
  <2>1. evidence[f].matched = Witnessed(f)
    BY DEF JoinSummarises
  <2>2. \A o \in observed : \A cs \in Matches(loc[f], o) : cs.symbol \in Symbols
    BY MatchesType DEF TypeOK
  <2> QED BY <2>1, <2>2 DEF Witnessed
<1>4. (\E o \in observed : Matches(loc[f], o) # {}) => MethodOf(loc[f]) # "unknown"
  BY DEF Matches, Keys, NamesNothing, MethodOf
<1>5. (StateOf(f) = "usage_detected") <=>
         /\ header.status # "unsupported"
         /\ MethodOf(loc[f]) # "unknown"
         /\ \A x \in reasons[f] : ~Blocking(x)
         /\ evidence[f].matched # {}
  BY <1>1 DEF DetermineState
<1> QED BY <1>2, <1>3, <1>4, <1>5

\* Usage is reported exactly when an observed runtime call witnesses it and
\* nothing blocks the verdict (state.go:167-176): for all documents.
THEOREM UsagesAreWitnessed == Spec => []UsageIsWitnessed
BY InvHolds, WitnessedFromInv, PTL

(***************************************************************************)
(* The exporter accepts what the engine builds.                            *)
(***************************************************************************)

\* A decision of Component 4 passes the checks of the exporter.
LEMMA BuiltMapping ==
    ASSUME NEW f \in Findings, NEW h, NEW r, NEW x, NEW e
    PROVE  LET d == BuildDecision(f, h, r, x, e)
           IN  /\ ~MapFails(d)
               /\ Map(d) \in {"affected", "under_investigation", "omitted"}
               /\ Map(d) = "affected" => /\ d.state = "usage_detected"
                                         /\ LocalisationConfidence(r) \in {"high", "medium"}
               /\ (Map(d) = "omitted") <=> (h.status = "unsupported")
<1> DEFINE d == BuildDecision(f, h, r, x, e)
           s == DetermineState(h, r, x, e)
<1>1. d.state = s /\ d.statement = VexMapping(s, r, e)
  BY DEF BuildDecision
<1>2. s \in States
  BY DetermineStateType
<1>3. (s = "unsupported") <=> (h.status = "unsupported")
  BY DEF DetermineState
<1> HIDE DEF d, s
<1>4. CASE s = "unsupported"
  <2>1. d.statement = "omit"
    BY <1>1, <1>4 DEF VexMapping
  <2>2. Wanted(d) = "omit"
    BY <1>1, <1>4 DEF Wanted
  <2> QED BY <1>1, <1>2, <1>3, <1>4, <2>1, <2>2 DEF MapFails, Map, d
<1>5. CASE s = "usage_detected" /\ LocalisationConfidence(r) \in {"high", "medium"} /\ e.matched # {}
  <2>1. d.statement = "affected"
    BY <1>1, <1>5 DEF VexMapping
  <2>2. Wanted(d) = "affected"
    BY <1>1, <1>5, <2>1 DEF Wanted, Absent
  <2> QED BY <1>1, <1>2, <1>3, <1>5, <2>1, <2>2 DEF MapFails, Map, d
<1>6. CASE s # "unsupported" /\ ~(/\ s = "usage_detected"
                                  /\ LocalisationConfidence(r) \in {"high", "medium"}
                                  /\ e.matched # {})
  <2>1. d.statement = "under_investigation"
    BY <1>1, <1>6 DEF VexMapping
  <2>2. Wanted(d) = "under_investigation"
    BY <1>1, <1>2, <1>6, <2>1 DEF Wanted, States
  <2> QED BY <1>1, <1>2, <1>3, <1>6, <2>1, <2>2 DEF MapFails, Map, d
<1> QED BY <1>4, <1>5, <1>6

Exported == phase = "exported" =>
    vex = [f \in Findings |-> Map(decisions[f])]

\* Export is the only step that writes statements.
LEMMA ExportedNext == Inv /\ Exported /\ [Next]_vars => Exported'
<1> SUFFICES ASSUME Inv, Exported, [Next]_vars PROVE Exported'
  OBVIOUS
<1>1. CASE Export
  <2>1. Decided
    BY <1>1 DEF Export, Decided
  <2>2. \A f \in Findings : ~MapFails(decisions[f])
    BY <2>1, BuiltMapping DEF Inv, JoinSummarises
  <2> QED BY <1>1, <2>2 DEF Export, Exported
<1>2. CASE UNCHANGED vars
  BY <1>2 DEF vars, Exported
<1>3. ASSUME NEW f \in Findings, ReadLocalisation(f) PROVE Exported'
  BY <1>3 DEF ReadLocalisation, Exported
<1>4. ASSUME NEW u \in UnanalysedEntries, ReadUnanalysed(u) PROVE Exported'
  BY <1>4 DEF ReadUnanalysed, Exported
<1>5. ASSUME NEW o \in Observations, ReadObservation(o) PROVE Exported'
  BY <1>5 DEF ReadObservation, Exported
<1>6. CASE EndLocalisation \/ EndUnanalysed \/ Decide
  BY <1>6 DEF EndLocalisation, EndUnanalysed, Decide, Exported
<1> QED BY <1>1, <1>2, <1>3, <1>4, <1>5, <1>6 DEF Next

\* The statements are those of the decisions.
LEMMA AcceptedFromInv == Inv /\ Exported => ExportNeverRejects
<1> SUFFICES ASSUME TypeOK, JoinSummarises, Exported, phase = "exported", NEW f \in Findings
             PROVE  /\ vex[f] \in {"affected", "under_investigation", "omitted"}
                    /\ vex[f] = "affected" =>
                          /\ StateOf(f) = "usage_detected"
                          /\ loc[f].confidence \in {"high", "medium"}
                    /\ (vex[f] = "omitted") <=> (header.status = "unsupported")
  BY DEF Inv, ExportNeverRejects
<1>1. decisions[f] = BuildDecision(f, header, loc[f], reasons[f], evidence[f])
  BY DEF JoinSummarises, Decided
<1>2. vex[f] = Map(decisions[f])
  BY DEF Exported
<1>3. LocalisationConfidence(loc[f]) \in {"high", "medium"}
        => loc[f].confidence \in {"high", "medium"}
  BY DEF LocalisationConfidence
<1> QED BY <1>1, <1>2, <1>3, BuiltMapping DEF StateOf

\* The exporter's policy layer accepts every decision the engine builds, so one
\* finding never costs the whole VEX document (vex/policy.go:31-98).
THEOREM ExportsAccepted == Spec => []ExportNeverRejects
<1>1. Init => Exported
  BY DEF Init, Exported
<1>2. Inv /\ Inv' /\ Exported /\ [Next]_vars => Exported'
  BY ExportedNext
<1> QED BY <1>1, <1>2, InvHolds, AcceptedFromInv, PTL DEF Spec

(***************************************************************************)
(* Decision implements VerdictLedger.                                      *)
(***************************************************************************)

Standing == [f \in Findings |->
               IF phase = "localisation" THEN "pending" ELSE VerdictNow(f)]

\* One more reason withdraws a negative or changes nothing.
LEMMA MoreReasons ==
    ASSUME NEW h, NEW r, NEW x, NEW y, NEW e, x \subseteq y, e.matched = {}
    PROVE  Ledger!Outweighs(DetermineState(h, r, y, e), DetermineState(h, r, x, e))
BY DEF Ledger!Outweighs, DetermineState, MayConcludeNegative

\* More evidence withdraws a negative or proves use.
LEMMA MoreObservations ==
    ASSUME NEW h, NEW r, NEW x, NEW e, NEW n,
           e.imports \in Nat, e.calls \in Nat, n.imports \in Nat, n.calls \in Nat,
           n.imports >= e.imports, n.calls >= e.calls, e.matched \subseteq n.matched
    PROVE  Ledger!Outweighs(DetermineState(h, r, x, n), DetermineState(h, r, x, e))
<1>1. RelevantUnresolved(e) => RelevantUnresolved(n)
  BY DEF RelevantUnresolved
<1>2. MayConcludeNegative(h, r, x, n) => MayConcludeNegative(h, r, x, e)
  BY <1>1 DEF MayConcludeNegative
<1> QED BY <1>2 DEF Ledger!Outweighs, DetermineState

\* Nothing stands at first.
LEMMA LedgerInit == Init => Ledger!Init
<1> SUFFICES ASSUME Init PROVE Ledger!Init
  OBVIOUS
<1>1. \A f \in Findings : decisions[f].state = "undecided"
  BY DEF Init, Undecided
<1> QED BY <1>1 DEF Init, Ledger!Init

\* Every step is a step of the ledger or leaves it alone.
LEMMA LedgerNext == Inv /\ Inv' /\ [Next]_vars => [Ledger!Next]_(Ledger!vars)
<1> SUFFICES ASSUME Inv, Inv', [Next]_vars PROVE [Ledger!Next]_(Ledger!vars)
  OBVIOUS
<1> DEFINE Published == [f \in Findings |-> decisions[f].state]
<1>1. \A f \in Findings : VerdictNow(f) \in Ledger!States /\ VerdictNow(f)' \in Ledger!States
  BY DetermineStateType DEF VerdictNow, Ledger!States, States
<1>2. \A f \in Findings : VerdictNow(f) # "pending" /\ VerdictNow(f)' # "pending"
  BY <1>1 DEF Ledger!States
<1>3. ~Decided => \A f \in Findings : Published[f] = "undecided"
  BY DEF Inv, JoinSummarises, Undecided
<1>4. SUFFICES \/ Ledger!Next
               \/ UNCHANGED Standing /\ UNCHANGED Published
  BY DEF Ledger!vars, Standing
<1>5. ASSUME NEW g \in Findings, ReadLocalisation(g)
      PROVE  UNCHANGED Standing /\ UNCHANGED Published
  BY <1>5 DEF ReadLocalisation, Standing
<1>6. CASE EndLocalisation
  <2>1. /\ \A f \in Findings : Standing[f] = "pending"
        /\ Standing' \in [Findings -> Ledger!States]
        /\ UNCHANGED Published
    BY <1>1, <1>6 DEF EndLocalisation, Standing
  <2> QED BY <2>1 DEF Ledger!Next, Ledger!Localise, Standing
<1>7. ASSUME phase \in {"unanalysed", "observations"}, phase' = phase,
             UNCHANGED decisions,
             \A f \in Findings : Ledger!Outweighs(VerdictNow(f)', VerdictNow(f))
      PROVE  Ledger!Next
  <2>1. ~Decided
    BY <1>7 DEF Decided
  <2>2. Standing = [f \in Findings |-> VerdictNow(f)]
    BY <1>7 DEF Standing
  <2>3. Standing' = [f \in Findings |-> VerdictNow(f)']
    BY <1>7 DEF Standing
  <2>4. UNCHANGED Published
    BY <1>7
  <2>5. Ledger!Learn
    BY <1>1, <1>2, <1>3, <1>7, <2>1, <2>2, <2>3, <2>4 DEF Ledger!Learn, Standing
  <2> QED BY <2>5 DEF Ledger!Next
<1>8. ASSUME NEW u \in UnanalysedEntries, ReadUnanalysed(u)
      PROVE  Ledger!Next
  <2>1. /\ phase = "unanalysed"
        /\ UNCHANGED <<phase, header, loc, observed, evidence, decisions>>
        /\ \A f \in Findings : reasons[f] \subseteq reasons'[f]
    BY <1>8 DEF ReadUnanalysed
  <2>2. \A f \in Findings : evidence[f].matched = {}
    BY <2>1 DEF Inv, JoinSummarises, Witnessed
  <2>3. ASSUME NEW f \in Findings
        PROVE  Ledger!Outweighs(VerdictNow(f)', VerdictNow(f))
    BY <2>1, <2>2, MoreReasons DEF VerdictNow
  <2> QED BY <1>7, <2>1, <2>3
<1>9. CASE EndUnanalysed
  <2>1. UNCHANGED Standing
    BY <1>9 DEF EndUnanalysed, Standing, VerdictNow
  <2> QED BY <1>9, <2>1 DEF EndUnanalysed
<1>10. ASSUME NEW o \in Observations, ReadObservation(o)
       PROVE  Ledger!Next
  <2>1. /\ phase = "observations"
        /\ UNCHANGED <<phase, header, loc, reasons, decisions>>
        /\ \A f \in Findings : evidence'[f] =
              AddObservation(f, loc[f], o, header.schema13, evidence[f])
    BY <1>10 DEF ReadObservation
  <2>2. header.schema13 \in BOOLEAN
    BY DocumentsAreTyped DEF Inv, TypeOK, Header
  <2>3. ASSUME NEW f \in Findings
        PROVE  Ledger!Outweighs(VerdictNow(f)', VerdictNow(f))
    <3>1. evidence[f] \in Evidence /\ evidence'[f] \in Evidence
      BY DEF Inv, TypeOK
    <3>2. /\ evidence'[f].imports >= evidence[f].imports
          /\ evidence'[f].calls >= evidence[f].calls
          /\ evidence[f].matched \subseteq evidence'[f].matched
      <4> DEFINE new == AddObservation(f, loc[f], o, header.schema13, evidence[f])
      <4>1. /\ new.imports >= evidence[f].imports
            /\ new.calls >= evidence[f].calls
            /\ new.matched = IF Runtime(f, o)
                 THEN evidence[f].matched \cup {cs.symbol : cs \in Matches(loc[f], o)}
                 ELSE evidence[f].matched
        BY <2>2, <3>1, AddObservationEffect
      <4>2. evidence'[f] = new
        BY <2>1
      <4> HIDE DEF new
      <4> QED BY <4>1, <4>2
    <3>3. /\ evidence[f].imports \in Nat /\ evidence[f].calls \in Nat
          /\ evidence'[f].imports \in Nat /\ evidence'[f].calls \in Nat
      BY <3>1 DEF Evidence
    <3> QED BY <2>1, <3>2, <3>3, MoreObservations DEF VerdictNow
  <2> QED BY <1>7, <2>1, <2>3
<1>11. CASE Decide
  <2>1. phase = "observations" /\ phase' = "decided"
    BY <1>11 DEF Decide
  <2>2. UNCHANGED Standing
    BY <1>11 DEF Decide, Standing, VerdictNow
  <2>3. Published' = Standing
    <3>1. \A f \in Findings : StateOf(f)' = VerdictNow(f)
      <4>1. \A f \in Findings : decisions'[f]
              = BuildDecision(f, header, loc[f], reasons[f], evidence[f])
        BY <1>11 DEF Decide
      <4> QED BY <4>1, BuiltState DEF StateOf, VerdictNow
    <3> QED BY <2>1, <3>1 DEF StateOf, Standing
  <2>4. \A f \in Findings : Standing[f] # "pending" /\ Published[f] = "undecided"
    BY <1>2, <1>3, <2>1 DEF Standing, Decided
  <2>5. Ledger!Publish
    BY <2>2, <2>3, <2>4 DEF Ledger!Publish, Standing
  <2> QED BY <2>5 DEF Ledger!Next
<1>12. CASE Export
  BY <1>12 DEF Export, Standing, VerdictNow
<1>13. CASE UNCHANGED vars
  BY <1>13 DEF vars, Standing, VerdictNow
<1> QED BY <1>5, <1>6, <1>8, <1>9, <1>10, <1>11, <1>12, <1>13 DEF Next

\* The command keeps the promise of VerdictLedger: more evidence never yields a
\* negative or withdraws proof of use (state.go:155-186, join.go:344-397).
THEOREM DecisionImplementsLedger == Spec => LedgerSpec
BY LedgerInit, LedgerNext, InvHolds, PTL DEF Spec, LedgerSpec, Ledger!Spec

(***************************************************************************)
(* A high rating, and what the contract's validator asks of a decision.    *)
(***************************************************************************)

\* A runtime import of f's package with a call that matches a localised name and
\* is reached from an entry point.
PathMatched(f) ==
    \E o \in observed : Runtime(f, o) /\ \E cs \in Matches(loc[f], o) : HasPath(cs)

\* The same with a name taken from the package's own code.
CodeMatched(f) ==
    \E o \in observed : /\ Runtime(f, o)
                        /\ \E cs \in Matches(loc[f], o) : cs.symbol \in CodeKeys(loc[f])

\* The flags of the evidence stand for observations that were read, and every
\* observation cited is one of them.
Witnesses ==
    \A f \in Findings :
        /\ evidence[f].agree => PathMatched(f)
        /\ evidence[f].codeMatched => CodeMatched(f)
        /\ evidence[f].observationIds \subseteq {o.id : o \in observed}

\* What the observation o may add to the flags and to the observations cited:
\* evidence e becomes n.
OneMore(f, r, o, e, n) ==
    /\ n.agree => \/ e.agree
                  \/ Runtime(f, o) /\ \E cs \in Matches(r, o) : HasPath(cs)
    /\ n.codeMatched => \/ e.codeMatched
                        \/ /\ Runtime(f, o)
                           /\ \E cs \in Matches(r, o) : cs.symbol \in CodeKeys(r)
    /\ n.observationIds \subseteq e.observationIds \cup {o.id}

\* AddObservation adds no more than that.
LEMMA AddObservationWitness ==
    \A f \in Findings, o \in Observations, b \in BOOLEAN, e \in Evidence :
        \A r : OneMore(f, r, o, e, AddObservation(f, r, o, b, e))
<1> SUFFICES ASSUME NEW f \in Findings, NEW o \in Observations,
                    NEW b \in BOOLEAN, NEW e \in Evidence, NEW r,
                    NEW n, n = AddObservation(f, r, o, b, e)
             PROVE  OneMore(f, r, o, e, n)
  OBVIOUS
<1>1. AddUnresolved(f, o, e).agree = e.agree
      /\ AddUnresolved(f, o, e).codeMatched = e.codeMatched
      /\ AddUnresolved(f, o, e).observationIds \subseteq e.observationIds \cup {o.id}
  BY DEF AddUnresolved, NamedBy, Evidence
<1>2. AddTied(o, e).agree = e.agree
      /\ AddTied(o, e).codeMatched = e.codeMatched
      /\ AddTied(o, e).observationIds \subseteq e.observationIds \cup {o.id}
  BY DEF AddTied, NamedBy, Evidence
<1>3. CASE Runtime(f, o)
  <2>1. n = AddCalls(r, o, AddTied(o, e))
    BY <1>3 DEF AddObservation, Runtime
  <2> DEFINE t == AddTied(o, e)
             paths == {PathOf(cs) : cs \in {x \in Matches(r, o) : HasPath(x)}}
  <2>2. /\ n.observationIds = t.observationIds
        /\ n.codeMatched = (t.codeMatched \/ \E cs \in Matches(r, o) : cs.symbol \in CodeKeys(r))
        /\ n.agree = (t.agree \/ paths # {})
    BY <2>1 DEF AddCalls
  <2>3. paths # {} => \E cs \in Matches(r, o) : HasPath(cs)
    OBVIOUS
  <2> QED
    BY <1>2, <1>3, <2>2, <2>3 DEF OneMore
<1>4. CASE ~Runtime(f, o)
  <2>1. n \in {e, AddTied(o, e), AddUnresolved(f, o, e)}
    BY <1>4 DEF AddObservation, Runtime
  <2> QED
    BY <1>1, <1>2, <2>1 DEF OneMore
<1> QED
  BY <1>3, <1>4

\* Nothing is flagged at first.
LEMMA WitnessesInit == Init => Witnesses
<1> SUFFICES ASSUME Init PROVE Witnesses
  OBVIOUS
<1>1. NoEvidence.agree = FALSE /\ NoEvidence.codeMatched = FALSE
      /\ NoEvidence.observationIds = {}
  BY DEF NoEvidence
<1> QED
  BY <1>1 DEF Init, Witnesses

\* The evidence changes with the observations only, and they are read after the
\* localisation.
LEMMA WitnessesNext == Inv /\ Witnesses /\ [Next]_vars => Witnesses'
<1> SUFFICES ASSUME TypeOK, JoinSummarises, Witnesses, [Next]_vars PROVE Witnesses'
  BY DEF Inv
<1>1. ASSUME NEW g \in Findings, ReadLocalisation(g) PROVE Witnesses'
  <2>1. observed = {} /\ observed' = {} /\ evidence' = evidence
    BY <1>1 DEF ReadLocalisation, JoinSummarises
  <2> QED
    BY <2>1 DEF Witnesses, PathMatched, CodeMatched
<1>2. ASSUME UNCHANGED <<loc, observed, evidence>> PROVE Witnesses'
  BY <1>2 DEF Witnesses, PathMatched, CodeMatched
<1>3. ASSUME NEW o \in Observations, ReadObservation(o) PROVE Witnesses'
  <2>1. /\ observed' = observed \cup {o} /\ loc' = loc
        /\ \A f \in Findings : evidence'[f] =
              AddObservation(f, loc[f], o, header.schema13, evidence[f])
    BY <1>3 DEF ReadObservation
  <2>2. header.schema13 \in BOOLEAN
    BY DocumentsAreTyped DEF TypeOK, Header
  <2>3. ASSUME NEW f \in Findings
        PROVE  /\ evidence'[f].agree => PathMatched(f)'
               /\ evidence'[f].codeMatched => CodeMatched(f)'
               /\ evidence'[f].observationIds \subseteq {x.id : x \in observed'}
    <3> DEFINE n == evidence'[f]
               e == evidence[f]
    <3>1. n = AddObservation(f, loc[f], o, header.schema13, e) /\ e \in Evidence
      BY <2>1 DEF TypeOK
    <3> HIDE DEF n, e
    <3>2. OneMore(f, loc[f], o, e, n)
      BY <2>2, <3>1, AddObservationWitness
    <3>3. /\ e.agree => PathMatched(f)
          /\ e.codeMatched => CodeMatched(f)
          /\ e.observationIds \subseteq {x.id : x \in observed}
      BY DEF Witnesses, e
    <3>4. n.agree => PathMatched(f)'
      BY <2>1, <3>2, <3>3 DEF OneMore, PathMatched
    <3>5. n.codeMatched => CodeMatched(f)'
      BY <2>1, <3>2, <3>3 DEF OneMore, CodeMatched
    <3>6. n.observationIds \subseteq {x.id : x \in observed'}
      BY <2>1, <3>2, <3>3 DEF OneMore
    <3> QED
      BY <3>4, <3>5, <3>6 DEF n
  <2> QED
    BY <2>3 DEF Witnesses
<1>4. CASE EndLocalisation \/ EndUnanalysed \/ Decide \/ Export \/ UNCHANGED vars
  BY <1>2, <1>4 DEF EndLocalisation, EndUnanalysed, Decide, Export, vars
<1>5. ASSUME NEW u \in UnanalysedEntries, ReadUnanalysed(u) PROVE Witnesses'
  BY <1>2, <1>5 DEF ReadUnanalysed
<1> QED
  BY <1>1, <1>3, <1>4, <1>5 DEF Next

\* Flags stand for observations throughout.
LEMMA WitnessesHold == Spec => []Witnesses
BY WitnessesInit, WitnessesNext, InvHolds, PTL DEF Spec

\* A high rating needs everything the confidence table asks of it.
LEMMA HighRate ==
    ASSUME NEW h, NEW r, NEW e \in Evidence, Rate(h, r, e) = "high"
    PROVE  /\ r.found /\ r.method \in {"advisory_metadata", "patch_reference"}
           /\ e.imports = 0 /\ e.calls = 0 /\ e.agree
           /\ e.matched = {} \/ e.codeMatched
<1>1. RatesHigh(h, r, e)
  BY DEF Rate
<1>2. Quality(MethodOf(r)) = 3 /\ e.imports = 0 /\ e.calls = 0 /\ MethodsAgree(e)
  BY <1>1 DEF RatesHigh
<1>3. MethodOf(r) \in {"advisory_metadata", "patch_reference"}
  BY <1>2 DEF Quality
<1>4. r.found /\ r.method = MethodOf(r)
  BY <1>3 DEF MethodOf
<1> QED
  BY <1>2, <1>3, <1>4 DEF MethodsAgree, ProseOnly

\* A high rating rests on a reachable call that was read.
LEMMA CorroboratedFromInv == Inv /\ Witnesses => HighIsCorroborated
<1> SUFFICES ASSUME TypeOK, JoinSummarises, Witnesses, Decided, NEW f \in Findings,
                    decisions[f].confidence = "high"
             PROVE  /\ loc[f].method \in {"advisory_metadata", "patch_reference"}
                    /\ \E o \in observed : Runtime(f, o) /\
                          \E cs \in Matches(loc[f], o) :
                              cs.reachability = "reachable" /\ cs.entry /\ cs.steps > 0
                    /\ \E o \in observed : Runtime(f, o) /\
                          \E cs \in Matches(loc[f], o), c \in loc[f].candidates :
                              /\ cs.symbol \in NamesOf(c)
                              /\ c.visibility = "internal" => c.source = "export_resolution"
                    /\ \A o \in observed : ~CouldRefer(f, o, header.schema13)
                    /\ \A o \in observed : Runtime(f, o) => UnresolvedCalls(o) = {}
  BY DEF Inv, HighIsCorroborated
<1>1. evidence[f] \in Evidence
  BY DEF TypeOK
<1>2. decisions[f] = BuildDecision(f, header, loc[f], reasons[f], evidence[f])
  BY DEF JoinSummarises
<1>3. Rate(header, loc[f], evidence[f]) = "high"
  BY <1>2 DEF BuildDecision
<1>4. /\ loc[f].found /\ loc[f].method \in {"advisory_metadata", "patch_reference"}
      /\ evidence[f].imports = 0 /\ evidence[f].calls = 0 /\ evidence[f].agree
      /\ evidence[f].matched = {} \/ evidence[f].codeMatched
  BY <1>1, <1>3, HighRate
<1>5. PICK o \in observed : Runtime(f, o) /\ \E cs \in Matches(loc[f], o) : HasPath(cs)
  BY <1>4 DEF Witnesses, PathMatched
<1>6. evidence[f].codeMatched
  <2>1. PICK cs \in Matches(loc[f], o) : TRUE
    BY <1>5
  <2>2. cs.symbol \in Symbols
    BY MatchesType DEF TypeOK
  <2>3. cs.symbol \in Witnessed(f)
    BY <1>5, <2>2 DEF Witnessed
  <2> QED
    BY <1>4, <2>3 DEF JoinSummarises
<1>7. PICK p \in observed :
         /\ Runtime(f, p)
         /\ \E cs \in Matches(loc[f], p) : cs.symbol \in CodeKeys(loc[f])
  BY <1>6 DEF Witnesses, CodeMatched
<1>10. PICK cs \in Matches(loc[f], p) : cs.symbol \in CodeKeys(loc[f])
  BY <1>7
<1>8. PICK c \in loc[f].candidates : CodeDerived(loc[f], c) /\ cs.symbol \in NamesOf(c)
  BY <1>10 DEF CodeKeys
<1>9. /\ \A x \in observed : ~CouldRefer(f, x, header.schema13)
      /\ \A x \in observed : Runtime(f, x) => UnresolvedCalls(x) = {}
  <2>1. ~(evidence[f].imports > 0) /\ ~(evidence[f].calls > 0)
    BY <1>4
  <2> QED
    BY <2>1 DEF JoinSummarises
<1> QED
  BY <1>4, <1>5, <1>7, <1>10, <1>8, <1>9 DEF HasPath, CodeDerived

\* A high rating rests on a second method, on a name from the package's own code
\* and on a package without blind spots (confidence.go:91-96): for all documents.
THEOREM HighsAreCorroborated == Spec => []HighIsCorroborated
BY InvHolds, WitnessesHold, CorroboratedFromInv, PTL

\* What a decision says of a finding, field by field.
LEMMA DecisionSays ==
    ASSUME TypeOK, JoinSummarises, Decided, NEW f \in Findings
    PROVE  LET s == DetermineState(header, loc[f], reasons[f], evidence[f])
           IN  /\ decisions[f].state = s
               /\ decisions[f].statement = VexMapping(s, loc[f], evidence[f])
               /\ decisions[f].method = MethodOf(loc[f])
               /\ decisions[f].localisationConfidence = LocalisationConfidence(loc[f])
               /\ decisions[f].matched = evidence[f].matched
               /\ decisions[f].observationIds = evidence[f].observationIds
               /\ decisions[f].scanStatus = ScanStatusOf(header)
               /\ decisions[f].imports = evidence[f].imports
<1>1. decisions[f] = BuildDecision(f, header, loc[f], reasons[f], evidence[f])
  BY DEF JoinSummarises
<1> QED
  BY <1>1 DEF BuildDecision

\* Each check of validate.py, for an analysed scan.
LEMMA AcceptedByValidator == Inv /\ Witnesses => ValidatorAcceptsAnalysed
<1> SUFFICES ASSUME TypeOK, JoinSummarises, Witnesses, Decided,
                    header.status # "unsupported", NEW f \in Findings
             PROVE  Accepts(f)
  BY DEF Inv, ValidatorAcceptsAnalysed
<1> DEFINE d == decisions[f]
           s == DetermineState(header, loc[f], reasons[f], evidence[f])
<1>1. /\ d.state = s /\ d.statement = VexMapping(s, loc[f], evidence[f])
      /\ d.method = MethodOf(loc[f])
      /\ d.localisationConfidence = LocalisationConfidence(loc[f])
      /\ d.matched = evidence[f].matched /\ d.observationIds = evidence[f].observationIds
      /\ d.scanStatus = ScanStatusOf(header) /\ d.imports = evidence[f].imports
  BY DecisionSays
<1>2. evidence[f].imports \in Nat
  BY DEF TypeOK, Evidence
<1>3. s \in States
  BY DetermineStateType
<1>4. d.method = "unknown" => s = "unknown"
  BY <1>1 DEF DetermineState
<1>5. ASSUME s = "no_usage_detected"
      PROVE  /\ header.status = "complete" /\ header.discovered > 0
             /\ ~RelevantUnresolved(evidence[f])
             /\ \A u \in unanalysed : ~Tied(f, u)
  <2>1. /\ \A y \in reasons[f] : ~Blocking(y)
        /\ MayConcludeNegative(header, loc[f], reasons[f], evidence[f])
    BY <1>5, NegativeState
  <2>2. reasons[f] = {}
    BY <2>1 DEF Blocking, MayConcludeNegative
  <2> QED
    BY <2>1, <2>2 DEF MayConcludeNegative, JoinSummarises
<1>6. s = "no_usage_detected" \/ s = "unknown" => d.statement = "under_investigation"
  BY <1>1 DEF VexMapping
<1>7. d.statement = "affected" =>
         /\ evidence[f].matched # {}
         /\ LocalisationConfidence(loc[f]) \in {"high", "medium"}
  BY <1>1, <1>3 DEF VexMapping, States
<1>8. d.observationIds \subseteq {o.id : o \in observed}
  BY <1>1 DEF Witnesses
<1>9. ASSUME s = "no_usage_detected"
      PROVE  d.scanStatus = "complete" /\ d.imports = 0
  BY <1>1, <1>2, <1>5, <1>9 DEF ScanStatusOf, RelevantUnresolved
<1> HIDE DEF s
<1> QED
  BY <1>1, <1>4, <1>5, <1>6, <1>7, <1>8, <1>9 DEF Accepts

\* contracts/validate.py accepts every document of an analysis that was not
\* refused outright (state.go:163-165): for all documents.
THEOREM ValidatorAcceptsAll == Spec => []ValidatorAcceptsAnalysed
BY InvHolds, WitnessesHold, AcceptedByValidator, PTL
=============================================================================

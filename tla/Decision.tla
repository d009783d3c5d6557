------------------------------ MODULE Decision ------------------------------
(***************************************************************************)
(* sbomber decide, then sbomber vex: Component 4 reads a localisation      *)
(* report and a usage graph entry by entry, decides every finding of the   *)
(* scan, and the exporter maps the decisions to an OpenVEX document.       *)
(*                                                                         *)
(* The documents are not fixed in advance: the next entry of each list is  *)
(* whatever the upstream producer wrote there, so every order and every    *)
(* selection of entries is a behaviour.  BuildFindingInputs reads the      *)
(* lists once per finding, and the findings share nothing while they are   *)
(* read; a step here reads one entry for all of them.                      *)
(***************************************************************************)
EXTENDS DecisionRules

CONSTANTS
    Headers,              \* usage-graph headers the producer may write
    LocalisationResults,  \* results the localiser may write for a finding
    UnanalysedEntries,    \* entries of unanalysedOccurrences
    Observations,         \* entries of observations
    MaxUnanalysed, MaxObservations  \* bounds on the two lists

ASSUME DocumentsAreTyped ==
    /\ Headers \subseteq Header
    /\ LocalisationResults \subseteq LocalisationResult
    /\ \A r \in LocalisationResults : r.found
    /\ UnanalysedEntries \subseteq UnanalysedEntry
    /\ Observations \subseteq Observation
    /\ \A o \in Observations : IsFiniteSet(o.calls)
    /\ MaxUnanalysed \in Nat /\ MaxObservations \in Nat

VARIABLES
    phase,       \* the list being read, then what has been written
    header,      \* the header of the usage graph
    loc,         \* locByFinding
    unanalysed,  \* the entries of unanalysedOccurrences read so far
    observed,    \* the observations read so far
    reasons,     \* finding -> unanalysed reasons tied to it
    evidence,    \* finding -> what the observations read add up to
    decisions,   \* finding -> its entry in decision-results.json
    vex          \* finding -> OpenVEX status, or why there is none

vars == <<phase, header, loc, unanalysed, observed, reasons, evidence,
          decisions, vex>>

Phases == {"localisation", "unanalysed", "observations", "decided", "exported"}

NotLocalised == [found |-> FALSE, method |-> "unknown", confidence |-> "none",
                 candidates |-> {}]
Undecided == [state |-> "undecided"]

Init == /\ phase = "localisation"
        /\ header \in Headers
        /\ loc = [f \in Findings |-> NotLocalised]
        /\ unanalysed = {}
        /\ observed = {}
        /\ reasons = [f \in Findings |-> {}]
        /\ evidence = [f \in Findings |-> NoEvidence]
        /\ decisions = [f \in Findings |-> Undecided]
        /\ vex = [f \in Findings |-> "none"]

-----------------------------------------------------------------------------
\* A later result for the same finding replaces the earlier one.
ReadLocalisation(f) ==
    /\ phase = "localisation"
    /\ \E r \in LocalisationResults : loc' = [loc EXCEPT ![f] = r]
    /\ UNCHANGED <<phase, header, unanalysed, observed, reasons, evidence,
                   decisions, vex>>

EndLocalisation ==
    /\ phase = "localisation"
    /\ phase' = "unanalysed"
    /\ UNCHANGED <<header, loc, unanalysed, observed, reasons, evidence,
                   decisions, vex>>

ReadUnanalysed(u) ==
    /\ phase = "unanalysed"
    /\ u \notin unanalysed
    /\ Cardinality(unanalysed) < MaxUnanalysed
    /\ unanalysed' = unanalysed \cup {u}
    /\ reasons' = [f \in Findings |->
                     IF Tied(f, u) THEN reasons[f] \cup {u.reason} ELSE reasons[f]]
    /\ UNCHANGED <<phase, header, loc, observed, evidence, decisions, vex>>

EndUnanalysed ==
    /\ phase = "unanalysed"
    /\ phase' = "observations"
    /\ UNCHANGED <<header, loc, unanalysed, observed, reasons, evidence,
                   decisions, vex>>

\* Every observation has its own observationId or location, so the list is a
\* set read in some order.
ReadObservation(o) ==
    /\ phase = "observations"
    /\ o \notin observed
    /\ Cardinality(observed) < MaxObservations
    /\ observed' = observed \cup {o}
    /\ evidence' = [f \in Findings |->
                      AddObservation(f, loc[f], o, header.schema13, evidence[f])]
    /\ UNCHANGED <<phase, header, loc, unanalysed, reasons, decisions, vex>>

\* BuildResults decides every finding and writes the document once.
Decide ==
    /\ phase = "observations"
    /\ phase' = "decided"
    /\ decisions' = [f \in Findings |->
                       BuildDecision(f, header, loc[f], reasons[f], evidence[f])]
    /\ UNCHANGED <<header, loc, unanalysed, observed, reasons, evidence, vex>>

\* Export: one rejected decision fails the whole document.
Export ==
    /\ phase = "decided"
    /\ phase' = "exported"
    /\ vex' = IF \E f \in Findings : MapFails(decisions[f])
              THEN [f \in Findings |-> "rejected"]
              ELSE [f \in Findings |-> Map(decisions[f])]
    /\ UNCHANGED <<header, loc, unanalysed, observed, reasons, evidence, decisions>>

Next == \/ \E f \in Findings : ReadLocalisation(f)
        \/ EndLocalisation
        \/ \E u \in UnanalysedEntries : ReadUnanalysed(u)
        \/ EndUnanalysed
        \/ \E o \in Observations : ReadObservation(o)
        \/ Decide
        \/ Export

Spec == Init /\ [][Next]_vars

-----------------------------------------------------------------------------
(* Type invariant.                                                          *)

Evidence == [observationIds : SUBSET ObservationIds, matched : SUBSET Symbols,
             codeMatched : BOOLEAN, agree : BOOLEAN,
             path : [steps : Nat, site : Nat], level : 0 .. 3,
             imports : Nat, calls : Nat]

DecisionEntry == [state : States, confidence : {"high", "medium", "low"},
                  band : {"act_now", "lower_priority", "insufficient_information"},
                  statement : {"affected", "under_investigation", "omit"},
                  method : Methods, localisationConfidence : Ratings,
                  matched : SUBSET Symbols, observationIds : SUBSET ObservationIds,
                  level : 0 .. 3, scanStatus : {"complete", "partial", "failed", Absent},
                  imports : Nat]

\* Every variable has its type; decisions exist once Decide has run.
TypeOK == /\ phase \in Phases
          /\ header \in Headers
          /\ loc \in [Findings -> LocalisationResults \cup {NotLocalised}]
          /\ unanalysed \in SUBSET UnanalysedEntries
          /\ observed \in SUBSET Observations
          /\ reasons \in [Findings -> SUBSET Reasons]
          /\ evidence \in [Findings -> Evidence]
          /\ decisions \in [Findings -> DecisionEntry \cup {Undecided}]
          /\ vex \in [Findings -> {"none", "affected", "under_investigation", "omitted",
                                   "rejected", "error"}]

-----------------------------------------------------------------------------
(* Safety.                                                                  *)

Decided == phase \in {"decided", "exported"}

StateOf(f) == decisions[f].state

\* The documents speak of f's package somewhere the analysis could not see.
BlindSpot(f) ==
    \/ \E u \in unanalysed : Tied(f, u)
    \/ \E o \in observed : CouldRefer(f, o, header.schema13)
    \/ \E o \in observed : Runtime(f, o) /\ UnresolvedCalls(o) # {}

\* A name the advisory's function can be called by is known for certain only
\* through a public candidate or an exhaustive walk over the package's exports.
Exhaustive(r) ==
    /\ r.found /\ r.method \in {"advisory_metadata", "patch_reference", "version_diff"}
    /\ r.candidates # {}
    /\ \A c \in r.candidates :
          \/ c.visibility = "public"
          \/ /\ c.visibility = "internal" /\ c.exposedVia # {}
             /\ c.source = "export_resolution" /\ c.complete

\* A negative verdict (join.go:12-30, state.go:155-186) is published only when
\* the analysis was complete and saw source files, nothing anywhere in the
\* documents about the package escaped it, the names searched for are all the
\* names there are, and no observed runtime call uses one of them.
NegativeIsEarned ==
    Decided => \A f \in Findings : StateOf(f) = "no_usage_detected" =>
        /\ header.status = "complete" /\ header.discovered > 0
        /\ ~BlindSpot(f)
        /\ Exhaustive(loc[f])
        /\ \A o \in observed : Runtime(f, o) =>
              \A cs \in ResolvedCalls(o), c \in loc[f].candidates :
                  cs.symbol \notin NamesOf(c)

\* Usage is reported exactly when some runtime import of the package's own
\* occurrence carries a resolved call to a name localisation supplied, whatever
\* order the observations come in and however partial the analysis was; only an
\* unsupported analysis or a blocking unanalysed occurrence withholds it
\* (state.go:167-176).
UsageIsWitnessed ==
    Decided => \A f \in Findings :
        (StateOf(f) = "usage_detected") <=>
            /\ header.status # "unsupported"
            /\ \A u \in unanalysed : Tied(f, u) => ~Blocking(u.reason)
            /\ \E o \in observed : /\ Runtime(f, o)
                                   /\ Matches(loc[f], o) # {}

\* A high rating rests on a second method: a resolved call path of an observed
\* call to a localised name, at least one name taken from the package's own
\* code, and a package with no blind spot but unanalysed occurrences
\* (confidence.go:91-96, the #139 condition 3).
HighIsCorroborated ==
    Decided => \A f \in Findings : decisions[f].confidence = "high" =>
        /\ loc[f].method \in {"advisory_metadata", "patch_reference"}
        /\ \E o \in observed : Runtime(f, o) /\
              \E cs \in Matches(loc[f], o) :
                  cs.reachability = "reachable" /\ cs.entry /\ cs.steps > 0
        /\ \E o \in observed : Runtime(f, o) /\
              \E cs \in Matches(loc[f], o), c \in loc[f].candidates :
                  /\ cs.symbol \in NamesOf(c)
                  /\ c.visibility = "internal" => c.source = "export_resolution"
        /\ \A o \in observed : ~CouldRefer(f, o, header.schema13)
        /\ \A o \in observed : Runtime(f, o) => UnresolvedCalls(o) = {}

\* The exporter's policy layer (vex/policy.go:31-98) checks Component 4's
\* mapping against the state and fails the whole document on a contradiction:
\* no decision Component 4 builds is one.  affected is published only for a
\* localisation rated high or medium, a finding is left out only when it was
\* not analysed.
ExportNeverRejects ==
    phase = "exported" => \A f \in Findings :
        /\ vex[f] \in {"affected", "under_investigation", "omitted"}
        /\ vex[f] = "affected" =>
              /\ StateOf(f) = "usage_detected"
              /\ loc[f].confidence \in {"high", "medium"}
        /\ (vex[f] = "omitted") <=> (header.status = "unsupported")

-----------------------------------------------------------------------------
(* Why the properties above hold: while the documents are read, the         *)
(* accumulators of a finding summarise the entries read, in no particular   *)
(* order, and a decision is the one the summary calls for.                  *)

Witnessed(f) == {s \in Symbols :
                   \E o \in observed : /\ Runtime(f, o)
                                       /\ \E cs \in Matches(loc[f], o) : cs.symbol = s}

\* Relied on by NegativeIsEarned and UsageIsWitnessed; join.go:344-397 is the
\* loop whose accumulators it describes.
JoinSummarises ==
    /\ phase \in {"localisation", "unanalysed"} => observed = {}
    /\ \A f \in Findings :
          /\ \A u \in unanalysed : Tied(f, u) => u.reason \in reasons[f]
          /\ \A x \in reasons[f] : \E u \in unanalysed : Tied(f, u) /\ u.reason = x
          /\ \A o \in observed :
                /\ CouldRefer(f, o, header.schema13) => evidence[f].imports > 0
                /\ Runtime(f, o) /\ UnresolvedCalls(o) # {} => evidence[f].calls > 0
          /\ evidence[f].matched = Witnessed(f)
          /\ decisions[f] =
                IF Decided
                THEN BuildDecision(f, header, loc[f], reasons[f], evidence[f])
                ELSE Undecided

-----------------------------------------------------------------------------
(* The verdicts as VerdictLedger sees them: the verdict of a finding stands *)
(* from the moment localisation has been read.                              *)

VerdictNow(f) == DetermineState(header, loc[f], reasons[f], evidence[f])

Ledger == INSTANCE VerdictLedger WITH
    standing <- [f \in Findings |->
                   IF phase = "localisation" THEN "pending" ELSE VerdictNow(f)],
    published <- [f \in Findings |-> decisions[f].state]

\* Reading one more unanalysed occurrence or observation never turns an unknown
\* into a negative and never withdraws proof of use; the verdict written is the
\* one that stood at the end (state.go:155-186, join.go:344-397).
LedgerSpec == Ledger!Spec
=============================================================================

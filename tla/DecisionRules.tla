--------------------------- MODULE DecisionRules ---------------------------
(***************************************************************************)
(* What Component 4 concludes from the evidence of one finding             *)
(* (internal/decision: state.go, confidence.go, results.go): the state     *)
(* guard, the confidence table, the risk band and the VEX mapping; and the *)
(* policy layer of the VEX exporter (internal/vex/policy.go) that reads    *)
(* the mapping back.                                                       *)
(*                                                                         *)
(* h is the header of the usage graph: its analysis status, its file       *)
(* counts and whether its schema is 1.3.0 or later.                        *)
(***************************************************************************)
EXTENDS EvidenceJoin, Integers

Header == [status : Statuses, schema13 : BOOLEAN, discovered : Int, parsed : Int]

States == {"usage_detected", "no_usage_detected", "unknown", "unsupported"}

-----------------------------------------------------------------------------
(* The state guard.                                                         *)

Blocking(reason) == reason # "not_imported_by_analysed_source"

RelevantUnresolved(e) == e.imports > 0 \/ e.calls > 0

\* Mutant: absence of an application import is taken for absence of usage.
MayConcludeNegativeUnimported(h, r, reasons, e) ==
    /\ h.status = "complete"
    /\ h.discovered > 0
    /\ ~RelevantUnresolved(e)
    /\ SetClosed(r)

\* Preconditions 5a-5e of DetermineState; blocking reasons returned earlier.
MayConcludeNegative(h, r, reasons, e) ==
    /\ "not_imported_by_analysed_source" \notin reasons
    /\ h.status = "complete"
    /\ h.discovered > 0
    /\ ~RelevantUnresolved(e)
    /\ SetClosed(r)

MethodOf(r) == IF r.found THEN r.method ELSE "unknown"

\* Mutant: positive evidence is looked at before the blocking reasons.
PositiveFirst(h, r, reasons, e) ==
    CASE h.status = "unsupported" -> "unsupported"
      [] h.status # "unsupported" /\ MethodOf(r) = "unknown" -> "unknown"
      [] OTHER -> IF e.matched # {} THEN "usage_detected"
                  ELSE IF \E x \in reasons : Blocking(x) THEN "unknown"
                  ELSE IF MayConcludeNegative(h, r, reasons, e)
                  THEN "no_usage_detected" ELSE "unknown"

DetermineState(h, r, reasons, e) ==
    IF h.status = "unsupported" THEN "unsupported"
    ELSE IF MethodOf(r) = "unknown" \/ \E x \in reasons : Blocking(x) THEN "unknown"
    ELSE IF e.matched # {} THEN "usage_detected"
    ELSE IF MayConcludeNegative(h, r, reasons, e) THEN "no_usage_detected"
    ELSE "unknown"

-----------------------------------------------------------------------------
(* The confidence table.  Coverage is parsed / discovered in percent,       *)
(* clamped to 0 .. 100; a threshold is compared without dividing.           *)

CoverageAtLeast(h, percent) == /\ h.discovered > 0
                               /\ h.parsed * 100 >= percent * h.discovered

ProseOnly(e) == e.matched # {} /\ ~e.codeMatched

MethodsAgree(e) == e.agree /\ ~ProseOnly(e)

Quality(m) == CASE m \in {"advisory_metadata", "patch_reference"} -> 3
                [] m \in {"version_diff", "advisory_text"} -> 2
                [] m = "llm_suggested" -> 1
                [] OTHER -> 0

RatesHigh(h, r, e) == /\ Quality(MethodOf(r)) = 3
                      /\ CoverageAtLeast(h, 90)
                      /\ e.imports = 0
                      /\ e.calls = 0
                      /\ MethodsAgree(e)

RatesMedium(h, r, e) == /\ Quality(MethodOf(r)) > 0
                        /\ CoverageAtLeast(h, 70)
                        /\ e.imports <= 1
                        /\ e.calls <= 2

Rate(h, r, e) ==
    LET base == IF RatesHigh(h, r, e) THEN "high"
                ELSE IF RatesMedium(h, r, e) THEN "medium" ELSE "low"
    IN  IF ProseOnly(e) /\ base = "high" THEN "medium" ELSE base

-----------------------------------------------------------------------------
(* The decision written to decision-results.json.                           *)

OutweighedByKev(f, s) == s = "no_usage_detected" /\ ScanFindings[f].kev

RiskBand(f, s) ==
    CASE s = "usage_detected" \/ OutweighedByKev(f, s) -> "act_now"
      [] s = "no_usage_detected" /\ ~OutweighedByKev(f, s) -> "lower_priority"
      [] OTHER -> "insufficient_information"

LocalisationConfidence(r) == IF r.found THEN r.confidence ELSE "none"

\* Mutant: a negative is published as not_affected.
VexMappingNotAffected(s, r, e) ==
    CASE s = "unsupported" -> "omit"
      [] s = "no_usage_detected" -> "not_affected"
      [] s = "usage_detected" /\ LocalisationConfidence(r) \in {"high", "medium"} -> "affected"
      [] OTHER -> "under_investigation"

\* Mutant: an unsupported finding is published as under investigation.
VexMappingWithoutOmit(s, r, e) ==
    IF s = "usage_detected" /\ LocalisationConfidence(r) \in {"high", "medium"}
    THEN "affected" ELSE "under_investigation"

VexMapping(s, r, e) ==
    CASE s = "unsupported" -> "omit"
      [] /\ s = "usage_detected"
         /\ LocalisationConfidence(r) \in {"high", "medium"}
         /\ e.matched # {} -> "affected"
      [] OTHER -> "under_investigation"

ScanStatusOf(h) == IF h.status \in {"complete", "partial", "failed"} THEN h.status ELSE Absent

\* One entry of decision-results.json: the verdict and basedOn.
BuildDecision(f, h, r, reasons, e) ==
    LET s == DetermineState(h, r, reasons, e)
    IN  [state |-> s,
         confidence |-> Rate(h, r, e),
         band |-> RiskBand(f, s),
         statement |-> VexMapping(s, r, e),
         method |-> MethodOf(r),
         localisationConfidence |-> LocalisationConfidence(r),
         matched |-> e.matched,
         observationIds |-> e.observationIds,
         level |-> e.level,
         scanStatus |-> ScanStatusOf(h),
         imports |-> e.imports]

-----------------------------------------------------------------------------
(* The exporter's policy layer: an error, the OpenVEX status, or "omitted"  *)
(* for a decision that produces no statement.  affected always carries an   *)
(* action statement: vexMapping writes one for every fix, and one for none. *)

Wanted(d) ==
    CASE d.state = "usage_detected" /\ d.statement \in {Absent, "under_investigation"}
            -> "under_investigation"
      [] d.state = "usage_detected" /\ d.statement \notin {Absent, "under_investigation"}
            -> "affected"
      [] d.state \in {"no_usage_detected", "unknown"} -> "under_investigation"
      [] d.state = "unsupported" -> "omit"

MapFails(d) == \/ d.statement \in {"in_triage", "not_affected"}
               \/ d.state \notin States
               \/ d.statement # Absent /\ d.statement # Wanted(d)

Map(d) == IF MapFails(d) THEN "error"
          ELSE IF Wanted(d) = "omit" THEN "omitted" ELSE Wanted(d)
=============================================================================

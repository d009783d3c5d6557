----------------------------- MODULE Contracts ------------------------------
(***************************************************************************)
(* The contract between Component 4 and everyone who reads its output:     *)
(* the checks contracts/validate.py makes of decision-results.json against *)
(* the usage graph and the localisation report it was built from.          *)
(***************************************************************************)
EXTENDS Decision

\* validate_decisions, one decision: each conjunct is one check() call on the
\* entry, in the order of the script.
Accepts(f) ==
    LET d == decisions[f]
    IN  /\ header.status = "unsupported" => d.state = "unsupported"
        /\ header.status \in {"partial", "failed"} => d.state # "no_usage_detected"
        /\ d.observationIds \subseteq {o.id : o \in observed}
        /\ d.method = "unknown" => d.state = "unknown"
        /\ d.state = "no_usage_detected" =>
              /\ d.scanStatus = "complete"
              /\ header.discovered > 0
              /\ d.imports = 0
              /\ d.statement = "under_investigation"
        /\ d.state = "unknown" => d.statement # "affected"
        /\ d.statement = "affected" =>
              /\ d.matched # {}
              /\ d.localisationConfidence \in {"high", "medium"}
        /\ d.state = "no_usage_detected" => \A u \in unanalysed : ~Tied(f, u)

\* state.go:163-165 says DetermineState mirrors validate.py's checks exactly, so
\* that the Go caller and the validator reach the same verdict: every document
\* the command writes is one the validator accepts.
ValidatorAccepts == Decided => \A f \in Findings : Accepts(f)

\* The same for every usage graph whose analysis was not refused outright.
ValidatorAcceptsAnalysed ==
    Decided /\ header.status # "unsupported" => \A f \in Findings : Accepts(f)
=============================================================================

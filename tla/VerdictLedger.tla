--------------------------- MODULE VerdictLedger ---------------------------
(***************************************************************************)
(* What sbomber decide promises of the verdicts of a scan, whatever the    *)
(* documents hold: once localisation has named the candidates, reading     *)
(* more of the usage graph only ever takes a negative back or adds proof   *)
(* of use, never the reverse, and what is published is the verdict that    *)
(* stood when everything was read.                                         *)
(***************************************************************************)
CONSTANT Findings
VARIABLES standing,   \* finding -> the verdict on what has been read
          published   \* finding -> the verdict written, if any

States == {"usage_detected", "no_usage_detected", "unknown", "unsupported"}

\* b may replace a when more evidence is read.
Outweighs(b, a) ==
    \/ a = b
    \/ a = "no_usage_detected" /\ b \in {"unknown", "usage_detected"}
    \/ a = "unknown" /\ b = "usage_detected"

Init == /\ standing = [f \in Findings |-> "pending"]
        /\ published = [f \in Findings |-> "undecided"]

Localise == /\ \A f \in Findings : standing[f] = "pending"
            /\ standing' \in [Findings -> States]
            /\ UNCHANGED published

Learn == /\ \A f \in Findings : standing[f] # "pending" /\ published[f] = "undecided"
         /\ standing' \in [Findings -> States]
         /\ \A f \in Findings : Outweighs(standing'[f], standing[f])
         /\ UNCHANGED published

Publish == /\ \A f \in Findings : standing[f] # "pending" /\ published[f] = "undecided"
           /\ published' = standing
           /\ UNCHANGED standing

Next == Localise \/ Learn \/ Publish

vars == <<standing, published>>

Spec == Init /\ [][Next]_vars
=============================================================================

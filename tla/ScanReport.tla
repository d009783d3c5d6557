----------------------------- MODULE ScanReport -----------------------------
(***************************************************************************)
(* What a remote scan promises its reader: each manifest of the repository *)
(* is settled once, as scanned or as skipped, and the report published     *)
(* leaves none open and does not claim more than was scanned.              *)
(***************************************************************************)
CONSTANT Manifests
VARIABLES fate,    \* manifest -> "absent", "open", "scanned" or "skipped"
          status   \* "none" until the report is published

vars == <<fate, status>>

Init == /\ fate = [m \in Manifests |-> "absent"]
        /\ status = "none"

Discover == /\ status = "none"
            /\ fate = [m \in Manifests |-> "absent"]
            /\ fate' \in [Manifests -> {"absent", "open"}]
            /\ UNCHANGED status

Settle == /\ status = "none"
          /\ \E m \in Manifests, how \in {"scanned", "skipped"} :
                fate[m] = "open" /\ fate' = [fate EXCEPT ![m] = how]
          /\ UNCHANGED status

\* The statuses that say no more than f does.
Claims(f) == {s \in {"complete", "partial", "failed"} :
                /\ s = "complete" => \A m \in Manifests : f[m] \in {"absent", "scanned"}
                /\ s = "failed" => \A m \in Manifests : f[m] # "scanned"}

\* Publishing skips what is still open.
Publish == /\ status = "none"
           /\ fate' = [m \in Manifests |-> IF fate[m] = "open" THEN "skipped" ELSE fate[m]]
           /\ status' \in Claims(fate')

Next == Discover \/ Settle \/ Publish

Spec == Init /\ [][Next]_vars
=============================================================================

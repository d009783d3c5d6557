------------------------------ MODULE NetStatus ------------------------------
(***************************************************************************)
(* The outcome of a network source (internal/netstatus/status.go) and how  *)
(* the outcomes of many requests are folded into one.                      *)
(***************************************************************************)
EXTENDS Integers

Statuses == {"success", "skipped", "partial", "rate limited", "timed out",
             "unavailable"}

\* What ClassifyErr and ClassifyResponse make of a request that failed; an
\* answer with a 2xx code other than 200 fails and is classified "success".
Failures == {"rate limited", "timed out", "unavailable"}

severity == [s \in Statuses |->
               CASE s = "success" -> 0
                 [] s = "skipped" -> 1
                 [] s = "partial" -> 2
                 [] s = "rate limited" -> 3
                 [] s = "timed out" -> 4
                 [] s = "unavailable" -> 5]

Worse(a, b) == IF severity[b] > severity[a] THEN b ELSE a

\* The status the worst of a set of outcomes has, whatever their order.
WorstOf(statuses) ==
    IF statuses = {} THEN "success"
    ELSE CHOOSE s \in statuses : \A t \in statuses : severity[t] <= severity[s]
==============================================================================

----------------------------- MODULE RemoteScan -----------------------------
(***************************************************************************)
(* One ScanRepoContext call (internal/remote/scanner.go): fetch the tree,  *)
(* discover the manifests, hand them to a bounded pool of workers over an  *)
(* unbuffered channel, collect what the workers send back over a buffered  *)
(* one, and report a status with everything that was skipped.              *)
(*                                                                         *)
(* Five kinds of goroutine run: the caller (tree, collector, report), the  *)
(* feeder, the workers, the goroutine that closes the results, and the     *)
(* timer of the context.  Paths are unique in a git tree, and the tree may *)
(* list them in any order: the feeder takes any manifest not yet fed, and  *)
(* the buffered results, whose order nothing depends on, are a set.        *)
(***************************************************************************)
EXTENDS Integers, FiniteSets

CONSTANTS Manifests,    \* paths of the manifest files a tree may hold
          Limits,       \* values given to SetMaxConcurrency
          DefaultLimit  \* defaultMaxConcurrency

ASSUME ScanAssumption == /\ IsFiniteSet(Manifests)
                         /\ Limits \subseteq Int
                         /\ DefaultLimit \in Nat \ {0}

VARIABLES
    limit,       \* s.maxConcurrency
    expired,     \* ctx.Done() is closed
    main,        \* where the caller is: "tree", "collect" or "done"
    truncated,   \* the tree listing was truncated
    discovered,  \* manifestFiles
    feeder,      \* "off", "feeding", or "ended" once the jobs channel is closed
    unfed,       \* manifests the feeder still has to hand out
    worker,      \* worker -> what it is doing
    results,     \* what the buffered channel holds
    closed,      \* the results channel is closed
    ok,          \* result.Manifests
    skipped,     \* result.Skipped
    status       \* result.Status

vars == <<limit, expired, main, truncated, discovered, feeder, unfed, worker,
          results, closed, ok, skipped, status>>

WorkerCount(found) == LET n == IF limit <= 0 THEN DefaultLimit ELSE limit
                          m == Cardinality(found)
                      IN  IF n > m THEN m ELSE n

Outcomes == {"ok", "fetch failed", "parse failed"}
Result(m, outcome) == [manifest |-> m, outcome |-> outcome]

\* Notes of result.Skipped: about one manifest, or about the whole scan.
About(m, why) == [why |-> why, about |-> {m}]
OfScan(why) == [why |-> why, about |-> {}]

\* What a worker does: its job, and the result it is about to send.
Idle == [at |-> "idle", jobs |-> {}, sends |-> {}]
Exited == [at |-> "exited", jobs |-> {}, sends |-> {}]
Working(at, m) == [at |-> at, jobs |-> {m}, sends |-> {}]
Sending(m, outcome) == [at |-> "sending", jobs |-> {m},
                        sends |-> {Result(m, outcome)}]

Init == /\ limit \in Limits
        /\ expired = FALSE
        /\ main = "tree"
        /\ truncated = FALSE
        /\ discovered = {}
        /\ feeder = "off"
        /\ unfed = {}
        /\ worker = [w \in {} |-> Idle]
        /\ results = {}
        /\ closed = FALSE
        /\ ok = {}
        /\ skipped = {}
        /\ status = "none"

-----------------------------------------------------------------------------
(* The timer, and the caller until the pool is started.                     *)

Deadline == /\ ~expired
            /\ main # "done"
            /\ expired' = TRUE
            /\ UNCHANGED <<limit, main, truncated, discovered, feeder, unfed,
                           worker, results, closed, ok, skipped, status>>

\* An error of the tree request, an expired context among them.
TreeFails == /\ main = "tree"
             /\ main' = "done"
             /\ status' = "failed"
             /\ UNCHANGED <<limit, expired, truncated, discovered, feeder,
                            unfed, worker, results, closed, ok, skipped>>

TreeNotes(cut) == IF cut THEN {OfScan("tree truncated")} ELSE {}

\* Mutant: the status looks at the manifests only.
finalStatusOfManifests(notes, succeeded, found) ==
    IF found # {} /\ succeeded = {} THEN "failed"
    ELSE IF succeeded # found THEN "partial" ELSE "complete"

finalStatus(notes, succeeded, found) ==
    IF found # {} /\ succeeded = {} THEN "failed"
    ELSE IF notes # {} THEN "partial" ELSE "complete"

TreeHasNone == /\ main = "tree"
               /\ \E cut \in BOOLEAN :
                     /\ truncated' = cut
                     /\ skipped' = TreeNotes(cut)
                     /\ status' = finalStatus(TreeNotes(cut), {}, {})
               /\ main' = "done"
               /\ UNCHANGED <<limit, expired, discovered, feeder, unfed,
                              worker, results, closed, ok>>

StartPool == /\ main = "tree"
             /\ \E cut \in BOOLEAN, found \in (SUBSET Manifests) \ {{}} :
                   /\ truncated' = cut
                   /\ skipped' = TreeNotes(cut)
                   /\ discovered' = found
                   /\ unfed' = found
                   /\ worker' = [w \in 1 .. WorkerCount(found) |-> Idle]
             /\ main' = "collect"
             /\ feeder' = "feeding"
             /\ UNCHANGED <<limit, expired, results, closed, ok, status>>

-----------------------------------------------------------------------------
(* The feeder.  A send on the unbuffered channel and the receive of an idle *)
(* worker are one step; select may pick it although the context is done.    *)

Feed(w) ==
    /\ feeder = "feeding"
    /\ worker[w].at = "idle"
    /\ \E m \in unfed :
          /\ unfed' = unfed \ {m}
          /\ worker' = [worker EXCEPT ![w] =
                          Working(IF expired THEN "late" ELSE "fetching", m)]
    /\ UNCHANGED <<limit, expired, main, truncated, discovered, feeder,
                   results, closed, ok, skipped, status>>

\* Mutant: the feeder returns at the deadline without closing the channel.
EndFeedingUnclosed ==
    /\ feeder = "feeding"
    /\ expired \/ unfed = {}
    /\ feeder' = IF unfed = {} THEN "ended" ELSE "returned"
    /\ UNCHANGED <<limit, expired, main, truncated, discovered, unfed, worker,
                   results, closed, ok, skipped, status>>

\* The end of the list or of the context; the deferred close runs either way.
EndFeeding == /\ feeder = "feeding"
              /\ expired \/ unfed = {}
              /\ feeder' = "ended"
              /\ UNCHANGED <<limit, expired, main, truncated, discovered, unfed,
                             worker, results, closed, ok, skipped, status>>

-----------------------------------------------------------------------------
(* A worker.                                                                *)

Becomes(w, doing) ==
    /\ worker' = [worker EXCEPT ![w] = doing]
    /\ UNCHANGED <<limit, expired, main, truncated, discovered, feeder, unfed,
                   closed, ok, skipped, status>>

\* A request sent after the deadline is refused by the transport ("late").
Fetch(w) == /\ worker[w].at = "fetching"
            /\ \E m \in worker[w].jobs : Becomes(w, Working("parsing", m))
            /\ UNCHANGED results

\* Mutant: a worker forgets the result of a failed fetch.
FetchFailsSilently(w) ==
    /\ worker[w].at \in {"fetching", "late"}
    /\ Becomes(w, Idle)
    /\ UNCHANGED results

FetchFails(w) ==
    /\ worker[w].at \in {"fetching", "late"}
    /\ \E m \in worker[w].jobs : Becomes(w, Sending(m, "fetch failed"))
    /\ UNCHANGED results

Parse(w) == /\ worker[w].at = "parsing"
            /\ \E m \in worker[w].jobs, outcome \in {"ok", "parse failed"} :
                  Becomes(w, Sending(m, outcome))
            /\ UNCHANGED results

Send(w) == /\ worker[w].at = "sending"
           /\ Cardinality(results) < Cardinality(discovered)
           /\ results' = results \cup worker[w].sends
           /\ Becomes(w, Idle)

Exit(w) == /\ worker[w].at = "idle"
           /\ feeder = "ended"
           /\ Becomes(w, Exited)
           /\ UNCHANGED results

-----------------------------------------------------------------------------
(* The goroutine that closes the results, and the collector.                *)

\* Mutant: the results are closed when the jobs are, without wg.Wait.
CloseResultsEarly ==
    /\ main = "collect"
    /\ ~closed
    /\ feeder = "ended"
    /\ closed' = TRUE
    /\ UNCHANGED <<limit, expired, main, truncated, discovered, feeder, unfed,
                   worker, results, ok, skipped, status>>

CloseResults ==
    /\ main = "collect"
    /\ ~closed
    /\ \A w \in DOMAIN worker : worker[w] = Exited
    /\ closed' = TRUE
    /\ UNCHANGED <<limit, expired, main, truncated, discovered, feeder, unfed,
                   worker, results, ok, skipped, status>>

Collect ==
    /\ main = "collect"
    /\ \E r \in results :
          /\ results' = results \ {r}
          /\ IF r.outcome = "ok"
             THEN ok' = ok \cup {r.manifest} /\ UNCHANGED skipped
             ELSE skipped' = skipped \cup {About(r.manifest, r.outcome)} /\ UNCHANGED ok
    /\ UNCHANGED <<limit, expired, main, truncated, discovered, feeder, unfed,
                   worker, closed, status>>

Named == UNION {n.about : n \in skipped}

\* Manifests never picked up; a note of theirs says the deadline was exceeded.
Unprocessed == discovered \ (ok \cup Named)

DeadlineNotes ==
    IF ~expired THEN {}
    ELSE IF Unprocessed # {} THEN {} ELSE {OfScan("deadline exceeded")}

FinalNotes == skipped \cup {About(m, "never processed") : m \in Unprocessed}
                      \cup DeadlineNotes

\* Mutant: the sweep over the unprocessed manifests is missing.
FinishWithoutSweep ==
    /\ main = "collect"
    /\ closed
    /\ results = {}
    /\ skipped' = skipped \cup DeadlineNotes
    /\ status' = finalStatus(skipped', ok, discovered)
    /\ main' = "done"
    /\ UNCHANGED <<limit, expired, truncated, discovered, feeder, unfed,
                   worker, results, closed, ok>>

Finish ==
    /\ main = "collect"
    /\ closed
    /\ results = {}
    /\ skipped' = FinalNotes
    /\ status' = finalStatus(FinalNotes, ok, discovered)
    /\ main' = "done"
    /\ UNCHANGED <<limit, expired, truncated, discovered, feeder, unfed,
                   worker, results, closed, ok>>

-----------------------------------------------------------------------------
Step(w) == Feed(w) \/ Fetch(w) \/ FetchFails(w) \/ Parse(w) \/ Send(w) \/ Exit(w)

Next == \/ Deadline
        \/ TreeFails \/ TreeHasNone \/ StartPool
        \/ EndFeeding
        \/ \E w \in DOMAIN worker : Step(w)
        \/ CloseResults \/ Collect \/ Finish

Spec == Init /\ [][Next]_vars

\* The timer fires; a request whose context is done returns an error; the
\* scheduler runs every goroutine that can move.  Nothing makes a server
\* answer: before the deadline a fetch may hang.
Workers == 1 .. Cardinality(Manifests)
Late(w) == w \in DOMAIN worker /\ expired /\ FetchFails(w)
Local(w) == w \in DOMAIN worker /\ (Parse(w) \/ Send(w) \/ Exit(w))

Fairness == /\ WF_vars(Deadline)
            /\ WF_vars(expired /\ TreeFails)
            /\ WF_vars(EndFeeding)
            /\ \A w \in Workers : WF_vars(Late(w)) /\ WF_vars(Local(w))
            /\ WF_vars(CloseResults) /\ WF_vars(Collect) /\ WF_vars(Finish)

LiveSpec == Spec /\ Fairness

-----------------------------------------------------------------------------
(* Type invariant and safety.                                               *)

Reason == {"tree truncated", "deadline exceeded", "never processed",
           "fetch failed", "parse failed"}

\* Every variable has its type; a worker past the channel holds one manifest.
TypeOK ==
    /\ limit \in Limits
    /\ expired \in BOOLEAN /\ truncated \in BOOLEAN /\ closed \in BOOLEAN
    /\ main \in {"tree", "collect", "done"}
    /\ feeder \in {"off", "feeding", "ended"}
    /\ discovered \in SUBSET Manifests
    /\ unfed \in SUBSET discovered
    /\ worker \in [DOMAIN worker ->
                     {Idle, Exited}
                     \cup {Working(at, m) : at \in {"fetching", "late", "parsing"}, m \in discovered}
                     \cup {Sending(m, o) : m \in discovered, o \in Outcomes}]
    /\ results \in SUBSET {Result(m, o) : m \in discovered, o \in Outcomes}
    /\ ok \in SUBSET discovered
    /\ skipped \in SUBSET [why : Reason, about : {{}} \cup {{m} : m \in discovered}]
    /\ status \in {"none", "complete", "partial", "failed"}

\* Nothing is silently dropped (scanner.go:274-281): when the scan returns,
\* every manifest of the tree was parsed or is named in Skipped, never both,
\* with one reason; the deadline is blamed only when it passed.
Accounted ==
    main = "done" =>
        /\ ok \cap Named = {}
        /\ ok \cup Named = discovered
        /\ \A n1, n2 \in skipped : n1.about = n2.about /\ n1.about # {} => n1 = n2
        /\ \A n \in skipped : n.why \in {"never processed", "deadline exceeded"} => expired

\* The status is the one its documentation promises (scanner.go:30-34):
\* complete means nothing at all was missed, failed that nothing was scanned.
StatusMeansWhatItSays ==
    main = "done" =>
        /\ status = "complete" => ok = discovered /\ ~truncated /\ skipped = {}
        /\ status = "partial" => skipped # {} /\ (ok # {} \/ discovered = {})
        /\ status = "failed" => ok = {}

\* The results channel is closed only when nobody can send on it any more, and
\* the scan returns only when every goroutine it started has ended.
NoGoroutineOutlives ==
    closed \/ main = "done" =>
        /\ \A w \in DOMAIN worker : worker[w] = Exited
        /\ feeder \in {"off", "ended"}

\* Whatever the servers do, the scan returns (scanner.go:121-128).
Terminates == <>(main = "done")

-----------------------------------------------------------------------------
Report == INSTANCE ScanReport WITH
    fate <- [m \in Manifests |->
               IF m \notin discovered THEN "absent"
               ELSE IF m \in ok THEN "scanned"
               ELSE IF m \in Named THEN "skipped" ELSE "open"]

\* To its reader a scan is a report that settles the fate of each manifest
\* once and is published with all of them settled (scanner.go:242-287).
ReportSpec == Report!Spec
=============================================================================

----------------------------- MODULE AdvisoryScan -----------------------------
(***************************************************************************)
(* The package scan against the GitHub Advisory Database                   *)
(* (ScanPackagesWithGHSA, internal/vulnerability/enrichment.go) and the    *)
(* merge of its findings with Grype's (runGitHub, internal/cli/cli.go).    *)
(*                                                                         *)
(* One goroutine per package looks it up; a semaphore bounds the requests  *)
(* in flight and a mutex makes recording an answer one step.  The first    *)
(* lookup to record an advisory names the package the finding is about.    *)
(***************************************************************************)
EXTENDS NetStatus, FiniteSets, Sequences

CONSTANTS Lists,       \* package lists: sequences of [name, supported]
          Advisories,  \* the advisories of the database
          WithCve,     \* those that have a CVE identifier
          Affects,     \* package name -> the advisories affecting it, in page order
          GrypeScans,  \* what Grype may report: sets of [name, adv, id]
          Cap,         \* how many packages are looked up at most (50)
          PageSize,    \* per_page of the request (5)
          Slots,       \* requests in flight at most (5)
          Refusals     \* what a failed request may be classified as

ASSUME AdvisoryAssumption == /\ {Cap, PageSize, Slots} \subseteq Nat \ {0}
                             /\ WithCve \subseteq Advisories
                             /\ Lists \subseteq Seq([name : DOMAIN Affects, supported : BOOLEAN])
                             /\ \A name \in DOMAIN Affects : Affects[name] \in Seq(Advisories)
                             /\ \A scan \in GrypeScans :
                                   scan \subseteq [name : DOMAIN Affects, adv : Advisories,
                                                   id : {"cve", "ghsa"} \X Advisories]
                             /\ Refusals \subseteq Statuses

VARIABLES
    list,       \* packages
    pc,         \* "new", "waiting", "scanned", "merged"
    queued,     \* lookups whose goroutine holds no slot yet
    flying,     \* lookups whose request is out
    found,      \* results.Vulnerabilities, each [lookup, adv]
    attempted,  \* how many answers were recorded
    failed,     \* how many of them were failures
    worst,
    report,     \* the status of the ghsa_packages report, "none" without one
    err,        \* the scan returned an error
    findings,   \* vulnResults.Vulnerabilities once merged, each [name, adv, id]
    shown       \* the ghsa_packages status of vulnResults, "none" without one

vars == <<list, pc, queued, flying, found, attempted, failed, worst, report,
          err, findings, shown>>

Supported(i) == list[i].supported

Lookups == {i \in DOMAIN list : i <= Cap /\ Supported(i)}

\* What the database answers for the package of a lookup: its first page.
Page(i) == LET all == Affects[list[i].name]
           IN  {all[k] : k \in {k \in DOMAIN all : k <= PageSize}}

Seen == {f.adv : f \in found}

Identifier(adv) == IF adv \in WithCve THEN <<"cve", adv>> ELSE <<"ghsa", adv>>

Init == /\ list \in Lists
        /\ pc = "new"
        /\ queued = {} /\ flying = {}
        /\ found = {}
        /\ attempted = 0 /\ failed = 0
        /\ worst = "success"
        /\ report = "none" /\ err = FALSE
        /\ findings = {} /\ shown = "none"

-----------------------------------------------------------------------------
(* The scan.                                                                *)

NothingToScan == /\ pc = "new"
                 /\ list = <<>>
                 /\ pc' = "scanned"
                 /\ UNCHANGED <<list, queued, flying, found, attempted, failed,
                                worst, report, err, findings, shown>>

Start == /\ pc = "new"
         /\ list # <<>>
         /\ queued' = Lookups
         /\ pc' = "waiting"
         /\ UNCHANGED <<list, flying, found, attempted, failed, worst, report,
                        err, findings, shown>>

Acquire(i) == /\ i \in queued
              /\ Cardinality(flying) < Slots
              /\ queued' = queued \ {i}
              /\ flying' = flying \cup {i}
              /\ UNCHANGED <<list, pc, found, attempted, failed, worst, report,
                             err, findings, shown>>

\* Mutant: an answer is recorded without asking seen.
AnsweredUnseen(i) ==
    /\ i \in flying
    /\ flying' = flying \ {i}
    /\ attempted' = attempted + 1
    /\ found' = found \cup {[lookup |-> i, adv |-> a] : a \in Page(i)}
    /\ UNCHANGED <<list, pc, queued, failed, worst, report, err, findings, shown>>

Answered(i) ==
    /\ i \in flying
    /\ flying' = flying \ {i}
    /\ attempted' = attempted + 1
    /\ found' = found \cup {[lookup |-> i, adv |-> a] : a \in Page(i) \ Seen}
    /\ UNCHANGED <<list, pc, queued, failed, worst, report, err, findings, shown>>

\* A transport error, an answer other than 200, or a body that does not parse.
Refused(i) ==
    /\ i \in flying
    /\ flying' = flying \ {i}
    /\ attempted' = attempted + 1
    /\ failed' = failed + 1
    /\ \E status \in Refusals : worst' = Worse(worst, status)
    /\ UNCHANGED <<list, pc, queued, found, report, err, findings, shown>>

\* Mutant: a scan with failures is a success once something was found.
OutcomeByFindings == IF attempted = 0 THEN "skipped"
                     ELSE IF failed = attempted THEN worst
                     ELSE IF failed > 0 /\ found = {} THEN "partial" ELSE "success"

Outcome == IF attempted = 0 THEN "skipped"
           ELSE IF failed = attempted THEN worst
           ELSE IF failed > 0 THEN "partial" ELSE "success"

\* Mutant: a failed lookup returns without wg.Done.
ReturnOnSuccess == /\ pc = "waiting"
                   /\ attempted - failed = Cardinality(Lookups)
                   /\ report' = Outcome
                   /\ err' = (attempted > 0 /\ failed = attempted)
                   /\ pc' = "scanned"
                   /\ UNCHANGED <<list, queued, flying, found, attempted, failed,
                                  worst, findings, shown>>

Return == /\ pc = "waiting"
          /\ queued = {} /\ flying = {}
          /\ report' = Outcome
          /\ err' = (attempted > 0 /\ failed = attempted)
          /\ pc' = "scanned"
          /\ UNCHANGED <<list, queued, flying, found, attempted, failed, worst,
                         findings, shown>>

-----------------------------------------------------------------------------
(* The merge with Grype's findings.                                         *)

Scanned == {[name |-> list[f.lookup].name, adv |-> f.adv, id |-> Identifier(f.adv)] :
              f \in found}

\* Grype was not asked for, is not installed, or failed: with no advisory
\* either there are no results, and nothing carries the scan's status.
MergeAlone == /\ pc = "scanned"
              /\ pc' = "merged"
              /\ findings' = Scanned
              /\ shown' = IF Scanned = {} THEN "none" ELSE report
              /\ UNCHANGED <<list, queued, flying, found, attempted, failed,
                             worst, report, err>>

\* Mutant: Grype's findings replace the advisories when there are any.
MergeReplacing == /\ pc = "scanned"
                  /\ pc' = "merged"
                  /\ \E grype \in GrypeScans :
                        findings' = IF grype = {} THEN Scanned ELSE grype
                  /\ shown' = report
                  /\ UNCHANGED <<list, queued, flying, found, attempted, failed,
                                 worst, report, err>>

MergeWithGrype ==
    /\ pc = "scanned"
    /\ pc' = "merged"
    /\ \E grype \in GrypeScans :
          findings' = grype \cup {f \in Scanned : \A g \in grype : g.id # f.id}
    /\ shown' = report
    /\ UNCHANGED <<list, queued, flying, found, attempted, failed, worst,
                   report, err>>

-----------------------------------------------------------------------------
Lookup(i) == Acquire(i) \/ Answered(i) \/ Refused(i)

Next == \/ NothingToScan \/ Start
        \/ \E i \in DOMAIN list : Lookup(i)
        \/ Return
        \/ MergeAlone \/ MergeWithGrype

\* Every request ends: the HTTP client gives up after 30 s.
Spec == /\ Init /\ [][Next]_vars
        /\ WF_vars(Next)

-----------------------------------------------------------------------------
\* Every variable has its type.
TypeOK == /\ list \in Lists
          /\ pc \in {"new", "waiting", "scanned", "merged"}
          /\ queued \in SUBSET Lookups /\ flying \in SUBSET Lookups
          /\ queued \cap flying = {}
          /\ found \in SUBSET [lookup : Lookups, adv : Advisories]
          /\ attempted \in 0 .. Cardinality(Lookups) /\ failed \in 0 .. attempted
          /\ worst \in {"success"} \cup Refusals
          /\ report \in {"none"} \cup Statuses /\ shown \in {"none"} \cup Statuses
          /\ err \in BOOLEAN
          /\ findings \in SUBSET [name : DOMAIN Affects, adv : Advisories,
                                  id : {"cve", "ghsa"} \X Advisories]

\* An advisory is reported once, under a looked-up package whose page names it
\* (enrichment.go:527-533), however the lookups interleave.
OncePerAdvisory ==
    \A f \in found : /\ f.adv \in Page(f.lookup)
                     /\ \A g \in found : g.adv = f.adv => g = f

Done == pc \in {"scanned", "merged"}
Missed == \E i \in Lookups : Page(i) \ Seen # {}

\* "No advisories" and "GitHub refused" never look the same
\* (enrichment.go:449-451): a scan that misses an advisory of a page it asked
\* for does not call itself a success, one that found one does not call itself
\* a total failure, and it is skipped only when it asked for nothing.  Merged
\* findings carry the scan's own status (cli.go:543-544).
RefusalIsTold ==
    Done /\ list # <<>> =>
        /\ Missed => report \in {"partial"} \cup Failures
        /\ found # {} => report \in {"success", "partial"}
        /\ (report = "skipped") <=> (Lookups = {})
        /\ err <=> (report \in Failures)
        /\ pc = "merged" /\ findings # {} => shown = report

\* The merge loses nothing (cli.go:526-542): every advisory the scan found is
\* among the merged findings, whatever Grype reported.
MergeKeepsAll == pc = "merged" => {Identifier(a) : a \in Seen} \subseteq {f.id : f \in findings}

\* The scan returns whatever GitHub does.
Terminates == <>(pc = "merged")
==============================================================================

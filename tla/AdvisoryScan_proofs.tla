------------------------- MODULE AdvisoryScan_proofs -------------------------
(***************************************************************************)
(* Theorems about the package scan, for every package list, database, cap, *)
(* page size and number of slots.                                          *)
(***************************************************************************)
EXTENDS AdvisoryScan, FiniteSetTheorems, TLAPS

\* The scan has started on a list that is not empty.
Waited == pc # "new" /\ list # <<>>

\* The counts of the scan: every lookup is queued, in flight or counted once.
Counted ==
    /\ list \in Lists
    /\ pc \in {"new", "waiting", "scanned", "merged"}
    /\ queued \in SUBSET Lookups /\ flying \in SUBSET Lookups
    /\ queued \cap flying = {}
    /\ attempted \in Nat /\ failed \in 0 .. attempted
    /\ pc = "new" => queued = {} /\ flying = {} /\ attempted = 0
    /\ pc = "waiting" => list # <<>>
    /\ Waited => attempted + Cardinality(queued) + Cardinality(flying) = Cardinality(Lookups)
    /\ Done => queued = {} /\ flying = {}
    /\ list = <<>> => attempted = 0 /\ queued = {} /\ flying = {}

\* The findings of the scan: each advisory once, from a page that was asked for,
\* and nothing of an answered page missing unless a lookup failed.
Recorded ==
    /\ found \in SUBSET [lookup : Lookups, adv : Advisories]
    /\ OncePerAdvisory
    /\ \A f \in found : f.lookup \notin queued \cup flying
    /\ pc = "new" => found = {} /\ failed = 0
    /\ found # {} => failed < attempted
    /\ Waited /\ failed = 0 =>
          \A i \in Lookups \ (queued \cup flying) : Page(i) \subseteq Seen

\* The verdict of the scan.
Judged ==
    /\ worst \in {"success"} \cup Refusals
    /\ failed = 0 => worst = "success"
    /\ Refusals \subseteq Failures /\ failed > 0 => worst \in Failures
    /\ Done /\ list # <<>> => /\ report = Outcome
                              /\ err = (attempted > 0 /\ failed = attempted)
    /\ ~Done \/ list = <<>> => report = "none" /\ err = FALSE
    /\ shown \in {"none", report}
    /\ pc \in {"new", "waiting", "scanned"} => findings = {}
    /\ pc = "merged" /\ findings # {} => shown = report
    /\ findings \in SUBSET [name : DOMAIN Affects, adv : Advisories,
                            id : {"cve", "ghsa"} \X Advisories]

-----------------------------------------------------------------------------
\* A list is a sequence of packages, so its lookups are finitely many of them.
LEMMA LookupsFinite ==
  ASSUME list \in Lists
  PROVE  /\ IsFiniteSet(Lookups)
         /\ Lookups \subseteq DOMAIN list
         /\ \A i \in Lookups : list[i] \in [name : DOMAIN Affects, supported : BOOLEAN]
         /\ list = <<>> => Lookups = {}
<1>1. list \in Seq([name : DOMAIN Affects, supported : BOOLEAN])
  BY AdvisoryAssumption
<1>2. DOMAIN list = 1 .. Len(list) /\ Len(list) \in Nat
  BY <1>1
<1>3. IsFiniteSet(1 .. Len(list))
  BY <1>2, FS_Interval
<1>4. Lookups \subseteq DOMAIN list
  BY DEF Lookups
<1>5. IsFiniteSet(Lookups)
  BY <1>2, <1>3, <1>4, FS_Subset
<1>6. ASSUME NEW i \in Lookups
      PROVE  list[i] \in [name : DOMAIN Affects, supported : BOOLEAN]
  <2> DEFINE Package == [name : DOMAIN Affects, supported : BOOLEAN]
  <2>1. list \in Seq(Package)
    BY <1>1
  <2> HIDE DEF Package
  <2>2. list[i] \in Package
    BY <1>2, <1>4, <2>1
  <2> QED
    BY <2>2 DEF Package
<1>7. list = <<>> => Lookups = {}
  BY <1>4, <1>2
<1> QED
  BY <1>4, <1>5, <1>6, <1>7

\* A page holds advisories.
LEMMA PageType ==
  ASSUME list \in Lists, NEW i \in Lookups
  PROVE  Page(i) \subseteq Advisories
<1>1. list[i].name \in DOMAIN Affects
  BY LookupsFinite
<1>2. Affects[list[i].name] \in Seq(Advisories)
  BY <1>1, AdvisoryAssumption
<1> DEFINE all == Affects[list[i].name]
<1>3. \A k \in DOMAIN all : all[k] \in Advisories
  BY <1>2
<1> QED
  BY <1>3 DEF Page

-----------------------------------------------------------------------------
\* The counts hold at the start, and every step keeps them.
LEMMA CountedInit == Init => Counted
<1> SUFFICES ASSUME Init PROVE Counted
  OBVIOUS
<1> QED
  BY DEF Init, Counted, Waited, Done

\* A lookup that leaves the flying ones and is counted keeps the sum.
LEMMA CountedAnswer ==
  ASSUME Counted, pc' = pc, list' = list, queued' = queued,
         NEW i \in flying, flying' = flying \ {i},
         attempted' = attempted + 1, failed' \in {failed, failed + 1}
  PROVE  Counted'
<1>1. Lookups' = Lookups
  BY DEF Lookups, Supported
<1>2. IsFiniteSet(Lookups) /\ IsFiniteSet(flying) /\ IsFiniteSet(queued)
  BY LookupsFinite, FS_Subset DEF Counted
<1>3. Cardinality(flying \ {i}) = Cardinality(flying) - 1
  BY <1>2, FS_RemoveElement
<1>4. /\ Cardinality(flying) \in Nat /\ Cardinality(queued) \in Nat
      /\ Cardinality(Lookups) \in Nat
  BY <1>2, FS_CardinalityType
<1>5. pc = "waiting" /\ list # <<>>
  BY DEF Counted, Done
<1>6. Waited => attempted' + Cardinality(queued') + Cardinality(flying') = Cardinality(Lookups')
  BY <1>1, <1>3, <1>4 DEF Counted
<1>7. attempted' \in Nat /\ failed' \in 0 .. attempted'
  BY DEF Counted
<1> QED
  BY <1>1, <1>5, <1>6, <1>7 DEF Counted, Waited, Done

\* Every step keeps the counts.
LEMMA CountedStep == Counted /\ [Next]_vars => Counted'
<1> SUFFICES ASSUME Counted, [Next]_vars PROVE Counted'
  OBVIOUS
<1>0. IsFiniteSet(Lookups) /\ IsFiniteSet(queued) /\ IsFiniteSet(flying)
  BY LookupsFinite, FS_Subset DEF Counted
<1>c. /\ Cardinality(flying) \in Nat /\ Cardinality(queued) \in Nat
      /\ Cardinality(Lookups) \in Nat /\ Cardinality({}) = 0
  BY <1>0, FS_CardinalityType, FS_EmptySet
<1>l. list' = list => Lookups' = Lookups
  BY DEF Lookups, Supported
<1>1. CASE NothingToScan
  BY <1>1, <1>l DEF NothingToScan, Counted, Waited, Done
<1>2. CASE Start
  <2>1. attempted' + Cardinality(queued') + Cardinality(flying') = Cardinality(Lookups')
    <3>1. attempted' = 0 /\ queued' = Lookups /\ flying' = {} /\ Lookups' = Lookups
      BY <1>2, <1>l DEF Start, Counted
    <3> QED
      BY <3>1, <1>c
  <2> QED
    BY <1>2, <2>1, <1>l DEF Start, Counted, Waited, Done
<1>3. ASSUME NEW i \in DOMAIN list, Acquire(i) PROVE Counted'
  <2>1. i \notin flying /\ i \in queued
    BY <1>3 DEF Acquire, Counted
  <2>2. /\ Cardinality(queued \ {i}) = Cardinality(queued) - 1
        /\ Cardinality(flying \cup {i}) = Cardinality(flying) + 1
    BY <1>0, <2>1, FS_RemoveElement, FS_AddElement
  <2>3. pc = "waiting" /\ list # <<>>
    BY <2>1 DEF Counted, Done
  <2>4. Waited => attempted' + Cardinality(queued') + Cardinality(flying') = Cardinality(Lookups')
    BY <1>3, <1>c, <1>l, <2>2 DEF Acquire, Counted
  <2> QED
    BY <1>3, <1>l, <2>1, <2>3, <2>4 DEF Acquire, Counted, Waited, Done
<1>4. ASSUME NEW i \in DOMAIN list, Answered(i) PROVE Counted'
  BY <1>4, CountedAnswer DEF Answered
<1>5. ASSUME NEW i \in DOMAIN list, Refused(i) PROVE Counted'
  BY <1>5, CountedAnswer DEF Refused
<1>6. CASE Return
  BY <1>6, <1>l DEF Return, Counted, Waited, Done
<1>7. CASE MergeAlone
  BY <1>7, <1>l DEF MergeAlone, Counted, Waited, Done
<1>8. CASE MergeWithGrype
  BY <1>8, <1>l DEF MergeWithGrype, Counted, Waited, Done
<1>9. CASE UNCHANGED vars
  BY <1>9, <1>l DEF vars, Counted, Waited, Done
<1> QED
  BY <1>1, <1>2, <1>3, <1>4, <1>5, <1>6, <1>7, <1>8, <1>9 DEF Next, Lookup

-----------------------------------------------------------------------------
\* Nothing is recorded at the start.
LEMMA RecordedInit == Init => Recorded
BY DEF Init, Recorded, OncePerAdvisory, Waited

\* What an answer adds: the advisories of its page nobody reported before.
LEMMA RecordedAnswered ==
  ASSUME Counted, Recorded, NEW i \in DOMAIN list, Answered(i)
  PROVE  Recorded'
<1> DEFINE new == {[lookup |-> i, adv |-> a] : a \in Page(i) \ Seen}
<1>1. /\ i \in Lookups /\ list' = list /\ pc' = pc /\ failed' = failed
      /\ found' = found \cup new
      /\ queued' = queued /\ flying' = flying \ {i}
      /\ attempted' = attempted + 1
  BY DEF Answered, Counted
<1>2. Lookups' = Lookups /\ \A j : Page(j)' = Page(j)
  BY <1>1 DEF Lookups, Supported, Page
<1>3. pc = "waiting" /\ list # <<>> /\ Waited
  BY DEF Answered, Counted, Done, Waited
<1>4. Page(i) \subseteq Advisories
  BY <1>1, PageType DEF Counted
<1>5. new \subseteq [lookup : Lookups, adv : Advisories]
  BY <1>1, <1>4
<1>6. \A f \in new : f.lookup = i /\ f.adv \in Page(i) \ Seen
  OBVIOUS
<1>7. \A f, g \in new : f.adv = g.adv => f = g
  OBVIOUS
<1>8. \A f \in found : f.adv \in Seen
  BY DEF Seen
<1>9. OncePerAdvisory'
  BY <1>1, <1>2, <1>6, <1>7, <1>8 DEF Recorded, OncePerAdvisory
<1>10. \A f \in found' : f.lookup \notin queued' \cup flying'
  <2>1. i \notin queued \cup flying'
    BY <1>1 DEF Answered, Counted
  <2>2. \A f \in found : f.lookup \notin queued' \cup flying'
    BY <1>1 DEF Recorded
  <2> QED
    BY <1>1, <1>6, <2>1, <2>2
<1>11. found' # {} => failed' < attempted'
  BY <1>1 DEF Counted
<1>12. Seen' = Seen \cup (Page(i) \ Seen)
  <2>1. Seen \subseteq Seen'
    BY <1>1 DEF Seen
  <2>2. Page(i) \ Seen \subseteq Seen'
    <3> SUFFICES ASSUME NEW a \in Page(i) \ Seen PROVE a \in Seen'
      OBVIOUS
    <3>1. [lookup |-> i, adv |-> a] \in found'
      BY <1>1
    <3> QED
      BY <3>1 DEF Seen
  <2>3. Seen' \subseteq Seen \cup (Page(i) \ Seen)
    BY <1>1, <1>6 DEF Seen
  <2> QED
    BY <2>1, <2>2, <2>3
<1>13. failed' = 0 => \A j \in Lookups' \ (queued' \cup flying') : Page(j)' \subseteq Seen'
  BY <1>1, <1>2, <1>3, <1>12 DEF Recorded
<1>14. found' \in SUBSET [lookup : Lookups', adv : Advisories]
  BY <1>1, <1>2, <1>5 DEF Recorded
<1>15. pc' # "new"
  BY <1>1, <1>3
<1> QED
  BY <1>9, <1>10, <1>11, <1>13, <1>14, <1>15 DEF Recorded

\* Every step keeps what is said of the findings.
LEMMA RecordedStep == Counted /\ Recorded /\ [Next]_vars => Recorded'
<1> SUFFICES ASSUME Counted, Recorded, [Next]_vars PROVE Recorded'
  OBVIOUS
<1>l. list' = list => Lookups' = Lookups /\ \A j : Page(j)' = Page(j)
  BY DEF Lookups, Supported, Page
<1>s. found' = found => Seen' = Seen
  BY DEF Seen
\* Steps that record nothing: neither the findings nor the counts change, and
\* only lookups that were queued are in flight or queued afterwards.
<1>q. ASSUME list' = list, found' = found, attempted' = attempted, failed' = failed,
             queued' \cup flying' = queued \cup flying,
             Waited' => Waited \/ failed > 0 \/ Lookups \subseteq queued' \cup flying',
             pc' # "new" \/ pc = "new"
      PROVE  Recorded'
  BY <1>q, <1>l, <1>s DEF Recorded, OncePerAdvisory
<1>1. CASE NothingToScan
  BY <1>1, <1>q DEF NothingToScan, Waited
<1>2. CASE Start
  <2>1. found = {} /\ pc' # "new" /\ found' = found
    BY <1>2 DEF Start, Recorded
  <2> QED
    BY <1>2, <1>l, <1>s, <2>1 DEF Start, Recorded, OncePerAdvisory
<1>3. ASSUME NEW i \in DOMAIN list, Acquire(i) PROVE Recorded'
  BY <1>3, <1>q DEF Acquire, Waited
<1>4. ASSUME NEW i \in DOMAIN list, Answered(i) PROVE Recorded'
  BY <1>4, RecordedAnswered
<1>5. ASSUME NEW i \in DOMAIN list, Refused(i) PROVE Recorded'
  <2>1. /\ list' = list /\ pc' = pc /\ found' = found /\ queued' = queued
        /\ flying' = flying \ {i} /\ attempted' = attempted + 1 /\ failed' = failed + 1
    BY <1>5 DEF Refused
  <2>2. pc # "new"
    BY <1>5 DEF Refused, Counted
  <2>3. failed' # 0 /\ (found # {} => failed' < attempted')
    BY <2>1 DEF Counted, Recorded
  <2>4. OncePerAdvisory'
    BY <2>1, <1>l DEF Recorded, OncePerAdvisory
  <2>5. \A f \in found' : f.lookup \notin queued' \cup flying'
    BY <2>1 DEF Recorded
  <2> QED
    BY <2>1, <2>2, <2>3, <2>4, <2>5, <1>l DEF Recorded
<1>6. CASE Return
  BY <1>6, <1>q DEF Return, Waited
<1>7. CASE MergeAlone
  BY <1>7, <1>q DEF MergeAlone, Waited
<1>8. CASE MergeWithGrype
  BY <1>8, <1>q DEF MergeWithGrype, Waited
<1>9. CASE UNCHANGED vars
  BY <1>9, <1>q DEF vars, Waited
<1> QED
  BY <1>1, <1>2, <1>3, <1>4, <1>5, <1>6, <1>7, <1>8, <1>9 DEF Next, Lookup

-----------------------------------------------------------------------------
\* The worse of two statuses is one of them, and a failure if one is a failure.
LEMMA WorseType ==
  ASSUME NEW a \in {"success"} \cup Refusals, NEW b \in Refusals
  PROVE  /\ Worse(a, b) \in {"success"} \cup Refusals
         /\ b \in Failures /\ a \in {"success"} \cup Failures => Worse(a, b) \in Failures
<1>1. Worse(a, b) \in {a, b}
  BY DEF Worse
<1>2. ASSUME b \in Failures, a = "success"
      PROVE  Worse(a, b) = b
  <2>1. severity[a] = 0 /\ severity[b] > 0
    <3>1. severity["success"] = 0
      BY DEF severity, Statuses
    <3>2. severity["rate limited"] = 3
      BY DEF severity, Statuses
    <3>3. severity["timed out"] = 4
      BY DEF severity, Statuses
    <3>4. severity["unavailable"] = 5
      BY DEF severity, Statuses
    <3>5. severity[b] \in {3, 4, 5}
      BY <1>2, <3>2, <3>3, <3>4 DEF Failures
    <3> QED
      BY <1>2, <3>1, <3>5
  <2> QED
    BY <2>1 DEF Worse
<1> QED
  BY <1>1, <1>2

\* There is no verdict at the start.
LEMMA JudgedInit == Init => Judged
BY DEF Init, Judged, Done

\* Only the merge touches the findings: they are the scan's and Grype's.
LEMMA ScannedType ==
  ASSUME Counted, Recorded
  PROVE  Scanned \subseteq [name : DOMAIN Affects, adv : Advisories,
                            id : {"cve", "ghsa"} \X Advisories]
<1> SUFFICES ASSUME NEW f \in found
             PROVE  [name |-> list[f.lookup].name, adv |-> f.adv, id |-> Identifier(f.adv)]
                       \in [name : DOMAIN Affects, adv : Advisories,
                            id : {"cve", "ghsa"} \X Advisories]
  BY DEF Scanned
<1>1. f.lookup \in Lookups /\ f.adv \in Advisories
  BY DEF Recorded
<1>2. list[f.lookup].name \in DOMAIN Affects
  BY <1>1, LookupsFinite DEF Counted
<1>3. Identifier(f.adv) \in {"cve", "ghsa"} \X Advisories
  BY <1>1 DEF Identifier
<1> QED
  BY <1>1, <1>2, <1>3

\* Every step keeps what is said of the verdict.
LEMMA JudgedStep == Counted /\ Recorded /\ Judged /\ [Next]_vars => Judged'
<1> SUFFICES ASSUME Counted, Recorded, Judged, [Next]_vars PROVE Judged'
  OBVIOUS
<1>o. attempted' = attempted /\ failed' = failed /\ worst' = worst => Outcome' = Outcome
  BY DEF Outcome
<1>1. CASE NothingToScan
  BY <1>1 DEF NothingToScan, Judged, Done
<1>2. CASE Start
  BY <1>2 DEF Start, Judged, Done
<1>3. ASSUME NEW i \in DOMAIN list, Acquire(i) PROVE Judged'
  <2>1. pc = "waiting"
    BY <1>3 DEF Acquire, Counted, Done
  <2> QED
    BY <1>3, <2>1 DEF Acquire, Judged, Done
<1>4. ASSUME NEW i \in DOMAIN list, Answered(i) PROVE Judged'
  <2>1. pc = "waiting"
    BY <1>4 DEF Answered, Counted, Done
  <2> QED
    BY <1>4, <2>1 DEF Answered, Judged, Done
<1>5. ASSUME NEW i \in DOMAIN list, Refused(i) PROVE Judged'
  <2>1. pc = "waiting"
    BY <1>5 DEF Refused, Counted, Done
  <2>2. PICK status \in Refusals : worst' = Worse(worst, status)
    BY <1>5 DEF Refused
  <2>3. failed' > 0 /\ failed' # 0 /\ failed \in Nat
    BY <1>5 DEF Refused, Counted
  <2>4. worst' \in {"success"} \cup Refusals
    BY <2>2, WorseType DEF Judged
  <2>5. Refusals \subseteq Failures => worst' \in Failures
    BY <2>2, WorseType DEF Judged
  <2> QED
    BY <1>5, <2>1, <2>3, <2>4, <2>5 DEF Refused, Judged, Done
<1>6. CASE Return
  <2>1. pc = "waiting" /\ list # <<>> /\ Outcome' = Outcome
    BY <1>6, <1>o DEF Return, Counted
  <2> QED
    BY <1>6, <2>1 DEF Return, Judged, Done
<1>7. CASE MergeAlone
  <2>1. /\ pc = "scanned" /\ pc' = "merged" /\ Outcome' = Outcome
        /\ findings' = Scanned /\ shown' = IF Scanned = {} THEN "none" ELSE report
    BY <1>7, <1>o DEF MergeAlone
  <2> QED
    BY <1>7, <2>1, ScannedType DEF MergeAlone, Judged, Done
<1>8. CASE MergeWithGrype
  <2>1. PICK grype \in GrypeScans :
           findings' = grype \cup {f \in Scanned : \A g \in grype : g.id # f.id}
    BY <1>8 DEF MergeWithGrype
  <2>2. findings' \in SUBSET [name : DOMAIN Affects, adv : Advisories,
                              id : {"cve", "ghsa"} \X Advisories]
    BY <2>1, ScannedType, AdvisoryAssumption
  <2>3. Outcome' = Outcome
    BY <1>8, <1>o DEF MergeWithGrype
  <2> QED
    BY <1>8, <2>2, <2>3 DEF MergeWithGrype, Judged, Done
<1>9. CASE UNCHANGED vars
  BY <1>9, <1>o DEF vars, Judged, Done
<1> QED
  BY <1>1, <1>2, <1>3, <1>4, <1>5, <1>6, <1>7, <1>8, <1>9 DEF Next, Lookup

-----------------------------------------------------------------------------
\* The inductive invariant the theorems rest on.
THEOREM Invariant == Spec => [](Counted /\ Recorded /\ Judged)
<1>1. Init => Counted /\ Recorded /\ Judged
  BY CountedInit, RecordedInit, JudgedInit
<1>2. Counted /\ Recorded /\ Judged /\ [Next]_vars => (Counted /\ Recorded /\ Judged)'
  BY CountedStep, RecordedStep, JudgedStep
<1> QED
  BY <1>1, <1>2, PTL DEF Spec

\* Every variable has its type, whatever the list and the answers.
THEOREM TypeCorrect == Spec => []TypeOK
<1>1. Counted /\ Recorded /\ Judged => TypeOK
  <2> SUFFICES ASSUME Counted, Recorded, Judged PROVE TypeOK
    OBVIOUS
  <2>1. /\ IsFiniteSet(Lookups) /\ IsFiniteSet(queued) /\ IsFiniteSet(flying)
    BY LookupsFinite, FS_Subset DEF Counted
  <2>2. /\ Cardinality(flying) \in Nat /\ Cardinality(queued) \in Nat
        /\ Cardinality(Lookups) \in Nat
    BY <2>1, FS_CardinalityType
  <2>3. attempted \in 0 .. Cardinality(Lookups)
    BY <2>2 DEF Counted, Waited
  <2>4. worst \in Statuses
    BY AdvisoryAssumption DEF Judged, Statuses
  <2>5. report \in {"none"} \cup Statuses /\ err \in BOOLEAN
    BY <2>4 DEF Judged, Outcome, Statuses
  <2>6. shown \in {"none"} \cup Statuses
    BY <2>5 DEF Judged
  <2> QED
    BY <2>3, <2>5, <2>6 DEF TypeOK, Counted, Recorded, Judged
<1> QED
  BY <1>1, Invariant, PTL

\* However the lookups interleave, an advisory is reported once, under a package
\* whose page names it (enrichment.go:527-533).
THEOREM ReportedOnce == Spec => []OncePerAdvisory
<1>1. Recorded => OncePerAdvisory
  BY DEF Recorded
<1> QED
  BY <1>1, Invariant, PTL

\* When a request that failed is never classified a success, a scan that misses
\* an advisory of a page it asked for says so, and one that found an advisory
\* does not call itself failed (enrichment.go:449-451).
THEOREM RefusalsAreTold ==
  ASSUME Refusals \subseteq Failures
  PROVE  Spec => []RefusalIsTold
<1>1. Counted /\ Recorded /\ Judged => RefusalIsTold
  <2> SUFFICES ASSUME Counted, Recorded, Judged, Done, list # <<>>
               PROVE  RefusalIsTold
    BY DEF RefusalIsTold
  <2>1. Waited /\ queued = {} /\ flying = {} /\ report = Outcome
    BY DEF Counted, Judged, Waited, Done
  <2>2. attempted = Cardinality(Lookups) /\ attempted \in Nat /\ failed \in 0 .. attempted
    BY <2>1, FS_EmptySet DEF Counted
  <2>3. attempted = 0 <=> Lookups = {}
    BY <2>2, LookupsFinite, FS_EmptySet DEF Counted
  <2>4. failed > 0 => worst \in Failures
    BY DEF Judged
  <2>5. Missed => failed > 0
    BY <2>1, <2>2 DEF Missed, Recorded
  <2>6. /\ "skipped" \notin Failures /\ "partial" \notin Failures
        /\ "success" \notin Failures
    BY DEF Failures
  <2>7. CASE attempted = 0
    <3>1. report = "skipped"
      BY <2>1, <2>7 DEF Outcome
    <3>2. failed = 0 /\ Lookups = {}
      BY <2>2, <2>3, <2>7
    <3>3. found = {} /\ ~Missed
      BY <3>2, <2>2, <2>5, <2>7 DEF Recorded
    <3> QED
      BY <3>1, <3>2, <3>3, <2>6, <2>7 DEF RefusalIsTold, Judged
  <2>8. CASE attempted # 0 /\ failed = attempted
    <3>1. report \in Failures /\ attempted > 0
      BY <2>1, <2>2, <2>4, <2>8 DEF Outcome
    <3>2. found = {} /\ Lookups # {}
      BY <2>2, <2>3, <2>8 DEF Recorded
    <3> QED
      BY <3>1, <3>2, <2>6, <2>8 DEF RefusalIsTold, Judged
  <2>9. CASE attempted # 0 /\ failed # attempted
    <3>1. report = IF failed > 0 THEN "partial" ELSE "success"
      BY <2>1, <2>9 DEF Outcome
    <3>2. Lookups # {} /\ (Missed => failed > 0)
      BY <2>3, <2>5, <2>9
    <3> QED
      BY <3>1, <3>2, <2>6, <2>9 DEF RefusalIsTold, Judged
  <2> QED
    BY <2>7, <2>8, <2>9
<1> QED
  BY <1>1, Invariant, PTL
-----------------------------------------------------------------------------
\* Every advisory recorded is a finding the merge is given.
LEMMA ScannedCovers == {Identifier(a) : a \in Seen} = {f.id : f \in Scanned}
<1>1. ASSUME NEW a \in Seen PROVE Identifier(a) \in {f.id : f \in Scanned}
  <2>1. PICK f \in found : f.adv = a
    BY DEF Seen
  <2> DEFINE finding == [name |-> list[f.lookup].name, adv |-> f.adv, id |-> Identifier(f.adv)]
  <2>2. finding \in Scanned /\ finding.id = Identifier(a)
    BY <2>1 DEF Scanned
  <2> QED
    BY <2>2
<1>2. ASSUME NEW f \in Scanned PROVE f.id \in {Identifier(a) : a \in Seen}
  BY DEF Scanned, Seen
<1> QED
  BY <1>1, <1>2

\* Once merged nothing is recorded any more, so the merge keeps what it kept.
LEMMA MergeStep == Counted /\ MergeKeepsAll /\ [Next]_vars => MergeKeepsAll'
<1> SUFFICES ASSUME Counted, MergeKeepsAll, [Next]_vars, pc' = "merged"
             PROVE  {Identifier(a) : a \in Seen'} \subseteq {f.id : f \in findings'}
  BY DEF MergeKeepsAll, Identifier
<1>1. CASE MergeAlone
  <2>1. findings' = Scanned /\ Seen' = Seen
    BY <1>1 DEF MergeAlone, Seen
  <2> QED
    BY <2>1, ScannedCovers
<1>2. CASE MergeWithGrype
  <2>1. PICK grype \in GrypeScans :
           findings' = grype \cup {f \in Scanned : \A g \in grype : g.id # f.id}
    BY <1>2 DEF MergeWithGrype
  <2>2. Seen' = Seen
    BY <1>2 DEF MergeWithGrype, Seen
  <2>3. ASSUME NEW f \in Scanned PROVE f.id \in {g.id : g \in findings'}
    <3>1. CASE \E g \in grype : g.id = f.id
      BY <2>1, <3>1
    <3>2. CASE \A g \in grype : g.id # f.id
      BY <2>1, <3>2
    <3> QED
      BY <3>1, <3>2
  <2> QED
    BY <2>2, <2>3, ScannedCovers
<1>3. ASSUME ~MergeAlone, ~MergeWithGrype
      PROVE  pc = "merged" /\ found' = found /\ findings' = findings
  <2>1. CASE NothingToScan \/ Start \/ Return
    BY <2>1 DEF NothingToScan, Start, Return
  <2>2. ASSUME NEW i \in DOMAIN list, Lookup(i)
        PROVE  pc # "merged" /\ pc' = pc
    BY <2>2 DEF Lookup, Acquire, Answered, Refused, Counted, Done
  <2>3. CASE UNCHANGED vars
    BY <2>3 DEF vars
  <2> QED
    BY <1>3, <2>1, <2>2, <2>3 DEF Next
<1> QED
  BY <1>1, <1>2, <1>3 DEF MergeKeepsAll, Seen

\* The merge loses nothing: whatever Grype reports, every advisory the scan
\* found is among the merged findings (cli.go:526-542).
THEOREM NothingMergedAway == Spec => []MergeKeepsAll
<1>1. Init => MergeKeepsAll
  BY DEF Init, MergeKeepsAll
<1> QED
  BY <1>1, MergeStep, Invariant, PTL DEF Spec
==============================================================================

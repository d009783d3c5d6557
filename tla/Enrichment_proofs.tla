-------------------------- MODULE Enrichment_proofs --------------------------
(***************************************************************************)
(* Theorems about the enrichment of findings, for every list of findings,  *)
(* every database and catalog, and every limit, batch size and number of   *)
(* slots.                                                                  *)
(***************************************************************************)
EXTENDS Enrichment, FiniteSetTheorems, SequenceTheorems, WellFoundedInduction, TLAPS

-----------------------------------------------------------------------------
(* Sets of indexes in increasing order.                                     *)

\* A set of numbers that has 0 and every successor has all numbers.
LEMMA Induction ==
  ASSUME NEW T, 0 \in T, \A n \in Nat : n \in T => n + 1 \in T
  PROVE  Nat \subseteq T
<1> DEFINE less == {ss \in Nat \X Nat : ss[1] < ss[2]}
<1> SUFFICES ASSUME Nat \ T # {} PROVE FALSE
  OBVIOUS
<1>1. IsWellFoundedOn(less, Nat)
  BY NatLessThanWellFounded DEF OpToRel
<1>2. PICK n \in Nat \ T : \A m \in Nat \ T : ~ (<<m, n>> \in less)
  <2> HIDE DEF less
  <2> QED
    BY <1>1, WFMin
<1>3. n # 0 /\ n - 1 \in Nat /\ n - 1 < n
  OBVIOUS
<1>4. n - 1 \in T
  BY <1>2, <1>3
<1> QED
  BY <1>3, <1>4

Increasing(f, n) == \A j, k \in 1 .. n : j < k => f[j] < f[k]

\* Finitely many numbers can be put in order, by induction on their bound.
LEMMA OrderExists ==
  \A n \in Nat : \A S \in SUBSET (1 .. n) :
      \E f \in [1 .. Cardinality(S) -> S] : Increasing(f, Cardinality(S))
<1> DEFINE P(n) == \A S \in SUBSET (1 .. n) :
                      \E f \in [1 .. Cardinality(S) -> S] : Increasing(f, Cardinality(S))
           T == {n \in Nat : P(n)}
<1>1. 0 \in T
  <2>1. ASSUME NEW S \in SUBSET (1 .. 0)
        PROVE  \E f \in [1 .. Cardinality(S) -> S] : Increasing(f, Cardinality(S))
    <3>0. S = {}
      OBVIOUS
    <3>1. Cardinality(S) = 0
      BY <3>0, FS_EmptySet
    <3>2. [k \in {} |-> 0] \in [1 .. Cardinality(S) -> S]
      BY <3>0, <3>1
    <3>3. Increasing([k \in {} |-> 0], Cardinality(S))
      BY <3>1 DEF Increasing
    <3> QED
      BY <3>2, <3>3
  <2> QED
    BY <2>1
<1>2. ASSUME NEW n \in Nat, n \in T PROVE n + 1 \in T
  <2>1. ASSUME NEW S \in SUBSET (1 .. n + 1)
        PROVE  \E f \in [1 .. Cardinality(S) -> S] : Increasing(f, Cardinality(S))
    <3>1. CASE n + 1 \notin S
      <4>1. S \in SUBSET (1 .. n)
        BY <3>1
      <4> QED
        BY <1>2, <4>1
    <3>2. CASE n + 1 \in S
      <4> DEFINE rest == S \ {n + 1}
                 c == Cardinality(rest)
      <4>1. rest \in SUBSET (1 .. n)
        OBVIOUS
      <4>0. IsFiniteSet(1 .. n)
        BY FS_Interval
      <4>2. IsFiniteSet(rest)
        BY <4>0, <4>1, FS_Subset
      <4>3. c \in Nat /\ Cardinality(S) = c + 1
        <5>1. rest \cup {n + 1} = S /\ n + 1 \notin rest
          BY <3>2
        <5> HIDE DEF rest
        <5> QED
          BY <4>2, <5>1, FS_CardinalityType, FS_AddElement
      <4>4. PICK g \in [1 .. c -> rest] : Increasing(g, c)
        BY <1>2, <4>1
      <4> DEFINE f == [k \in 1 .. c + 1 |-> IF k = c + 1 THEN n + 1 ELSE g[k]]
      <4> HIDE DEF c
      <4>5. f \in [1 .. c + 1 -> S]
        BY <3>2, <4>3, <4>4
      <4>6. Increasing(f, c + 1)
        <5>1. \A k \in 1 .. c : g[k] \in 1 .. n
          BY <4>1, <4>4
        <5> QED
          BY <4>3, <4>4, <5>1 DEF Increasing
      <4> QED
        BY <4>3, <4>5, <4>6
    <3> QED
      BY <3>1, <3>2
  <2> QED
    BY <2>1
<1> HIDE DEF P
<1>3. Nat \subseteq T
  <2> HIDE DEF T
  <2> QED
    BY <1>1, <1>2, Induction
<1> QED
  BY <1>3 DEF P

\* InOrder lists each index of the set once.
LEMMA InOrderLists ==
  ASSUME NEW n \in Nat, NEW at \in SUBSET (1 .. n)
  PROVE  /\ IsFiniteSet(at) /\ Cardinality(at) \in Nat
         /\ InOrder(at) \in [1 .. Cardinality(at) -> at]
         /\ \A i \in at : \E k \in 1 .. Cardinality(at) : InOrder(at)[k] = i
<1> DEFINE c == Cardinality(at)
<1>0. IsFiniteSet(1 .. n)
  BY FS_Interval
<1>1. IsFiniteSet(at) /\ c \in Nat
  BY <1>0, FS_Subset, FS_CardinalityType
<1>2. \E f \in [1 .. c -> at] : \A j, k \in 1 .. c : j < k => f[j] < f[k]
  BY OrderExists DEF Increasing
<1>3. InOrder(at) \in [1 .. c -> at] /\ \A j, k \in 1 .. c : j < k => InOrder(at)[j] < InOrder(at)[k]
  BY <1>2 DEF InOrder
<1> HIDE DEF c
<1>4. \A k \in 1 .. c : InOrder(at)[k] \in Nat
  <2>1. \A k \in 1 .. c : InOrder(at)[k] \in at
    BY <1>3
  <2>2. at \subseteq Nat
    OBVIOUS
  <2> QED
    BY <2>1, <2>2
<1>5. InOrder(at) \in Injection(1 .. c, at)
  <2>1. ASSUME NEW j \in 1 .. c, NEW k \in 1 .. c, InOrder(at)[j] = InOrder(at)[k]
        PROVE  j = k
    BY <1>1, <1>3, <1>4, <2>1
  <2> QED
    BY <1>3, <2>1 DEF Injection, IsInjective
<1>6. IsFiniteSet(1 .. c) /\ Cardinality(1 .. c) = c
  BY <1>1, FS_Interval
<1>7. InOrder(at) \in Surjection(1 .. c, at)
  BY <1>1, <1>5, <1>6, FS_Injection DEF c
<1> QED
  BY <1>1, <1>3, <1>7 DEF Surjection, c

\* The elements of a sequence at some of its indexes: a sequence of them.
LEMMA OnlyLists ==
  ASSUME NEW S, NEW s \in Seq(S), NEW at \in SUBSET DOMAIN s
  PROVE  /\ Only(s, at) \in Seq(S)
         /\ DOMAIN Only(s, at) = 1 .. Len(Only(s, at))
         /\ \A k \in DOMAIN Only(s, at) : \E i \in at : Only(s, at)[k] = s[i]
         /\ \A i \in at : \E k \in DOMAIN Only(s, at) : Only(s, at)[k] = s[i]
<1> DEFINE c == Cardinality(at)
<1>1. DOMAIN s = 1 .. Len(s) /\ Len(s) \in Nat
  OBVIOUS
<1>i. at \in SUBSET (1 .. Len(s))
  BY <1>1
<1>2. /\ c \in Nat /\ InOrder(at) \in [1 .. c -> at]
      /\ \A i \in at : \E k \in 1 .. c : InOrder(at)[k] = i
  BY <1>1, <1>i, InOrderLists
<1>3. Only(s, at) = [k \in 1 .. c |-> s[InOrder(at)[k]]]
  BY DEF Only
<1> HIDE DEF c
<1>4. \A k \in 1 .. c : InOrder(at)[k] \in at
  BY <1>2
<1>5. \A i \in at : s[i] \in S
  BY <1>1
<1>6. Only(s, at) \in [1 .. c -> S]
  BY <1>3, <1>4, <1>5
<1>7. Only(s, at) \in Seq(S) /\ DOMAIN Only(s, at) = 1 .. c /\ Len(Only(s, at)) = c
  BY <1>2, <1>6
<1>8. \A k \in 1 .. c : Only(s, at)[k] = s[InOrder(at)[k]]
  BY <1>3
<1>9. \A i \in at : \E k \in 1 .. c : Only(s, at)[k] = s[i]
  <2> SUFFICES ASSUME NEW i \in at PROVE \E k \in 1 .. c : Only(s, at)[k] = s[i]
    OBVIOUS
  <2>1. PICK k \in 1 .. c : InOrder(at)[k] = i
    BY <1>2
  <2> QED
    BY <1>8, <2>1
<1> QED
  BY <1>4, <1>7, <1>8, <1>9
-----------------------------------------------------------------------------
(* The inductive invariant, in parts.                                       *)

Asks == {"success"} \cup Refusals
Calm == {"success", "skipped"}

SourceNames == {"ghsa_packages", "ghsa", "kev", "epss", "npm_registry", "malware"}
ReportRecords == [source : SourceNames, status : Statuses]

\* What a finding may receive.
Received == [adv : BOOLEAN, kev : BOOLEAN, epss : BOOLEAN,
             signals : {<<>>} \cup ({findings[i].name : i \in DOMAIN findings}
                                     \X {findings[i].version : i \in DOMAIN findings})]

Typed ==
    /\ findings \in Results
    /\ pc \in {"ready", "ghsa", "feeds", "registry", "done"}
    /\ \A x \in DOMAIN advisory : advisory[x] \in Asks
    /\ \A x \in DOMAIN registry : registry[x] \in Asks \X Asks
    /\ kev \in {"off", "asked"} \cup Asks
    /\ left \in Seq(Cves) /\ scores \in SUBSET Scored
    /\ batches \in Nat \X Nat
    /\ epss \in {"off", "skipped"} \cup Asks
    /\ enriched \in [DOMAIN findings -> Received]
    /\ reports \in Seq(ReportRecords) /\ network \in Seq(ReportRecords)

\* A pool looks up each of its keys once.
Pool(keys, answered) == /\ queued \cup flying \cup answered = keys
                        /\ (queued \cup flying) \cap answered = {}

\* A status is the worst of some answers.
Attains(status, answers) == /\ status \in {"success"} \cup answers
                            /\ \A s \in answers : severity[s] <= severity[status]

Answers == {advisory[x] : x \in DOMAIN advisory}
Probes == UNION {{registry[x][1], registry[x][2]} : x \in DOMAIN registry}

\* The pools keep the worst of what was answered.
Pools ==
    /\ queued \cap flying = {}
    /\ pc \in {"ready", "feeds", "done"} => queued = {} /\ flying = {}
    /\ pc \in {"ghsa", "feeds"} => DOMAIN registry = {}
    /\ pc = "ghsa" => Pool(Lookups, DOMAIN advisory) /\ Attains(worst, Answers)
    /\ pc = "registry" => Pool(TargetNames, DOMAIN registry) /\ Attains(worst, Probes)

\* The feeds are asked between the pools; a CVE with a score has it, is left to
\* ask for, or is one of a batch that failed.
Feeds ==
    /\ pc # "feeds" => kev # "asked" /\ left = <<>>
    /\ pc = "feeds" =>
          /\ kev # "off" /\ epss # "off"
          /\ batches[2] > 0 => epss \in Refusals
          /\ batches[2] = 0 =>
                \A k \in DOMAIN CveList : CveList[k] \in Scored =>
                    \/ CveList[k] \in scores
                    \/ \E j \in DOMAIN left : left[j] = CveList[k]

\* The report of a pool, and what the findings received once the catalog and the
\* scores reported kevStatus and epssStatus.
PoolReport(status, keys, answers) == IF keys = {} THEN status = "skipped"
                                                  ELSE Attains(status, answers)

Delivered(kevStatus, epssStatus) ==
    \A i \in DOMAIN findings :
        /\ Has(findings[i].id) => enriched[i].adv
        /\ kevStatus \in Calm /\ cveFor(findings[i]) \in Listed => enriched[i].kev
        /\ epssStatus \in Calm /\ cveFor(findings[i]) \in Scored => enriched[i].epss

Reported ==
    /\ pc \in {"feeds", "registry"} \/ (pc = "done" /\ findings # <<>>)
          => DOMAIN advisory = Lookups
    /\ pc = "feeds" =>
          \E g \in Statuses : /\ PoolReport(g, Lookups, Answers)
                              /\ reports = <<Report("ghsa", g)>>
    /\ pc = "registry" =>
          \E g, k, e \in Statuses :
              /\ PoolReport(g, Lookups, Answers) /\ Delivered(k, e)
              /\ reports = <<Report("ghsa", g), Report("kev", k), Report("epss", e)>>
    /\ pc = "done" /\ findings # <<>> =>
          \E g, k, e, n \in Statuses :
              /\ PoolReport(g, Lookups, Answers) /\ Delivered(k, e)
              /\ PoolReport(n, TargetNames, Probes) /\ DOMAIN registry = TargetNames
              /\ Told("ghsa") = {g} /\ Told("kev") = {k} /\ Told("epss") = {e}
              /\ Told("npm_registry") = {n}
              /\ \A i \in DOMAIN findings :
                    Signalled(findings[i].name) => enriched[i].signals # <<>>
-----------------------------------------------------------------------------
(* The worst of the answers.                                                *)

\* The severities of the statuses.
LEMMA Severities ==
  /\ severity["success"] = 0 /\ severity["skipped"] = 1 /\ severity["partial"] = 2
  /\ severity["rate limited"] = 3 /\ severity["timed out"] = 4
  /\ severity["unavailable"] = 5
  /\ \A s \in Statuses : severity[s] \in Nat
<1>1. severity["success"] = 0
  BY DEF severity, Statuses
<1>2. severity["skipped"] = 1
  BY DEF severity, Statuses
<1>3. severity["partial"] = 2
  BY DEF severity, Statuses
<1>4. severity["rate limited"] = 3
  BY DEF severity, Statuses
<1>5. severity["timed out"] = 4
  BY DEF severity, Statuses
<1>6. severity["unavailable"] = 5
  BY DEF severity, Statuses
<1>7. \A s \in Statuses : severity[s] \in {0, 1, 2, 3, 4, 5}
  BY <1>1, <1>2, <1>3, <1>4, <1>5, <1>6, Zenon DEF Statuses
<1>8. \A s \in Statuses : severity[s] \in Nat
  <2>1. {0, 1, 2, 3, 4, 5} \subseteq Nat
    OBVIOUS
  <2> QED
    BY <1>7, <2>1
<1> QED
  BY <1>1, <1>2, <1>3, <1>4, <1>5, <1>6, <1>8

\* Different statuses have different severities.
LEMMA SeverityTellsApart ==
  ASSUME NEW a \in Statuses, NEW b \in Statuses, severity[a] = severity[b]
  PROVE  a = b
<1> DEFINE strings == {"success", "skipped", "partial", "rate limited", "timed out",
                       "unavailable"}
<1>1. a \in strings /\ b \in strings
  BY DEF Statuses
<1>2. /\ severity["success"] = 0 /\ severity["skipped"] = 1 /\ severity["partial"] = 2
      /\ severity["rate limited"] = 3 /\ severity["timed out"] = 4
      /\ severity["unavailable"] = 5
  BY Severities
<1> DEFINE f == severity
           u == "success"  v == "skipped"  w == "partial"
           x == "rate limited"  y == "timed out"  z == "unavailable"
<1>3. /\ f[u] = 0 /\ f[v] = 1 /\ f[w] = 2 /\ f[x] = 3 /\ f[y] = 4 /\ f[z] = 5
      /\ a \in {u, v, w, x, y, z} /\ b \in {u, v, w, x, y, z} /\ f[a] = f[b]
  BY <1>1, <1>2
<1> HIDE DEF f, u, v, w, x, y, z
<1> QED
  BY <1>3

\* The answers a request may have are statuses, success the mildest of them.
LEMMA AsksAreStatuses ==
  /\ Asks \subseteq Statuses
  /\ \A s \in Asks : s \in Calm => s = "success"
BY EnrichmentAssumption DEF Asks, Calm, Statuses, Failures

\* The worse of two statuses is the worst of the answers of both, so that the
\* fold of the answers is the worst of them in whatever order they came.
LEMMA WorseAttains ==
  ASSUME NEW A \in SUBSET Statuses, NEW B \in SUBSET Statuses, NEW a, NEW b,
         Attains(a, A), Attains(b, B)
  PROVE  Attains(Worse(a, b), A \cup B) /\ Worse(a, b) \in Statuses
<1>1. a \in Statuses /\ b \in Statuses
  BY DEF Attains, Statuses
<1>2. severity[a] \in Nat /\ severity[b] \in Nat
  BY <1>1, Severities
<1>3. /\ \A s \in A : severity[s] \in Nat /\ severity[s] <= severity[a]
      /\ \A s \in B : severity[s] \in Nat /\ severity[s] <= severity[b]
  BY Severities DEF Attains
<1>4. CASE severity[b] > severity[a]
  <2>1. Worse(a, b) = b
    BY <1>4 DEF Worse
  <2>2. \A s \in A : severity[s] <= severity[b]
    BY <1>2, <1>3, <1>4
  <2> QED
    BY <1>1, <1>3, <2>1, <2>2 DEF Attains
<1>5. CASE ~ (severity[b] > severity[a])
  <2>1. Worse(a, b) = a
    BY <1>5 DEF Worse
  <2>2. \A s \in B : severity[s] <= severity[a]
    BY <1>2, <1>3, <1>5
  <2> QED
    BY <1>1, <1>3, <2>1, <2>2 DEF Attains
<1> QED
  BY <1>4, <1>5

\* An answer is the worst of itself.
LEMMA AttainsItself ==
  ASSUME NEW a \in Statuses PROVE Attains(a, {a})
<1>1. severity[a] \in Nat
  BY Severities
<1> QED
  BY <1>1 DEF Attains

\* A status that some answers attain is the worst of them.
LEMMA AttainsWorst ==
  ASSUME NEW answers \in SUBSET Statuses, answers # {}, NEW status, Attains(status, answers)
  PROVE  status = WorstOf(answers)
<1>1. status \in answers
  <2>1. CASE status = "success"
    <3>1. PICK s \in answers : TRUE
      OBVIOUS
    <3>0. severity["success"] = 0
      BY Severities
    <3>1n. severity[s] \in Nat
      BY Severities
    <3>2. severity[s] <= 0
      BY <2>1, <3>0 DEF Attains
    <3>3. severity[s] = severity["success"]
      BY <3>0, <3>1n, <3>2
    <3>4. s = "success"
      BY <3>3, SeverityTellsApart DEF Statuses
    <3> QED
      BY <2>1, <3>4
  <2> QED
    BY <2>1 DEF Attains
<1> DEFINE heaviest(s) == s \in answers /\ \A t \in answers : severity[t] <= severity[s]
<1>2. heaviest(status)
  BY <1>1 DEF Attains
<1>3. \A s : heaviest(s) => s = status
  <2>1. ASSUME NEW s, heaviest(s) PROVE s = status
    <3>1. severity[s] <= severity[status] /\ severity[status] <= severity[s]
      BY <1>1, <1>2, <2>1
    <3>0. severity[s] \in Nat /\ severity[status] \in Nat
      BY <1>1, <2>1, Severities
    <3>2. severity[s] = severity[status]
      BY <3>0, <3>1
    <3> QED
      BY <1>1, <2>1, <3>2, SeverityTellsApart
  <2> QED
    BY <2>1
<1>4. WorstOf(answers) = CHOOSE s \in answers : \A t \in answers : severity[t] <= severity[s]
  BY DEF WorstOf
<1>5. WorstOf(answers) = status
  BY <1>1, <1>2, <1>3, <1>4
<1> QED
  BY <1>5

\* A pool whose worst answer is a success had no other answer.
LEMMA CalmPool ==
  ASSUME NEW answers \in SUBSET Asks, NEW status \in Calm, Attains(status, answers),
         NEW s \in answers
  PROVE  s = "success"
<1>1. status = "success"
  BY AsksAreStatuses DEF Attains, Calm
<1>2. s \in Statuses /\ severity[s] <= severity["success"]
  BY <1>1, AsksAreStatuses DEF Attains
<1>n. severity[s] \in Nat /\ severity["success"] = 0
  BY <1>2, Severities
<1>3. severity[s] = severity["success"]
  BY <1>2, <1>n
<1> QED
  BY <1>2, <1>3, SeverityTellsApart DEF Statuses

-----------------------------------------------------------------------------
(* The reports on the results.                                              *)

\* The reports on the results stay reports.
LEMMA ReportsType ==
  ASSUME NEW earlier \in Seq(ReportRecords), NEW current \in Seq(ReportRecords)
  PROVE  withEarlierReports(earlier, current) \in Seq(ReportRecords)
<1> DEFINE others == {i \in DOMAIN earlier : \A k \in DOMAIN current :
                         current[k].source # earlier[i].source}
<1>1. Only(earlier, others) \in Seq(ReportRecords)
  <2>1. others \in SUBSET DOMAIN earlier
    OBVIOUS
  <2> HIDE DEF others
  <2> QED
    BY <2>1, OnlyLists
<1>2. withEarlierReports(earlier, current) = Only(earlier, others) \o current
  BY DEF withEarlierReports
<1> HIDE DEF others
<1> QED
  BY <1>1, <1>2

\* The reports of a run stand once each on the results, the earlier ones of
\* other sources beside them.
LEMMA EarlierReports ==
  ASSUME NEW earlier \in Seq(ReportRecords), NEW current \in Seq(ReportRecords),
         \A j, k \in DOMAIN current : current[j].source = current[k].source => j = k,
         NEW all, all = withEarlierReports(earlier, current)
  PROVE  /\ all \in Seq(ReportRecords)
         /\ \A i \in DOMAIN earlier :
               (\A k \in DOMAIN current : current[k].source # earlier[i].source)
                  => \E j \in DOMAIN all : all[j] = earlier[i]
         /\ \A k \in DOMAIN current : \E j \in DOMAIN all :
               /\ all[j] = current[k]
               /\ \A i \in DOMAIN all : all[i].source = current[k].source => i = j
<1> DEFINE others == {i \in DOMAIN earlier : \A k \in DOMAIN current :
                         current[k].source # earlier[i].source}
           kept == Only(earlier, others)
           n == Len(kept)
<1>1. all = kept \o current
  BY DEF withEarlierReports
<1>2. /\ kept \in Seq(ReportRecords) /\ DOMAIN kept = 1 .. n /\ n \in Nat
      /\ \A j \in DOMAIN kept : \E i \in others : kept[j] = earlier[i]
      /\ \A i \in others : \E j \in DOMAIN kept : kept[j] = earlier[i]
  <2>1. others \in SUBSET DOMAIN earlier
    OBVIOUS
  <2> HIDE DEF others
  <2> QED
    BY <2>1, OnlyLists
<1>o. \A i \in others : i \in DOMAIN earlier /\ \A k \in DOMAIN current :
                           current[k].source # earlier[i].source
  OBVIOUS
<1>p. \A i \in DOMAIN earlier :
         (\A k \in DOMAIN current : current[k].source # earlier[i].source) => i \in others
  OBVIOUS
<1> HIDE DEF kept, others
<1>3. /\ all \in Seq(ReportRecords) /\ Len(all) = n + Len(current)
      /\ DOMAIN all = 1 .. n + Len(current) /\ Len(current) \in Nat
      /\ DOMAIN current = 1 .. Len(current)
      /\ \A j \in 1 .. n : all[j] = kept[j]
      /\ \A k \in 1 .. Len(current) : all[n + k] = current[k]
  BY <1>1, <1>2
<1>4. ASSUME NEW i \in DOMAIN earlier,
             \A k \in DOMAIN current : current[k].source # earlier[i].source
      PROVE  \E j \in DOMAIN all : all[j] = earlier[i]
  <2>1. PICK j \in 1 .. n : kept[j] = earlier[i]
    BY <1>2, <1>4, <1>p
  <2>2. j \in DOMAIN all /\ all[j] = earlier[i]
    BY <1>2, <1>3, <2>1
  <2> QED
    BY <2>2
<1>5. ASSUME NEW k \in DOMAIN current
      PROVE  /\ n + k \in DOMAIN all /\ all[n + k] = current[k]
             /\ \A i \in DOMAIN all : all[i].source = current[k].source => i = n + k
  <2>1. n + k \in DOMAIN all /\ all[n + k] = current[k]
    BY <1>2, <1>3
  <2>2. ASSUME NEW i \in DOMAIN all, all[i].source = current[k].source
        PROVE  i = n + k
    <3>1. CASE i \in 1 .. n
      <4>1. PICK o \in others : kept[i] = earlier[o]
        BY <1>2, <3>1
      <4> QED
        BY <1>3, <1>o, <2>2, <3>1, <4>1
    <3>2. CASE i \notin 1 .. n
      <4>1. i - n \in 1 .. Len(current) /\ i = n + (i - n)
        BY <1>2, <1>3, <3>2
      <4>2. all[i] = current[i - n]
        BY <1>3, <4>1
      <4>3. i - n = k
        BY <1>3, <2>2, <4>1, <4>2
      <4> QED
        BY <4>1, <4>3
    <3> QED
      BY <3>1, <3>2
  <2> QED
    BY <2>1, <2>2
<1> QED
  BY <1>3, <1>4, <1>5

-----------------------------------------------------------------------------
(* The CVEs of the findings.                                                *)

\* A finding's CVE is a CVE or none.
LEMMA CveForType ==
  ASSUME findings \in Results, NEW i \in DOMAIN findings
  PROVE  cveFor(findings[i]) \in Cves \cup {NoCve}
<1>1. findings[i].alias \in Cves \cup {NoCve}
  BY EnrichmentAssumption
<1>2. \A g \in Ghsas : MapsTo[g] \in Cves \cup {NoCve}
  BY EnrichmentAssumption
<1> QED
  BY <1>1, <1>2 DEF cveFor, knownCVE

\* The findings are a sequence.
LEMMA FindingsAreSequence ==
  ASSUME findings \in Results
  PROVE  Len(findings) \in Nat /\ DOMAIN findings = 1 .. Len(findings)
BY EnrichmentAssumption

\* Of the indexes that have a property there is a least one.
LEMMA LeastIndex ==
  ASSUME NEW S \in SUBSET Nat, S # {}
  PROVE  \E i \in S : \A j \in S : ~(j < i)
<1> DEFINE less == {ss \in Nat \X Nat : ss[1] < ss[2]}
<1>1. IsWellFoundedOn(less, Nat)
  BY NatLessThanWellFounded DEF OpToRel
<1>2. PICK i \in S : \A j \in S : ~ (<<j, i>> \in less)
  <2> HIDE DEF less
  <2> QED
    BY <1>1, WFMin
<1> QED
  BY <1>2

\* cveList names every CVE a finding has, and only those.
LEMMA CveListNames ==
  ASSUME findings \in Results
  PROVE  /\ CveList \in Seq(Cves)
         /\ \A i \in DOMAIN findings : cveFor(findings[i]) # NoCve =>
               \E k \in DOMAIN CveList : CveList[k] = cveFor(findings[i])
<1> DEFINE first == {i \in DOMAIN findings :
                       /\ FindingCves[i] # NoCve
                       /\ \A j \in 1 .. i - 1 : FindingCves[j] # FindingCves[i]}
           all == Cves \cup {NoCve}
<1>1. /\ FindingCves \in Seq(all) /\ DOMAIN FindingCves = DOMAIN findings
      /\ \A i \in DOMAIN findings : FindingCves[i] = cveFor(findings[i])
  <2>1. FindingCves \in [1 .. Len(findings) -> all] /\ Len(findings) \in Nat
    BY FindingsAreSequence, CveForType DEF FindingCves
  <2> QED
    BY <2>1 DEF FindingCves
<1>2. CveList = Only(FindingCves, first)
  BY DEF CveList
<1>3. first \in SUBSET DOMAIN FindingCves
  BY <1>1
<1>4. /\ CveList \in Seq(all) /\ DOMAIN CveList = 1 .. Len(CveList)
      /\ \A k \in DOMAIN CveList : \E i \in first : CveList[k] = FindingCves[i]
      /\ \A i \in first : \E k \in DOMAIN CveList : CveList[k] = FindingCves[i]
  <2> HIDE DEF first, all
  <2> QED
    BY <1>1, <1>2, <1>3, OnlyLists
<1>5. CveList \in Seq(Cves)
  <2>1. \A k \in 1 .. Len(CveList) : CveList[k] # NoCve
    BY <1>4
  <2>2. \A k \in 1 .. Len(CveList) : CveList[k] \in all
    BY <1>4
  <2>3. \A k \in 1 .. Len(CveList) : CveList[k] \in Cves
    BY <2>1, <2>2
  <2>4. CveList \in [1 .. Len(CveList) -> Cves] /\ Len(CveList) \in Nat
    BY <1>4, <2>3
  <2> QED
    BY <2>4
<1>6. ASSUME NEW i \in DOMAIN findings, cveFor(findings[i]) # NoCve
      PROVE  \E k \in DOMAIN CveList : CveList[k] = cveFor(findings[i])
  <2> DEFINE same == {j \in DOMAIN findings : FindingCves[j] = FindingCves[i]}
  <2>1. same \in SUBSET Nat /\ i \in same
    BY FindingsAreSequence
  <2>2. PICK j \in same : \A m \in same : ~(m < j)
    <3> HIDE DEF same
    <3> QED
      BY <2>1, LeastIndex
  <2>3. j \in first
    <3>1. FindingCves[j] # NoCve
      BY <1>1, <1>6, <2>2
    <3>2. ASSUME NEW m \in 1 .. j - 1 PROVE FindingCves[m] # FindingCves[j]
      <4>1. m \in DOMAIN findings /\ m < j
        BY <2>2, FindingsAreSequence
      <4> QED
        BY <2>2, <4>1
    <3> QED
      BY <2>2, <3>1, <3>2
  <2> QED
    BY <1>1, <1>4, <1>6, <2>2, <2>3
<1> QED
  BY <1>5, <1>6

-----------------------------------------------------------------------------
(* What the steps leave alone.                                              *)

\* What is looked up depends on the findings alone.
LEMMA SameLookups ==
  ASSUME findings' = findings
  PROVE  Lookups' = Lookups /\ TargetNames' = TargetNames
BY DEF Lookups, TargetNames, Targets, Npm, Severe, FirstOf

\* The CVEs of the findings change with the advisories only.
LEMMA SameCves ==
  ASSUME findings' = findings, advisory' = advisory
  PROVE  /\ \A f : cveFor(f)' = cveFor(f)
         /\ \A id : Has(id)' = Has(id)
         /\ CveList' = CveList /\ Answers' = Answers
<1>1. \A f : cveFor(f)' = cveFor(f)
  BY DEF cveFor, knownCVE, Has
<1>2. FindingCves' = FindingCves
  BY <1>1 DEF FindingCves
<1>3. CveList' = CveList
  BY <1>2 DEF CveList, Only, InOrder
<1> QED
  BY <1>1, <1>3 DEF Has, Answers

\* The findings never change.
LEMMA FindingsStay ==
  ASSUME [Next]_vars
  PROVE  findings' = findings
BY DEF Next, Work, vars, SkipAll, StartGhsa, Acquire, LookedUp, StartFeeds, Kev,
       EpssBatch, EpssBatchFails, StartRegistry, Probed, Finish, EnrichAgain

\* Outside the pools and the feeds nothing of theirs is under way.
LEMMA FeedsOnly ==
  ASSUME Typed, Pools, Feeds
  PROVE  /\ \A x : Acquire(x) => pc \in {"ghsa", "registry"}
         /\ Kev \/ EpssBatch \/ EpssBatchFails => pc = "feeds"
BY DEF Typed, Pools, Feeds, Acquire, Kev, EpssBatch, EpssBatchFails

-----------------------------------------------------------------------------
(* Types.                                                                   *)

\* Sequences with one or two elements more.
LEMMA Longer ==
  ASSUME NEW R, NEW s \in Seq(R), NEW a \in R, NEW b \in R
  PROVE  <<a>> \in Seq(R) /\ <<a, b>> \in Seq(R) /\ s \o <<a, b>> \in Seq(R)
OBVIOUS

\* A sequence that goes on with another one.
LEMMA JoinedIs ==
  ASSUME NEW S, NEW s \in Seq(S), NEW t \in Seq(S), NEW u \in Seq(S),
         Len(u) = Len(s) + Len(t),
         \A i \in 1 .. Len(s) : s[i] = u[i], \A i \in 1 .. Len(t) : t[i] = u[Len(s) + i]
  PROVE  s \o t = u
<1> DEFINE v == s \o t
           m == Len(s)
           n == Len(t)
<1>0. m \in Nat /\ n \in Nat
  OBVIOUS
<1>1. /\ v \in Seq(S) /\ Len(v) = m + n
      /\ \A i \in 1 .. m + n : v[i] = IF i <= m THEN s[i] ELSE t[i - m]
  BY ConcatProperties
<1>2. \A i \in 1 .. n : t[i] = u[m + i]
  OBVIOUS
<1>3. Len(u) = m + n /\ \A i \in 1 .. m : s[i] = u[i]
  OBVIOUS
<1> HIDE DEF v, m, n
<1>4. \A i \in 1 .. m + n : v[i] = u[i]
  <2>1. \A i \in 1 .. m + n : ~(i <= m) => i - m \in 1 .. n /\ m + (i - m) = i
    BY <1>0
  <2>2. \A i \in 1 .. m + n : i <= m => i \in 1 .. m
    BY <1>0
  <2> QED
    BY <1>1, <1>2, <1>3, <2>1, <2>2
<1>5. v = u
  BY <1>1, <1>3, <1>4
<1> QED
  BY <1>5 DEF v

\* The reports of the feeds behind the one of the advisories.
LEMMA OneAndTwo ==
  ASSUME NEW a, NEW b, NEW c
  PROVE  <<a>> \o <<b, c>> = <<a, b, c>>
<1> DEFINE s == <<a>>
           t == <<b, c>>
           u == <<a, b, c>>
           S == {a, b, c}
<1>1. s \in Seq(S) /\ t \in Seq(S) /\ u \in Seq(S)
  OBVIOUS
<1>2. Len(s) = 1 /\ Len(t) = 2 /\ Len(u) = 3
  OBVIOUS
<1>3. \A i \in 1 .. 1 : s[i] = u[i]
  OBVIOUS
<1>4. \A i \in 1 .. 2 : t[i] = u[1 + i]
  OBVIOUS
<1>5. s \o t = u
  <2> HIDE DEF s, t, u, S
  <2>1. \A i \in 1 .. Len(s) : s[i] = u[i]
    BY <1>2, <1>3
  <2>2. \A i \in 1 .. Len(t) : t[i] = u[Len(s) + i]
    BY <1>2, <1>4
  <2>3. Len(u) = Len(s) + Len(t)
    BY <1>2
  <2> QED
    BY <1>1, <2>1, <2>2, <2>3, JoinedIs
<1> QED
  BY <1>5

\* The last two behind them.
LEMMA ThreeAndTwo ==
  ASSUME NEW a, NEW b, NEW c, NEW d, NEW e
  PROVE  <<a, b, c>> \o <<d, e>> = <<a, b, c, d, e>>
<1> DEFINE s == <<a, b, c>>
           t == <<d, e>>
           u == <<a, b, c, d, e>>
           S == {a, b, c, d, e}
<1>1. s \in Seq(S) /\ t \in Seq(S) /\ u \in Seq(S)
  OBVIOUS
<1>2. Len(s) = 3 /\ Len(t) = 2 /\ Len(u) = 5
  OBVIOUS
<1>3. \A i \in 1 .. 3 : s[i] = u[i]
  OBVIOUS
<1>4. \A i \in 1 .. 2 : t[i] = u[3 + i]
  OBVIOUS
<1>5. s \o t = u
  <2> HIDE DEF s, t, u, S
  <2>1. \A i \in 1 .. Len(s) : s[i] = u[i]
    BY <1>2, <1>3
  <2>2. \A i \in 1 .. Len(t) : t[i] = u[Len(s) + i]
    BY <1>2, <1>4
  <2>3. Len(u) = Len(s) + Len(t)
    BY <1>2
  <2> QED
    BY <1>1, <2>1, <2>2, <2>3, JoinedIs
<1> QED
  BY <1>5

\* A report of a source.
LEMMA ReportType ==
  ASSUME NEW source \in SourceNames, NEW status \in Statuses
  PROVE  /\ Report(source, status) \in ReportRecords
         /\ Report(source, status).source = source
         /\ Report(source, status).status = status
BY DEF Report, ReportRecords, SourceNames

\* Of the CVEs left, a batch takes the first and the rest stay.
LEMMA BatchTakesFirst ==
  ASSUME left \in Seq(Cves)
  PROVE  /\ AfterBatch \in Seq(Cves)
         /\ \A j \in DOMAIN left :
               left[j] \in Batch \/ \E i \in DOMAIN AfterBatch : AfterBatch[i] = left[j]
<1> DEFINE n == Len(left)
<1>1. BatchSize \in Nat \ {0} /\ n \in Nat /\ DOMAIN left = 1 .. n
      /\ \A j \in 1 .. n : left[j] \in Cves
  BY EnrichmentAssumption
<1>2. AfterBatch = [i \in 1 .. (n - BatchSize) |-> left[BatchSize + i]]
  BY <1>1 DEF AfterBatch
<1> HIDE DEF n
<1>3. CASE n <= BatchSize
  <2>1. AfterBatch = <<>>
    BY <1>1, <1>2, <1>3
  <2>2. \A j \in DOMAIN left : left[j] \in Batch
    BY <1>1, <1>3 DEF Batch, Min2, n
  <2> QED
    BY <2>1, <2>2
<1>4. CASE n > BatchSize
  <2> DEFINE m == n - BatchSize
  <2>1. m \in Nat /\ m + BatchSize = n
    BY <1>1, <1>4
  <2>2. AfterBatch \in [1 .. m -> Cves]
    BY <1>1, <1>2, <2>1
  <2>3. AfterBatch \in Seq(Cves) /\ DOMAIN AfterBatch = 1 .. m
    BY <2>1, <2>2
  <2>4. ASSUME NEW j \in 1 .. n
        PROVE  left[j] \in Batch \/ \E i \in DOMAIN AfterBatch : AfterBatch[i] = left[j]
    <3>1. CASE j <= BatchSize
      BY <1>1, <1>4, <3>1 DEF Batch, Min2, n
    <3>2. CASE j > BatchSize
      <4>1. j - BatchSize \in 1 .. m /\ BatchSize + (j - BatchSize) = j
        BY <1>1, <2>1, <3>2
      <4>2. AfterBatch[j - BatchSize] = left[j]
        BY <1>2, <4>1
      <4> QED
        BY <2>3, <4>1, <4>2
    <3> QED
      BY <1>1, <3>1, <3>2
  <2> QED
    BY <1>1, <2>3, <2>4
<1> QED
  BY <1>1, <1>3, <1>4

\* The status of the scores is one of the statuses, and mild only if no batch failed.
LEMMA EpssStatusType ==
  ASSUME Typed, epss # "off", batches[2] > 0 => epss \in Refusals
  PROVE  /\ EpssStatus \in Statuses
         /\ EpssStatus \in Calm => batches[2] = 0
<1>1. epss \in Statuses /\ "partial" \in Statuses
  BY AsksAreStatuses DEF Typed, Statuses
<1>2. batches[2] \in Nat
  BY DEF Typed
<1>3. epss \in Refusals => epss \notin Calm
  BY EnrichmentAssumption DEF Failures, Calm
<1> QED
  BY <1>1, <1>2, <1>3 DEF EpssStatus, Calm

\* The worst of the answers is a status.
LEMMA PoolStatus ==
  ASSUME NEW answers \in SUBSET Asks, NEW status, Attains(status, answers)
  PROVE  status \in Statuses /\ status \in Asks
BY AsksAreStatuses DEF Attains, Asks, Statuses

\* The answers are answers.
LEMMA AnswersType ==
  ASSUME Typed
  PROVE  Answers \in SUBSET Asks /\ Probes \in SUBSET Asks
<1>1. \A x \in DOMAIN registry : {registry[x][1], registry[x][2]} \subseteq Asks
  BY DEF Typed
<1> QED
  BY <1>1 DEF Typed, Answers, Probes

\* The version asked for under a name is one of a finding with that name.
LEMMA AskedVersionType ==
  ASSUME NEW name \in TargetNames
  PROVE  /\ name \in {findings[i].name : i \in DOMAIN findings}
         /\ AskedVersion(name) \in {findings[i].version : i \in DOMAIN findings}
<1>1. Targets \subseteq DOMAIN findings
  BY DEF Targets, FirstOf, Npm
<1>2. \E i \in Targets : findings[i].name = name
  BY DEF TargetNames
<1> QED
  BY <1>1, <1>2 DEF AskedVersion

\* What a finding has received with other signals.
LEMMA SignalsSet ==
  ASSUME NEW S, NEW r \in [adv : BOOLEAN, kev : BOOLEAN, epss : BOOLEAN, signals : S],
         NEW s \in S, NEW n, n = [r EXCEPT !.signals = s]
  PROVE  /\ n \in [adv : BOOLEAN, kev : BOOLEAN, epss : BOOLEAN, signals : S]
         /\ n.adv = r.adv /\ n.kev = r.kev /\ n.epss = r.epss
         /\ n.signals = s
OBVIOUS

\* What the findings receive once the feeds answered.
LEMMA FeedsDelivered ==
  ASSUME Typed, StartRegistry
  PROVE  /\ enriched' \in [DOMAIN findings -> Received]
         /\ \A i \in DOMAIN findings :
               /\ enriched'[i].adv = (enriched[i].adv \/ Has(findings[i].id))
               /\ enriched'[i].kev = (enriched[i].kev
                                        \/ (kev = "success" /\ cveFor(findings[i]) \in Listed))
               /\ enriched'[i].epss = (enriched[i].epss \/ cveFor(findings[i]) \in scores)
               /\ enriched'[i].signals = enriched[i].signals
<1> DEFINE a(i) == Has(findings[i].id)
           k(i) == kev = "success" /\ cveFor(findings[i]) \in Listed
           e(i) == cveFor(findings[i]) \in scores
<1>1. enriched' = [i \in DOMAIN findings |->
                     [enriched[i] EXCEPT !.adv = @ \/ a(i), !.kev = @ \/ k(i),
                                         !.epss = @ \/ e(i)]]
  BY DEF StartRegistry
<1>2. \A i \in DOMAIN findings : a(i) \in BOOLEAN /\ k(i) \in BOOLEAN /\ e(i) \in BOOLEAN
  BY DEF Has
<1>3. enriched \in [DOMAIN findings -> Received]
  BY DEF Typed
<1> HIDE DEF a, k, e
<1>4. ASSUME NEW i \in DOMAIN findings
      PROVE  /\ enriched'[i] \in Received
             /\ enriched'[i].adv = (enriched[i].adv \/ a(i))
             /\ enriched'[i].kev = (enriched[i].kev \/ k(i))
             /\ enriched'[i].epss = (enriched[i].epss \/ e(i))
             /\ enriched'[i].signals = enriched[i].signals
  <2>1. enriched'[i] = [enriched[i] EXCEPT !.adv = @ \/ a(i), !.kev = @ \/ k(i),
                                           !.epss = @ \/ e(i)]
    BY <1>1
  <2> DEFINE S == {<<>>} \cup ({findings[j].name : j \in DOMAIN findings}
                                 \X {findings[j].version : j \in DOMAIN findings})
             r == enriched[i]
             n == enriched'[i]
  <2>2. r \in [adv : BOOLEAN, kev : BOOLEAN, epss : BOOLEAN, signals : S]
    BY <1>3 DEF Received
  <2>3. n = [r EXCEPT !.adv = @ \/ a(i), !.kev = @ \/ k(i), !.epss = @ \/ e(i)]
    BY <2>1
  <2> HIDE DEF S, r, n
  <2>4. /\ n \in [adv : BOOLEAN, kev : BOOLEAN, epss : BOOLEAN, signals : S]
        /\ n.adv = (r.adv \/ a(i)) /\ n.kev = (r.kev \/ k(i))
        /\ n.epss = (r.epss \/ e(i)) /\ n.signals = r.signals
    BY <1>2, <2>2, <2>3
  <2> QED
    BY <2>4 DEF n, r, S, Received
<1>5. enriched' \in [DOMAIN findings -> Received]
  BY <1>1, <1>4
<1> QED
  BY <1>4, <1>5 DEF a, k, e

\* What the findings receive once the registry answered.
LEMMA RegistryDelivered ==
  ASSUME Typed, Pools, Finish
  PROVE  /\ enriched' \in [DOMAIN findings -> Received]
         /\ \A i \in DOMAIN findings :
               /\ enriched'[i].adv = enriched[i].adv
               /\ enriched'[i].kev = enriched[i].kev
               /\ enriched'[i].epss = enriched[i].epss
               /\ Signalled(findings[i].name) => enriched'[i].signals =
                     <<findings[i].name, AskedVersion(findings[i].name)>>
               /\ ~Signalled(findings[i].name) => enriched'[i].signals = enriched[i].signals
<1> DEFINE name(i) == findings[i].name
           Signals == {<<>>} \cup ({findings[i].name : i \in DOMAIN findings}
                                     \X {findings[i].version : i \in DOMAIN findings})
<1>1. enriched' = [i \in DOMAIN findings |->
                     IF Signalled(name(i))
                     THEN [enriched[i] EXCEPT !.signals = <<name(i), AskedVersion(name(i))>>]
                     ELSE enriched[i]]
  BY DEF Finish
<1>2. enriched \in [DOMAIN findings -> Received]
  BY DEF Typed
<1>3. DOMAIN registry \subseteq TargetNames
  BY DEF Pools, Pool, Finish
<1>4. ASSUME NEW i \in DOMAIN findings
      PROVE  /\ enriched'[i] \in Received
             /\ enriched'[i].adv = enriched[i].adv
             /\ enriched'[i].kev = enriched[i].kev
             /\ enriched'[i].epss = enriched[i].epss
             /\ Signalled(name(i)) =>
                   enriched'[i].signals = <<name(i), AskedVersion(name(i))>>
             /\ ~Signalled(name(i)) => enriched'[i].signals = enriched[i].signals
  <2>1. enriched[i] \in Received
    BY <1>2
  <2>2. CASE Signalled(name(i))
    <3>1. enriched'[i] = [enriched[i] EXCEPT !.signals = <<name(i), AskedVersion(name(i))>>]
      BY <1>1, <2>2
    <3>2. name(i) \in TargetNames
      BY <1>3, <2>2 DEF Signalled
    <3>3. <<name(i), AskedVersion(name(i))>> \in Signals
      BY <3>2, AskedVersionType
    <3> HIDE DEF Signals, name
    <3> QED
      BY <2>1, <2>2, <3>1, <3>3, SignalsSet DEF Received, Signals
  <2>3. CASE ~Signalled(name(i))
    BY <1>1, <2>1, <2>3
  <2> QED
    BY <2>2, <2>3
<1>5. enriched' \in [DOMAIN findings -> Received]
  BY <1>1, <1>4
<1> QED
  BY <1>4, <1>5

\* The reports of a run, before it ends and after: five sources, each once.
RunReports(g, k, e, n) ==
    <<Report("ghsa", g), Report("kev", k), Report("epss", e),
      Report("npm_registry", n), Report("malware", "skipped")>>

\* The reports of a run that ends stand once each on the results.
LEMMA RunReportsStand ==
  ASSUME network \in Seq(ReportRecords),
         NEW g \in Statuses, NEW k \in Statuses, NEW e \in Statuses, NEW n \in Statuses,
         network' = withEarlierReports(network, RunReports(g, k, e, n))
  PROVE  /\ network' \in Seq(ReportRecords)
         /\ Told("ghsa")' = {g} /\ Told("kev")' = {k} /\ Told("epss")' = {e}
         /\ Told("npm_registry")' = {n}
         /\ \A i \in DOMAIN network : network[i].source = "ghsa_packages" =>
               \E j \in DOMAIN network' : network'[j] = network[i]
         /\ \A s \in DOMAIN Sources :
               Cardinality({i \in DOMAIN network' : network'[i].source = Sources[s]}) = 1
<1> DEFINE all == RunReports(g, k, e, n)
<1>0. all = RunReports(g, k, e, n) /\ network' = withEarlierReports(network, all)
  OBVIOUS
<1> HIDE DEF all
<1>1. /\ all \in Seq(ReportRecords) /\ DOMAIN all = 1 .. 5
      /\ all[1] = Report("ghsa", g) /\ all[2] = Report("kev", k)
      /\ all[3] = Report("epss", e) /\ all[4] = Report("npm_registry", n)
      /\ \A s \in DOMAIN Sources : s \in DOMAIN all /\ all[s].source = Sources[s]
      /\ \A i, j \in DOMAIN all : all[i].source = all[j].source => i = j
      /\ \A i \in DOMAIN all : all[i].source # "ghsa_packages"
  <2>1. "skipped" \in Statuses
    BY DEF Statuses
  <2>2. Report("ghsa", g) \in ReportRecords /\ Report("ghsa", g).source = "ghsa"
    BY DEF Report, ReportRecords, SourceNames
  <2>3. Report("kev", k) \in ReportRecords /\ Report("kev", k).source = "kev"
    BY DEF Report, ReportRecords, SourceNames
  <2>4. Report("epss", e) \in ReportRecords /\ Report("epss", e).source = "epss"
    BY DEF Report, ReportRecords, SourceNames
  <2>5. /\ Report("npm_registry", n) \in ReportRecords
        /\ Report("npm_registry", n).source = "npm_registry"
    BY DEF Report, ReportRecords, SourceNames
  <2>6. /\ Report("malware", "skipped") \in ReportRecords
        /\ Report("malware", "skipped").source = "malware"
    BY <2>1 DEF Report, ReportRecords, SourceNames
  <2>7. all = <<Report("ghsa", g), Report("kev", k), Report("epss", e),
                Report("npm_registry", n), Report("malware", "skipped")>>
    BY <1>0 DEF RunReports
  <2>8. all \in Seq(ReportRecords) /\ DOMAIN all = 1 .. 5
    BY <2>2, <2>3, <2>4, <2>5, <2>6, <2>7
  <2>9. /\ all[1] = Report("ghsa", g) /\ all[2] = Report("kev", k)
        /\ all[3] = Report("epss", e) /\ all[4] = Report("npm_registry", n)
        /\ all[5] = Report("malware", "skipped")
    BY <2>7
  <2>10. \A s \in 1 .. 5 : all[s].source = Sources[s]
    BY <2>2, <2>3, <2>4, <2>5, <2>6, <2>9 DEF Sources
  <2>11. DOMAIN Sources = 1 .. 5
    BY DEF Sources
  <2>12. /\ \A i, j \in 1 .. 5 : Sources[i] = Sources[j] => i = j
         /\ \A i \in 1 .. 5 : Sources[i] # "ghsa_packages"
    BY DEF Sources
  <2> QED
    BY <2>8, <2>9, <2>10, <2>11, <2>12
<1>2. /\ network' \in Seq(ReportRecords)
      /\ \A i \in DOMAIN network :
            (\A s \in DOMAIN all : all[s].source # network[i].source)
               => \E j \in DOMAIN network' : network'[j] = network[i]
      /\ \A s \in DOMAIN all : \E j \in DOMAIN network' :
            /\ network'[j] = all[s]
            /\ \A i \in DOMAIN network' : network'[i].source = all[s].source => i = j
  BY <1>0, <1>1, EarlierReports
<1>3. ASSUME NEW s \in DOMAIN all
      PROVE  {network'[i].status : i \in {i \in DOMAIN network' :
                network'[i].source = all[s].source}} = {all[s].status}
  <2>1. PICK j \in DOMAIN network' :
            /\ network'[j] = all[s]
            /\ \A i \in DOMAIN network' : network'[i].source = all[s].source => i = j
    BY <1>2
  <2> QED
    BY <2>1
<1>4. ASSUME NEW source \in SourceNames, NEW status \in Statuses,
             NEW s \in DOMAIN all, all[s] = Report(source, status)
      PROVE  {network'[i].status : i \in {i \in DOMAIN network' :
                network'[i].source = source}} = {status}
  <2>1. all[s].source = source /\ all[s].status = status
    BY <1>4, ReportType
  <2> QED
    BY <1>3, <2>1
<1>5. /\ Told("ghsa")' = {g} /\ Told("kev")' = {k} /\ Told("epss")' = {e}
      /\ Told("npm_registry")' = {n}
  <2>1. {1, 2, 3, 4} \subseteq DOMAIN all
    BY <1>1
  <2>2. Told("ghsa")' = {g}
    BY <1>1, <1>4, <2>1 DEF Told, SourceNames
  <2>3. Told("kev")' = {k}
    BY <1>1, <1>4, <2>1 DEF Told, SourceNames
  <2>4. Told("epss")' = {e}
    BY <1>1, <1>4, <2>1 DEF Told, SourceNames
  <2>5. Told("npm_registry")' = {n}
    BY <1>1, <1>4, <2>1 DEF Told, SourceNames
  <2> QED
    BY <2>2, <2>3, <2>4, <2>5
<1>6. \A s \in DOMAIN Sources :
         Cardinality({i \in DOMAIN network' : network'[i].source = Sources[s]}) = 1
  <2> SUFFICES ASSUME NEW s \in DOMAIN Sources
               PROVE  Cardinality({i \in DOMAIN network' : network'[i].source = Sources[s]}) = 1
    OBVIOUS
  <2>1. s \in DOMAIN all /\ all[s].source = Sources[s]
    BY <1>1
  <2> DEFINE of == {i \in DOMAIN network' : network'[i].source = Sources[s]}
  <2>2. \E j : of = {j}
    <3>1. PICK j \in DOMAIN network' :
              /\ network'[j] = all[s]
              /\ \A i \in DOMAIN network' : network'[i].source = all[s].source => i = j
      BY <1>2, <2>1
    <3>2. of = {j}
      BY <2>1, <3>1
    <3> QED
      BY <3>2
  <2> HIDE DEF of
  <2>3. Cardinality(of) = 1
    BY <2>2, FS_Singleton
  <2> QED
    BY <2>3 DEF of
<1>7. \A i \in DOMAIN network : network[i].source = "ghsa_packages" =>
         \E j \in DOMAIN network' : network'[j] = network[i]
  <2> SUFFICES ASSUME NEW i \in DOMAIN network, network[i].source = "ghsa_packages"
               PROVE  \E j \in DOMAIN network' : network'[j] = network[i]
    OBVIOUS
  <2>1. \A s \in DOMAIN all : all[s].source # "ghsa_packages"
    BY <1>1
  <2>2. \A s \in DOMAIN all : all[s].source # network[i].source
    BY <2>1, Zenon
  <2> QED
    BY <1>2, <2>2, Zenon
<1> QED
  BY <1>2, <1>5, <1>6, <1>7, Zenon

-----------------------------------------------------------------------------
(* The invariant holds at first.                                            *)

\* Nothing is running yet.
LEMMA InitHolds == Init => Typed /\ Pools /\ Feeds /\ Reported /\ OnlyItsOwn
<1> SUFFICES ASSUME Init PROVE Typed /\ Pools /\ Feeds /\ Reported /\ OnlyItsOwn
  OBVIOUS
<1>1. DOMAIN advisory = {} /\ DOMAIN registry = {}
  BY DEF Init, Nothing
<1>2. /\ enriched \in [DOMAIN findings -> Received]
      /\ \A i \in DOMAIN findings : enriched[i] = Bare
  <2>1. Bare \in Received
    BY DEF Bare, Received
  <2> QED
    BY <2>1 DEF Init
<1>3. network \in Seq(ReportRecords)
  <2>1. Report("ghsa_packages", "partial") \in ReportRecords
    BY DEF Report, ReportRecords, SourceNames, Statuses
  <2>2. <<Report("ghsa_packages", "partial")>> \in Seq(ReportRecords)
    BY <2>1
  <2>3. <<>> \in Seq(ReportRecords)
    OBVIOUS
  <2> QED
    BY <2>2, <2>3 DEF Init
<1>4. Typed
  <2>1. reports \in Seq(ReportRecords) /\ left \in Seq(Cves)
    BY DEF Init
  <2>2. batches \in Nat \X Nat /\ scores \in SUBSET Scored
    BY DEF Init
  <2>3. findings \in Results /\ pc = "ready" /\ kev = "off" /\ epss = "off"
    BY DEF Init
  <2> QED
    BY <1>1, <1>2, <1>3, <2>1, <2>2, <2>3 DEF Typed
<1>5. Pools
  BY <1>1 DEF Init, Pools
<1>6. Feeds
  BY DEF Init, Feeds
<1>7. Reported
  BY DEF Init, Reported
<1>8. OnlyItsOwn
  BY <1>2 DEF OnlyItsOwn, Bare
<1> QED
  BY <1>4, <1>5, <1>6, <1>7, <1>8

-----------------------------------------------------------------------------
(* The types are preserved.                                                 *)

\* What the enrichment keeps beside the steps of the pools and the feeds.
Intake == <<findings, left, scores, batches, epss, enriched, reports, network>>

\* Every step keeps the types.
LEMMA TypedStep ==
  ASSUME Typed, Pools, Feeds, [Next]_vars
  PROVE  Typed'
<1>f. findings' = findings
  BY FindingsStay
<1>t. Received' = Received
  BY <1>f DEF Received
<1>1. CASE SkipAll
  <2>1. network' \in Seq(ReportRecords)
    <3>1. "skipped" \in Statuses
      BY DEF Statuses
    <3>2. [k \in DOMAIN Sources |-> Report(Sources[k], "skipped")]
             = RunReports("skipped", "skipped", "skipped", "skipped")
      BY DEF Sources, RunReports
    <3> QED
      BY <1>1, <3>1, <3>2, RunReportsStand DEF SkipAll, Typed
  <2> QED
    BY <1>1, <1>t, <2>1 DEF SkipAll, Typed
<1>2. CASE StartGhsa
  <2>1. /\ DOMAIN advisory' = {} /\ DOMAIN registry' = {}
        /\ reports' = <<>> /\ pc' = "ghsa"
        /\ UNCHANGED <<findings, kev, left, scores, batches, epss, enriched, network>>
    BY <1>2 DEF StartGhsa, Nothing
  <2>2. reports' \in Seq(ReportRecords)
    BY <2>1
  <2> QED
    BY <1>t, <2>1, <2>2 DEF Typed
<1>3. ASSUME NEW x \in queued, Acquire(x) PROVE Typed'
  BY <1>t, <1>3 DEF Acquire, Typed
<1>4. ASSUME NEW x \in flying, LookedUp(x) PROVE Typed'
  <2>1. PICK status \in Asks :
           advisory' = [y \in DOMAIN advisory \cup {x} |->
                          IF y = x THEN status ELSE advisory[y]]
    BY <1>4 DEF LookedUp, Asks
  <2>2. \A y \in DOMAIN advisory' : advisory'[y] \in Asks
    BY <2>1 DEF Typed
  <2>3. UNCHANGED <<pc, kev, registry>> /\ UNCHANGED Intake
    BY <1>4 DEF LookedUp, Intake
  <2> QED
    BY <1>t, <2>2, <2>3 DEF Typed, Intake
<1>5. ASSUME NEW x \in flying, Probed(x) PROVE Typed'
  <2>1. PICK meta \in Asks, downloads \in Asks :
           registry' = [y \in DOMAIN registry \cup {x} |->
                          IF y = x THEN <<meta, downloads>> ELSE registry[y]]
    BY <1>5 DEF Probed, Asks
  <2>2. \A y \in DOMAIN registry' : registry'[y] \in Asks \X Asks
    BY <2>1 DEF Typed
  <2>3. UNCHANGED <<pc, kev, advisory>> /\ UNCHANGED Intake
    BY <1>5 DEF Probed, Intake
  <2> QED
    BY <1>t, <2>2, <2>3 DEF Typed, Intake
<1>6. CASE StartFeeds
  <2>1. worst \in Statuses /\ "skipped" \in Statuses
    BY <1>6, AnswersType, PoolStatus DEF StartFeeds, Pools, Statuses
  <2>2. reports' \in Seq(ReportRecords)
    <3> DEFINE g == IF Lookups = {} THEN "skipped" ELSE worst
    <3>1. Report("ghsa", g) \in ReportRecords
      BY <2>1 DEF Report, ReportRecords, SourceNames
    <3>2. reports' = <<Report("ghsa", g)>>
      BY <1>6 DEF StartFeeds
    <3> HIDE DEF g
    <3> QED
      BY <3>1, <3>2
  <2>3. left' \in Seq(Cves) /\ scores' \in SUBSET Scored
    <3>1. PICK fresh \in SUBSET Scored :
             /\ left' = Only(CveList, {k \in DOMAIN CveList : CveList[k] \notin fresh})
             /\ scores' = {CveList[k] : k \in DOMAIN CveList} \cap fresh
      BY <1>6 DEF StartFeeds
    <3>2. CveList \in Seq(Cves)
      BY CveListNames DEF Typed
    <3>3. {k \in DOMAIN CveList : CveList[k] \notin fresh} \in SUBSET DOMAIN CveList
      OBVIOUS
    <3> QED
      BY <3>1, <3>2, <3>3, OnlyLists
  <2>4. /\ pc' = "feeds" /\ kev' = "asked" /\ batches' = <<0, 0>>
        /\ epss' \in {"skipped", "success"}
        /\ UNCHANGED <<findings, advisory, registry, enriched, network>>
    BY <1>6 DEF StartFeeds
  <2>5. batches' \in Nat \X Nat /\ epss' \in {"off", "skipped"} \cup Asks
    BY <2>4 DEF Asks
  <2> QED
    BY <1>t, <2>2, <2>3, <2>4, <2>5 DEF Typed
<1>7. CASE Kev
  <2>1. kev' \in Asks /\ UNCHANGED <<pc, advisory, registry>> /\ UNCHANGED Intake
    BY <1>7 DEF Kev, Asks, Intake
  <2> QED
    BY <1>t, <2>1 DEF Typed, Intake
<1>8. CASE EpssBatch
  <2>1. left' \in Seq(Cves)
    BY <1>8, BatchTakesFirst DEF EpssBatch, Typed
  <2>2. scores' \in SUBSET Scored /\ batches' \in Nat \X Nat
    BY <1>8 DEF EpssBatch, Typed
  <2>3. UNCHANGED <<findings, pc, advisory, kev, epss, registry, enriched, reports, network>>
    BY <1>8 DEF EpssBatch
  <2> QED
    BY <1>t, <2>1, <2>2, <2>3 DEF Typed
<1>9. CASE EpssBatchFails
  <2>1. left' \in Seq(Cves)
    BY <1>9, BatchTakesFirst DEF EpssBatchFails, Typed
  <2>2. epss' \in Asks /\ batches' \in Nat \X Nat
    BY <1>9 DEF EpssBatchFails, Typed, Asks
  <2>3. UNCHANGED <<findings, pc, advisory, kev, scores, registry, enriched, reports, network>>
    BY <1>9 DEF EpssBatchFails
  <2> QED
    BY <1>t, <2>1, <2>2, <2>3 DEF Typed
<1>10. CASE StartRegistry
  <2>1. enriched' \in [DOMAIN findings -> Received]
    BY <1>10, FeedsDelivered
  <2>2. reports' \in Seq(ReportRecords)
    <3>1. kev \in Statuses /\ EpssStatus \in Statuses
      BY <1>10, AsksAreStatuses, EpssStatusType DEF StartRegistry, Typed, Feeds
    <3>2. Report("kev", kev) \in ReportRecords
      BY <3>1 DEF Report, ReportRecords, SourceNames
    <3>3. Report("epss", EpssStatus) \in ReportRecords
      BY <3>1 DEF Report, ReportRecords, SourceNames
    <3>4. reports' = reports \o <<Report("kev", kev), Report("epss", EpssStatus)>>
      BY <1>10 DEF StartRegistry
    <3> QED
      BY <3>2, <3>3, <3>4, Longer DEF Typed
  <2>3. /\ pc' = "registry" /\ kev' = "off" /\ epss' = "off" /\ scores' = {}
        /\ batches' = <<0, 0>>
        /\ UNCHANGED <<findings, advisory, left, registry, network>>
    BY <1>10 DEF StartRegistry
  <2>4. batches' \in Nat \X Nat
    BY <2>3
  <2> QED
    BY <1>t, <2>1, <2>2, <2>3, <2>4 DEF Typed
<1>11. CASE Finish
  <2>1. enriched' \in [DOMAIN findings -> Received]
    BY <1>11, RegistryDelivered
  <2>2. network' \in Seq(ReportRecords)
    <3> DEFINE n == IF TargetNames = {} THEN "skipped" ELSE worst
    <3>1. n \in Statuses
      BY <1>11, AnswersType, PoolStatus DEF Finish, Pools, Statuses
    <3>2. Report("npm_registry", n) \in ReportRecords
      BY <3>1 DEF Report, ReportRecords, SourceNames
    <3>3. Report("malware", "skipped") \in ReportRecords
      BY DEF Report, ReportRecords, SourceNames, Statuses
    <3> DEFINE current == reports \o <<Report("npm_registry", n), Report("malware", "skipped")>>
    <3>4. network' = withEarlierReports(network, current)
      BY <1>11 DEF Finish
    <3>5. current \in Seq(ReportRecords)
      <4> HIDE DEF n
      <4> QED
        BY <3>2, <3>3, Longer DEF Typed
    <3> HIDE DEF current
    <3> QED
      BY <3>4, <3>5, ReportsType DEF Typed
  <2>3. pc' = "done" /\ UNCHANGED <<findings, advisory, kev, left, scores, batches, epss,
                                    registry, reports>>
    BY <1>11 DEF Finish
  <2> QED
    BY <1>t, <2>1, <2>2, <2>3 DEF Typed
<1>12. CASE EnrichAgain
  BY <1>12, <1>t DEF EnrichAgain, Typed
<1>13. CASE UNCHANGED vars
  BY <1>13, <1>t DEF vars, Typed
<1> QED
  BY <1>1, <1>2, <1>3, <1>4, <1>5, <1>6, <1>7, <1>8, <1>9, <1>10, <1>11, <1>12, <1>13
     DEF Next, Work

-----------------------------------------------------------------------------
(* The pools: every key is looked up once and the worst answer is kept.     *)

\* Every step of the pools and those that start them.
LEMMA PoolsStep ==
  ASSUME Typed, Pools, Feeds, [Next]_vars
  PROVE  Pools'
<1>f. findings' = findings
  BY FindingsStay
<1>k. Lookups' = Lookups /\ TargetNames' = TargetNames
  BY <1>f, SameLookups
<1>o. \/ pc \in {"ready", "ghsa", "feeds", "registry", "done"}
  BY DEF Typed
<1>1. CASE SkipAll
  BY <1>1 DEF SkipAll, Pools
<1>2. CASE StartGhsa
  <2>1. /\ queued' = Lookups /\ flying' = {} /\ DOMAIN advisory' = {}
        /\ DOMAIN registry' = {} /\ pc' = "ghsa" /\ worst' = "success"
    BY <1>2 DEF StartGhsa, Nothing, Pools
  <2>2. Answers' = {}
    BY <2>1 DEF Answers
  <2>3. Pool(Lookups, DOMAIN advisory)'
    BY <1>k, <2>1 DEF Pool
  <2>4. Attains(worst, Answers)'
    BY <2>1, <2>2 DEF Attains
  <2> QED
    BY <2>1, <2>3, <2>4 DEF Pools
<1>3. ASSUME NEW x \in queued, Acquire(x) PROVE Pools'
  <2>1. pc \in {"ghsa", "registry"}
    BY <1>3, FeedsOnly
  <2>2. /\ queued' = queued \ {x} /\ flying' = flying \cup {x}
        /\ UNCHANGED <<pc, advisory, worst, registry>>
    BY <1>3 DEF Acquire
  <2>3. queued' \cap flying' = {} /\ queued' \cup flying' = queued \cup flying
    BY <1>3, <2>2 DEF Pools
  <2>4. /\ pc = "ghsa" => Pool(Lookups, DOMAIN advisory)'
        /\ pc = "registry" => Pool(TargetNames, DOMAIN registry)'
    BY <1>k, <2>2, <2>3 DEF Pools, Pool
  <2>5. Answers' = Answers /\ Probes' = Probes
    BY <2>2 DEF Answers, Probes
  <2>6. /\ pc = "ghsa" => Attains(worst, Answers)'
        /\ pc = "registry" => Attains(worst, Probes)'
    BY <2>2, <2>5 DEF Pools, Attains
  <2> QED
    BY <2>1, <2>2, <2>3, <2>4, <2>6 DEF Pools
<1>4. ASSUME NEW x \in flying, LookedUp(x) PROVE Pools'
  <2>1. /\ pc = "ghsa" /\ pc' = "ghsa" /\ flying' = flying \ {x}
        /\ queued' = queued /\ registry' = registry
    BY <1>4 DEF LookedUp
  <2>2. PICK status \in Asks :
           /\ advisory' = [y \in DOMAIN advisory \cup {x} |->
                             IF y = x THEN status ELSE advisory[y]]
           /\ worst' = Worse(worst, status)
    BY <1>4 DEF LookedUp, Asks
  <2>3. Pool(Lookups, DOMAIN advisory) /\ Attains(worst, Answers) /\ queued \cap flying = {}
    BY <2>1 DEF Pools
  <2>4. x \notin DOMAIN advisory /\ DOMAIN advisory' = DOMAIN advisory \cup {x}
    BY <1>4, <2>2, <2>3 DEF Pool
  <2>5. Pool(Lookups, DOMAIN advisory)' /\ queued' \cap flying' = {}
    BY <1>4, <1>k, <2>1, <2>3, <2>4 DEF Pool
  <2>6. Answers' = Answers \cup {status}
    BY <2>2, <2>4 DEF Answers
  <2>7. Attains(worst', Answers \cup {status})
    <3>1. Answers \in SUBSET Statuses /\ status \in Statuses
      BY AnswersType, AsksAreStatuses
    <3> QED
      BY <2>2, <2>3, <3>1, AttainsItself, WorseAttains
  <2>8. Attains(worst, Answers)'
    BY <2>6, <2>7 DEF Attains
  <2> QED
    BY <2>1, <2>5, <2>8 DEF Pools
<1>5. ASSUME NEW x \in flying, Probed(x) PROVE Pools'
  <2>1. /\ pc = "registry" /\ pc' = "registry" /\ flying' = flying \ {x}
        /\ queued' = queued /\ advisory' = advisory
    BY <1>5 DEF Probed
  <2>2. PICK meta \in Asks, downloads \in Asks :
           /\ registry' = [y \in DOMAIN registry \cup {x} |->
                             IF y = x THEN <<meta, downloads>> ELSE registry[y]]
           /\ worst' = Worse(worst, Worse(meta, downloads))
    BY <1>5 DEF Probed, Asks
  <2>3. Pool(TargetNames, DOMAIN registry) /\ Attains(worst, Probes) /\ queued \cap flying = {}
    BY <2>1 DEF Pools
  <2>4. x \notin DOMAIN registry /\ DOMAIN registry' = DOMAIN registry \cup {x}
    BY <1>5, <2>2, <2>3 DEF Pool
  <2>5. Pool(TargetNames, DOMAIN registry)' /\ queued' \cap flying' = {}
    BY <1>5, <1>k, <2>1, <2>3, <2>4 DEF Pool
  <2>6. Probes' = Probes \cup {meta, downloads}
    <3>1. registry'[x][1] = meta /\ registry'[x][2] = downloads
      BY <2>2
    <3>2. \A y \in DOMAIN registry : registry'[y] = registry[y]
      BY <2>2, <2>4
    <3> QED
      BY <2>4, <3>1, <3>2 DEF Probes
  <2>7. Attains(worst', Probes \cup {meta, downloads})
    <3>1. Probes \in SUBSET Statuses /\ meta \in Statuses /\ downloads \in Statuses
      BY AnswersType, AsksAreStatuses
    <3>2. Attains(Worse(meta, downloads), {meta} \cup {downloads})
      BY <3>1, AttainsItself, WorseAttains
    <3>3. {meta} \cup {downloads} = {meta, downloads}
      OBVIOUS
    <3>4. Attains(Worse(meta, downloads), {meta, downloads})
      BY <3>2, <3>3
    <3> QED
      BY <2>2, <2>3, <3>1, <3>4, WorseAttains
  <2>8. Attains(worst, Probes)'
    BY <2>6, <2>7 DEF Attains
  <2> QED
    BY <2>1, <2>5, <2>8 DEF Pools
<1>6. CASE StartFeeds
  <2>1. /\ pc = "ghsa" /\ queued = {} /\ flying = {} /\ pc' = "feeds"
        /\ UNCHANGED <<queued, flying, registry>>
    BY <1>6 DEF StartFeeds, Pooled
  <2> QED
    BY <2>1 DEF Pools
<1>7. CASE Kev \/ EpssBatch \/ EpssBatchFails
  <2>1. pc = "feeds"
    BY <1>7, FeedsOnly
  <2>2. UNCHANGED <<pc, queued, flying, registry>>
    BY <1>7 DEF Kev, EpssBatch, EpssBatchFails
  <2> QED
    BY <2>1, <2>2 DEF Pools
<1>10. CASE StartRegistry
  <2>1. /\ queued' = TargetNames /\ flying' = {} /\ DOMAIN registry' = {}
        /\ pc' = "registry" /\ worst' = "success"
    BY <1>10 DEF StartRegistry, Pools
  <2>2. Probes' = {}
    BY <2>1 DEF Probes
  <2>3. Pool(TargetNames, DOMAIN registry)'
    BY <1>k, <2>1 DEF Pool
  <2>4. Attains(worst, Probes)'
    BY <2>1, <2>2 DEF Attains
  <2> QED
    BY <2>1, <2>3, <2>4 DEF Pools
<1>11. CASE Finish
  <2>1. queued = {} /\ flying = {} /\ pc' = "done" /\ UNCHANGED <<queued, flying>>
    BY <1>11 DEF Finish, Pooled
  <2> QED
    BY <2>1 DEF Pools
<1>12. CASE EnrichAgain
  BY <1>12 DEF EnrichAgain, Pools
<1>13. CASE UNCHANGED vars
  <2>1. UNCHANGED <<pc, queued, flying, advisory, worst, registry>>
    BY <1>13 DEF vars
  <2>2. Answers' = Answers /\ Probes' = Probes
    BY <2>1 DEF Answers, Probes
  <2> QED
    BY <1>k, <2>1, <2>2 DEF Pools, Pool, Attains
<1> QED
  BY <1>1, <1>2, <1>3, <1>4, <1>5, <1>6, <1>7, <1>10, <1>11, <1>12, <1>13
     DEF Next, Work

-----------------------------------------------------------------------------
(* The feeds: no CVE with a score is lost but by a batch that failed.       *)

\* Every step of the feeds and those that start them.
LEMMA FeedsStep ==
  ASSUME Typed, Pools, Feeds, [Next]_vars
  PROVE  Feeds'
<1>f. findings' = findings
  BY FindingsStay
<1>1. CASE SkipAll
  BY <1>1 DEF SkipAll, Feeds
<1>2. CASE StartGhsa
  BY <1>2 DEF StartGhsa, Feeds
<1>3. ASSUME NEW x \in queued, Acquire(x) PROVE Feeds'
  <2>1. pc # "feeds"
    BY <1>3, FeedsOnly
  <2> QED
    BY <1>3, <2>1 DEF Acquire, Feeds
<1>4. ASSUME NEW x \in flying, LookedUp(x) PROVE Feeds'
  BY <1>4 DEF LookedUp, Feeds
<1>5. ASSUME NEW x \in flying, Probed(x) PROVE Feeds'
  BY <1>5 DEF Probed, Feeds
<1>6. CASE StartFeeds
  <2>1. PICK fresh \in SUBSET Scored :
           /\ left' = Only(CveList, {k \in DOMAIN CveList : CveList[k] \notin fresh})
           /\ scores' = {CveList[k] : k \in DOMAIN CveList} \cap fresh
    BY <1>6 DEF StartFeeds
  <2>2. CveList' = CveList
    BY <1>6, <1>f, SameCves DEF StartFeeds
  <2>3. ASSUME NEW k \in DOMAIN CveList
        PROVE  CveList[k] \in scores' \/ \E j \in DOMAIN left' : left'[j] = CveList[k]
    <3>1. CASE CveList[k] \in fresh
      BY <2>1, <3>1
    <3>2. CASE CveList[k] \notin fresh
      <4> DEFINE at == {m \in DOMAIN CveList : CveList[m] \notin fresh}
      <4>1. at \in SUBSET DOMAIN CveList /\ k \in at /\ CveList \in Seq(Cves)
        BY <3>2, CveListNames DEF Typed
      <4>2. left' = Only(CveList, at)
        BY <2>1
      <4> HIDE DEF at
      <4> QED
        BY <4>1, <4>2, OnlyLists
    <3> QED
      BY <3>1, <3>2
  <2>4. pc' = "feeds" /\ kev' = "asked" /\ epss' # "off" /\ batches'[2] = 0
    BY <1>6 DEF StartFeeds
  <2> QED
    BY <2>2, <2>3, <2>4 DEF Feeds
<1>7. CASE Kev \/ EpssBatch \/ EpssBatchFails
  <2>1. pc = "feeds" /\ pc' = "feeds" /\ advisory' = advisory
    BY <1>7, FeedsOnly DEF Kev, EpssBatch, EpssBatchFails
  <2>2. CveList' = CveList
    BY <1>f, <2>1, SameCves
  <2>3. CASE Kev
    <3>1. kev' \in Asks /\ UNCHANGED <<left, scores, batches, epss>>
      BY <2>3 DEF Kev, Asks
    <3>2. kev' # "off"
      BY <3>1, AsksAreStatuses DEF Statuses
    <3> QED
      BY <2>1, <2>2, <3>1, <3>2 DEF Feeds
  <2>4. CASE EpssBatch
    <3>1. /\ scores' = scores \cup (Batch \cap Scored) /\ left' = AfterBatch
          /\ batches' = <<batches[1] + 1, batches[2]>> /\ UNCHANGED <<kev, epss>>
      BY <2>4 DEF EpssBatch
    <3>2. batches'[2] = batches[2]
      BY <3>1
    <3>3. \A j \in DOMAIN left :
             left[j] \in Batch \/ \E i \in DOMAIN left' : left'[i] = left[j]
      BY <3>1, BatchTakesFirst DEF Typed
    <3>4. ASSUME NEW k \in DOMAIN CveList, CveList[k] \in Scored, batches[2] = 0
          PROVE  CveList[k] \in scores' \/ \E j \in DOMAIN left' : left'[j] = CveList[k]
      BY <2>1, <3>1, <3>3, <3>4 DEF Feeds
    <3> QED
      BY <2>1, <2>2, <3>1, <3>2, <3>4 DEF Feeds
  <2>5. CASE EpssBatchFails
    <3>1. batches' = <<batches[1], batches[2] + 1>> /\ epss' \in Refusals /\ kev' = kev
      BY <2>5 DEF EpssBatchFails
    <3>2. batches'[2] > 0 /\ batches'[2] # 0
      BY <3>1 DEF Typed
    <3>3. epss' # "off"
      BY <3>1, EnrichmentAssumption DEF Failures
    <3> QED
      BY <2>1, <3>1, <3>2, <3>3 DEF Feeds
  <2> QED
    BY <1>7, <2>3, <2>4, <2>5
<1>10. CASE StartRegistry
  BY <1>10 DEF StartRegistry, Feeds
<1>11. CASE Finish
  BY <1>11 DEF Finish, Feeds
<1>12. CASE EnrichAgain
  BY <1>12 DEF EnrichAgain, Feeds
<1>13. CASE UNCHANGED vars
  <2>1. UNCHANGED <<pc, kev, left, scores, batches, epss, advisory>>
    BY <1>13 DEF vars
  <2>2. CveList' = CveList
    BY <1>f, <2>1, SameCves
  <2> QED
    BY <2>1, <2>2 DEF Feeds
<1> QED
  BY <1>1, <1>2, <1>3, <1>4, <1>5, <1>6, <1>7, <1>10, <1>11, <1>12, <1>13
     DEF Next, Work

-----------------------------------------------------------------------------
(* The reports say what the findings did not receive.                       *)

\* Once the feeds answered, what they had is on the findings.
LEMMA FeedsReported ==
  ASSUME Typed, Feeds, StartRegistry
  PROVE  \E k, e \in Statuses : k = kev /\ e = EpssStatus /\ Delivered(k, e)'
<1>1. kev \in Asks /\ pc = "feeds" /\ left = <<>> /\ epss # "off"
      /\ (batches[2] > 0 => epss \in Refusals)
      /\ UNCHANGED <<findings, advisory>>
  BY DEF StartRegistry, Typed, Feeds
<1>2. kev \in Statuses /\ (kev \in Calm => kev = "success")
  BY <1>1, AsksAreStatuses
<1>3. EpssStatus \in Statuses /\ (EpssStatus \in Calm => batches[2] = 0)
  BY <1>1, EpssStatusType
<1>4. ASSUME EpssStatus \in Calm, NEW i \in DOMAIN findings, cveFor(findings[i]) \in Scored
      PROVE  cveFor(findings[i]) \in scores
  <2>1. cveFor(findings[i]) # NoCve
    BY <1>4, EnrichmentAssumption
  <2>2. PICK k \in DOMAIN CveList : CveList[k] = cveFor(findings[i])
    BY <2>1, CveListNames DEF Typed
  <2>3. CveList[k] \in scores \/ \E j \in DOMAIN left : left[j] = CveList[k]
    BY <1>1, <1>3, <1>4, <2>2 DEF Feeds
  <2>4. DOMAIN left = {}
    BY <1>1
  <2> QED
    BY <2>2, <2>3, <2>4
<1>5. /\ \A f : cveFor(f)' = cveFor(f)
      /\ \A id : Has(id)' = Has(id)
  BY <1>1, SameCves
<1>6. ASSUME NEW i \in DOMAIN findings
      PROVE  /\ Has(findings[i].id) => enriched'[i].adv
             /\ kev \in Calm /\ cveFor(findings[i]) \in Listed => enriched'[i].kev
             /\ EpssStatus \in Calm /\ cveFor(findings[i]) \in Scored => enriched'[i].epss
  BY <1>2, <1>4, FeedsDelivered
<1>7. \A k, e : (k = kev /\ e = EpssStatus) => Delivered(k, e)'
  BY <1>1, <1>5, <1>6 DEF Delivered
<1> QED
  BY <1>2, <1>3, <1>7

\* The reports that a run leaves when it ends, and what they tell.
LEMMA FinishReports ==
  ASSUME Typed, Pools, Reported, Finish
  PROVE  \E g, k, e, n \in Statuses :
            /\ PoolReport(g, Lookups, Answers) /\ Delivered(k, e)
            /\ PoolReport(n, TargetNames, Probes)
            /\ DOMAIN advisory = Lookups /\ DOMAIN registry = TargetNames
            /\ network' = withEarlierReports(network, RunReports(g, k, e, n))
<1>1. pc = "registry" /\ queued = {} /\ flying = {}
  BY DEF Finish, Pooled
<1>2. PICK g \in Statuses, k \in Statuses, e \in Statuses :
         /\ PoolReport(g, Lookups, Answers) /\ Delivered(k, e)
         /\ reports = <<Report("ghsa", g), Report("kev", k), Report("epss", e)>>
  BY <1>1 DEF Reported
<1>3. DOMAIN advisory = Lookups
  BY <1>1 DEF Reported
<1>4. DOMAIN registry = TargetNames /\ Attains(worst, Probes)
  BY <1>1 DEF Pools, Pool
<1>5. PICK n \in Statuses :
         /\ n = IF TargetNames = {} THEN "skipped" ELSE worst
         /\ PoolReport(n, TargetNames, Probes)
  <2>1. worst \in Statuses /\ "skipped" \in Statuses
    BY <1>4, AnswersType, PoolStatus DEF Statuses
  <2> QED
    BY <1>4, <2>1 DEF PoolReport
<1>6. reports \o <<Report("npm_registry", n), Report("malware", "skipped")>>
        = RunReports(g, k, e, n)
  <2> DEFINE a == Report("ghsa", g)  b == Report("kev", k)  c == Report("epss", e)
             d == Report("npm_registry", n)  f == Report("malware", "skipped")
  <2>1. reports = <<a, b, c>> /\ RunReports(g, k, e, n) = <<a, b, c, d, f>>
    BY <1>2 DEF RunReports
  <2>2. reports \o <<d, f>> = RunReports(g, k, e, n)
    <3> HIDE DEF a, b, c, d, f
    <3> QED
      BY <2>1, ThreeAndTwo, Zenon
  <2> QED
    BY <2>2
<1>n. network' = withEarlierReports(network, RunReports(g, k, e, n))
  BY <1>5, <1>6 DEF Finish
<1> QED
  BY <1>2, <1>3, <1>4, <1>5, <1>n

\* What the reports tell stays true until the next run starts.
LEMMA ReportedStep ==
  ASSUME Typed, Pools, Feeds, Reported, [Next]_vars
  PROVE  Reported'
<1>f. findings' = findings
  BY FindingsStay
<1>k. Lookups' = Lookups /\ TargetNames' = TargetNames
  BY <1>f, SameLookups
<1>1. CASE SkipAll
  BY <1>1 DEF SkipAll, Reported
<1>2. CASE StartGhsa
  BY <1>2 DEF StartGhsa, Reported
<1>4. ASSUME NEW x \in flying, LookedUp(x) PROVE Reported'
  BY <1>4 DEF LookedUp, Reported
<1>6. CASE StartFeeds
  <2>1. /\ pc = "ghsa" /\ pc' = "feeds" /\ queued = {} /\ flying = {} /\ advisory' = advisory
        /\ reports' = <<Report("ghsa", IF Lookups = {} THEN "skipped" ELSE worst)>>
    BY <1>6 DEF StartFeeds, Pooled
  <2>2. DOMAIN advisory = Lookups /\ Attains(worst, Answers)
    BY <2>1 DEF Pools, Pool
  <2>3. worst \in Statuses /\ "skipped" \in Statuses
    BY <2>2, AnswersType, PoolStatus DEF Statuses
  <2> DEFINE g == IF Lookups = {} THEN "skipped" ELSE worst
  <2>4. g \in Statuses /\ PoolReport(g, Lookups, Answers)
    BY <2>2, <2>3 DEF PoolReport
  <2>5. Answers' = Answers
    BY <2>1 DEF Answers
  <2>6. PoolReport(g, Lookups', Answers')
    BY <1>k, <2>4, <2>5
  <2> HIDE DEF g
  <2>7. \E h \in Statuses : PoolReport(h, Lookups', Answers') /\ reports' = <<Report("ghsa", h)>>
    BY <2>1, <2>4, <2>6 DEF g
  <2> QED
    BY <1>k, <2>1, <2>2, <2>7 DEF Reported, PoolReport, Attains
<1>10. CASE StartRegistry
  <2>1. /\ pc = "feeds" /\ pc' = "registry" /\ advisory' = advisory
        /\ reports' = reports \o <<Report("kev", kev), Report("epss", EpssStatus)>>
    BY <1>10 DEF StartRegistry
  <2>2. PICK g \in Statuses : PoolReport(g, Lookups, Answers) /\ reports = <<Report("ghsa", g)>>
    BY <2>1 DEF Reported
  <2>3. DOMAIN advisory = Lookups
    BY <2>1 DEF Reported
  <2>4. PICK k \in Statuses, e \in Statuses :
           k = kev /\ e = EpssStatus /\ Delivered(k, e)'
    BY <1>10, FeedsReported
  <2>5. reports' = <<Report("ghsa", g), Report("kev", k), Report("epss", e)>>
    BY <2>1, <2>2, <2>4, OneAndTwo, Zenon
  <2>6. Answers' = Answers
    BY <2>1 DEF Answers
  <2>7. PoolReport(g, Lookups', Answers')
    BY <1>k, <2>2, <2>6
  <2>8. PoolReport(g, Lookups, Answers)' /\ DOMAIN advisory' = Lookups'
    BY <1>k, <2>1, <2>3, <2>7 DEF PoolReport, Attains
  <2> QED
    BY <2>1, <2>2, <2>4, <2>5, <2>8 DEF Reported
<1>11. CASE Finish
  <2>1. /\ pc = "registry" /\ pc' = "done" /\ queued = {} /\ flying = {}
        /\ UNCHANGED <<advisory, registry>>
    BY <1>11 DEF Finish, Pooled
  <2>2. PICK g \in Statuses, k \in Statuses, e \in Statuses, n \in Statuses :
           /\ PoolReport(g, Lookups, Answers) /\ Delivered(k, e)
           /\ PoolReport(n, TargetNames, Probes)
           /\ DOMAIN advisory = Lookups /\ DOMAIN registry = TargetNames
           /\ network' = withEarlierReports(network, RunReports(g, k, e, n))
    BY <1>11, FinishReports
  <2>7. /\ Told("ghsa")' = {g} /\ Told("kev")' = {k} /\ Told("epss")' = {e}
        /\ Told("npm_registry")' = {n}
    BY <2>2, RunReportsStand DEF Typed
  <2>8. /\ Answers' = Answers /\ Probes' = Probes
        /\ \A f : cveFor(f)' = cveFor(f)
        /\ \A id : Has(id)' = Has(id)
    BY <1>f, <2>1, SameCves DEF Probes
  <2>r. \A i \in DOMAIN findings :
           /\ enriched'[i].adv = enriched[i].adv
           /\ enriched'[i].kev = enriched[i].kev
           /\ enriched'[i].epss = enriched[i].epss
           /\ Signalled(findings[i].name) => enriched'[i].signals =
                 <<findings[i].name, AskedVersion(findings[i].name)>>
    BY <1>11, RegistryDelivered
  <2>9. Delivered(k, e)'
    BY <1>f, <2>2, <2>8, <2>r DEF Delivered
  <2>10. PoolReport(g, Lookups, Answers)' /\ PoolReport(n, TargetNames, Probes)'
    BY <1>k, <2>2, <2>8 DEF PoolReport, Attains
  <2>11. \A i \in DOMAIN findings' :
            Signalled(findings[i].name)' => enriched'[i].signals # <<>>
    BY <1>f, <2>1, <2>r DEF Signalled
  <2>12. DOMAIN advisory' = Lookups' /\ DOMAIN registry' = TargetNames'
    BY <1>k, <2>1, <2>2
  <2> QED
    BY <2>1, <2>2, <2>7, <2>9, <2>10, <2>11, <2>12 DEF Reported
<1>12. CASE EnrichAgain
  BY <1>12 DEF EnrichAgain, Reported
<1>13. ASSUME UNCHANGED <<pc, advisory, registry, enriched, reports, network>>
       PROVE  Reported'
  <2>1. Answers' = Answers /\ Probes' = Probes
    BY <1>13 DEF Answers, Probes
  <2>2. \A f : cveFor(f)' = cveFor(f)
    BY <1>f, <1>13, SameCves
  <2>3. \A id : Has(id)' = Has(id)
    BY <1>f, <1>13, SameCves
  <2>4. \A g : PoolReport(g, Lookups, Answers)' = PoolReport(g, Lookups, Answers)
    BY <1>k, <2>1 DEF PoolReport, Attains
  <2>5. \A g : PoolReport(g, TargetNames, Probes)' = PoolReport(g, TargetNames, Probes)
    BY <1>k, <2>1 DEF PoolReport, Attains
  <2>6. \A k, e : Delivered(k, e)' = Delivered(k, e)
    BY <1>f, <1>13, <2>2, <2>3 DEF Delivered
  <2>7. /\ Told("ghsa")' = Told("ghsa") /\ Told("kev")' = Told("kev")
        /\ Told("epss")' = Told("epss") /\ Told("npm_registry")' = Told("npm_registry")
    BY <1>13 DEF Told
  <2>8. \A name : Signalled(name)' = Signalled(name)
    BY <1>13 DEF Signalled
  <2>9. DOMAIN advisory' = DOMAIN advisory /\ DOMAIN registry' = DOMAIN registry
    BY <1>13
  <2> QED
    BY <1>f, <1>k, <1>13, <2>4, <2>5, <2>6, <2>7, <2>8, <2>9 DEF Reported
<1>3. ASSUME NEW x \in queued, Acquire(x) PROVE Reported'
  BY <1>3, <1>13 DEF Acquire
<1>5. ASSUME NEW x \in flying, Probed(x) PROVE Reported'
  <2>1. pc = "registry" /\ pc' = pc /\ UNCHANGED <<advisory, enriched, reports>>
    BY <1>5 DEF Probed
  <2>2. Answers' = Answers
    BY <2>1 DEF Answers
  <2>3. \A f : cveFor(f)' = cveFor(f)
    BY <1>f, <2>1, SameCves
  <2>4. \A id : Has(id)' = Has(id)
    BY <1>f, <2>1, SameCves
  <2> QED
    BY <1>f, <1>k, <2>1, <2>2, <2>3, <2>4 DEF Reported, PoolReport, Attains, Delivered
<1>7. CASE Kev \/ EpssBatch \/ EpssBatchFails
  BY <1>7, <1>13 DEF Kev, EpssBatch, EpssBatchFails
<1>14. CASE UNCHANGED vars
  BY <1>13, <1>14 DEF vars
<1> QED
  BY <1>1, <1>2, <1>3, <1>4, <1>5, <1>6, <1>7, <1>10, <1>11, <1>12, <1>14
     DEF Next, Work

-----------------------------------------------------------------------------
(* What a finding receives is its own.                                      *)

\* A CVE the program came to know is the finding's.
LEMMA KnownIsTrue ==
  ASSUME NEW f, cveFor(f) # NoCve
  PROVE  TrueCve(f) = cveFor(f)
BY DEF cveFor, TrueCve, Has

\* What a step writes to a finding is of its own CVE and package.
LEMMA OwnStep ==
  ASSUME Typed, Pools, OnlyItsOwn, [Next]_vars
  PROVE  OnlyItsOwn'
<1>f. findings' = findings
  BY FindingsStay
<1>t. \A f : TrueCve(f)' = TrueCve(f)
  BY DEF TrueCve, knownCVE
<1>1. ASSUME enriched' = enriched PROVE OnlyItsOwn'
  BY <1>f, <1>t, <1>1 DEF OnlyItsOwn
<1>2. CASE StartRegistry
  <2>1. ASSUME NEW i \in DOMAIN findings
        PROVE  /\ enriched'[i].kev => TrueCve(findings[i]) \in Listed
               /\ enriched'[i].epss => TrueCve(findings[i]) \in Scored
               /\ enriched'[i].signals # <<>> => enriched'[i].signals[1] = findings[i].name
    <3>1. NoCve \notin Listed /\ NoCve \notin Scored /\ scores \subseteq Scored
      BY EnrichmentAssumption DEF Typed
    <3> QED
      BY <1>2, <3>1, FeedsDelivered, KnownIsTrue DEF OnlyItsOwn
  <2> QED
    BY <1>f, <1>t, <2>1 DEF OnlyItsOwn
<1>3. CASE Finish
  <2>1. ASSUME NEW i \in DOMAIN findings
        PROVE  /\ enriched'[i].kev => TrueCve(findings[i]) \in Listed
               /\ enriched'[i].epss => TrueCve(findings[i]) \in Scored
               /\ enriched'[i].signals # <<>> => enriched'[i].signals[1] = findings[i].name
    <3>1. /\ enriched'[i].kev = enriched[i].kev /\ enriched'[i].epss = enriched[i].epss
          /\ Signalled(findings[i].name) => enriched'[i].signals =
                <<findings[i].name, AskedVersion(findings[i].name)>>
          /\ ~Signalled(findings[i].name) => enriched'[i].signals = enriched[i].signals
      BY <1>3, RegistryDelivered
    <3> QED
      BY <3>1 DEF OnlyItsOwn
  <2> QED
    BY <1>f, <1>t, <2>1 DEF OnlyItsOwn
<1>4. enriched' = enriched \/ StartRegistry \/ Finish
  BY DEF Next, Work, vars, SkipAll, StartGhsa, Acquire, LookedUp, StartFeeds, Kev,
         EpssBatch, EpssBatchFails, Probed, EnrichAgain
<1> QED
  BY <1>1, <1>2, <1>3, <1>4

-----------------------------------------------------------------------------
(* The theorems.                                                            *)

\* The invariant the others follow from: the pools keep the worst answer, no CVE
\* is lost by the feeds, the reports match what the findings received, and what
\* they received is their own.
THEOREM Invariant == Spec => [](Typed /\ Pools /\ Feeds /\ Reported /\ OnlyItsOwn)
<1> DEFINE Inv == Typed /\ Pools /\ Feeds /\ Reported /\ OnlyItsOwn
<1>1. Init => Inv
  BY InitHolds
<1>2. Inv /\ [Next]_vars => Inv'
  BY TypedStep, PoolsStep, FeedsStep, ReportedStep, OwnStep
<1>3. Spec => []Inv
  BY <1>1, <1>2, PTL DEF Spec
<1> QED
  BY <1>3

\* A finding receives only what is published about itself, even when the run
\* before failed (enrichment.go:787-800).
THEOREM ReceivesOnlyItsOwn == Spec => []OnlyItsOwn
BY Invariant, PTL

\* The report of a pooled source is the worst of its answers, in whatever order
\* they came (enrichment.go:979-980).
THEOREM PooledReportIsWorst == Spec => []ReportIsTheWorst
<1>1. Typed /\ Pools /\ Reported => ReportIsTheWorst
  <2> SUFFICES ASSUME Typed, Pools, Reported, pc = "done", findings # <<>>
               PROVE  /\ Lookups # {} =>
                            Told("ghsa") = {WorstOf({advisory[x] : x \in Lookups})}
                      /\ TargetNames # {} =>
                            Told("npm_registry") =
                              {WorstOf(UNION {{registry[x][1], registry[x][2]} : x \in TargetNames})}
    BY DEF ReportIsTheWorst
  <2>1. PICK g \in Statuses, n \in Statuses :
           /\ DOMAIN advisory = Lookups /\ DOMAIN registry = TargetNames
           /\ PoolReport(g, Lookups, Answers) /\ PoolReport(n, TargetNames, Probes)
           /\ Told("ghsa") = {g} /\ Told("npm_registry") = {n}
    BY DEF Reported
  <2>2. Answers \in SUBSET Statuses /\ Probes \in SUBSET Statuses
    BY AnswersType, AsksAreStatuses
  <2>3. ASSUME Lookups # {} PROVE g = WorstOf(Answers)
    <3>1. Answers # {} /\ Attains(g, Answers)
      BY <2>1, <2>3 DEF Answers, PoolReport
    <3> QED
      BY <2>2, <3>1, AttainsWorst
  <2>4. ASSUME TargetNames # {} PROVE n = WorstOf(Probes)
    <3>0. PICK x \in TargetNames : TRUE
      BY <2>4
    <3>x. {registry[x][1], registry[x][2]} \subseteq Probes
      BY <2>1, <3>0 DEF Probes
    <3>1. Probes # {} /\ Attains(n, Probes)
      BY <2>1, <2>4, <3>x DEF PoolReport
    <3> QED
      BY <2>2, <3>1, AttainsWorst
  <2>5. /\ Answers = {advisory[x] : x \in Lookups}
        /\ Probes = UNION {{registry[x][1], registry[x][2]} : x \in TargetNames}
    BY <2>1 DEF Answers, Probes
  <2> QED
    BY <2>1, <2>3, <2>4, <2>5
<1> QED
  BY <1>1, Invariant, PTL

\* Clean is told apart from unknown (netstatus/status.go:1-6): what a finding
\* lacks of what a source published about it, some source reports.
THEOREM FailuresAreReported == Spec => []NothingHidden
<1>1. Typed /\ Pools /\ Reported => NothingHidden
  <2> SUFFICES ASSUME Typed, Pools, Reported, pc = "done", findings # <<>>,
                      NEW i \in DOMAIN findings
               PROVE  LET f == findings[i]
                      IN  /\ f.id \in Lookups \cap Published /\ Quiet("ghsa") => enriched[i].adv
                          /\ TrueCve(f) \in Listed /\ Reachable(f) /\ Quiet("kev") => enriched[i].kev
                          /\ TrueCve(f) \in Scored /\ Reachable(f) /\ Quiet("epss") => enriched[i].epss
                          /\ f.npm /\ f.name \in TargetNames /\ Quiet("npm_registry")
                                => enriched[i].signals # <<>>
    BY DEF NothingHidden
  <2> DEFINE f == findings[i]
  <2>1. PICK g \in Statuses, k \in Statuses, e \in Statuses, n \in Statuses :
           /\ DOMAIN advisory = Lookups /\ DOMAIN registry = TargetNames
           /\ PoolReport(g, Lookups, Answers) /\ PoolReport(n, TargetNames, Probes)
           /\ Delivered(k, e)
           /\ Told("ghsa") = {g} /\ Told("kev") = {k} /\ Told("epss") = {e}
           /\ Told("npm_registry") = {n}
           /\ Signalled(f.name) => enriched[i].signals # <<>>
    BY DEF Reported
  <2>2. Answers \in SUBSET Asks /\ Probes \in SUBSET Asks
    BY AnswersType
  <2>3. /\ Quiet("ghsa") => g \in Calm
        /\ Quiet("kev") => k \in Calm
        /\ Quiet("epss") => e \in Calm
        /\ Quiet("npm_registry") => n \in Calm
    BY <2>1 DEF Quiet, Calm
  <2>4. ASSUME Quiet("ghsa"), f.id \in Lookups PROVE advisory[f.id] = "success"
    <3>0. Lookups # {}
      BY <2>4
    <3>1. g \in Calm /\ Attains(g, Answers) /\ advisory[f.id] \in Answers
      BY <2>1, <2>3, <2>4, <3>0 DEF PoolReport, Answers
    <3> QED
      BY <2>2, <3>1, CalmPool
  <2>5. ASSUME Quiet("ghsa"), f.id \in Lookups \cap Published PROVE Has(f.id)
    BY <2>1, <2>4, <2>5 DEF Has
  <2>6. ASSUME TrueCve(f) # NoCve, Reachable(f) PROVE cveFor(f) = TrueCve(f)
    <3>1. CASE knownCVE(f) # NoCve
      BY <3>1 DEF cveFor, TrueCve
    <3>2. CASE knownCVE(f) = NoCve
      <4>1. f.id \in Lookups /\ Quiet("ghsa") /\ f.id \in Published \cap Ghsas
        BY <2>6, <3>2 DEF Reachable, TrueCve
      <4>2. Has(f.id)
        BY <2>5, <4>1
      <4> QED
        BY <3>2, <4>1, <4>2 DEF cveFor, TrueCve
    <3> QED
      BY <3>1, <3>2
  <2>7. NoCve \notin Listed /\ NoCve \notin Scored
    BY EnrichmentAssumption
  <2>8. /\ Has(f.id) => enriched[i].adv
        /\ k \in Calm /\ cveFor(f) \in Listed => enriched[i].kev
        /\ e \in Calm /\ cveFor(f) \in Scored => enriched[i].epss
    BY <2>1 DEF Delivered
  <2>9. ASSUME f.name \in TargetNames, Quiet("npm_registry") PROVE Signalled(f.name)
    <3>0. TargetNames # {} /\ f.name \in DOMAIN registry
      BY <2>1, <2>9
    <3>p. {registry[f.name][1], registry[f.name][2]} \subseteq Probes
      BY <3>0 DEF Probes
    <3>1. /\ n \in Calm /\ Attains(n, Probes) /\ f.name \in DOMAIN registry
          /\ {registry[f.name][1], registry[f.name][2]} \subseteq Probes
      BY <2>1, <2>3, <2>9, <3>0, <3>p DEF PoolReport
    <3>2. registry[f.name][1] = "success" /\ registry[f.name][2] = "success"
      BY <2>2, <3>1, CalmPool
    <3>3. registry[f.name] \in Asks \X Asks
      BY <3>1 DEF Typed
    <3> QED
      BY <3>1, <3>2, <3>3 DEF Signalled
  <2> QED
    BY <2>1, <2>3, <2>5, <2>6, <2>7, <2>8, <2>9
<1> QED
  BY <1>1, Invariant, PTL

\* A run that ends adds one report for each source it asked, and keeps the report
\* of the package scan (enrichment.go:1036-1038).
THEOREM EarlierReportsStand == Spec => ReportsAccumulate
<1> DEFINE Accumulates ==
       pc' = "done" =>
          /\ \A k \in DOMAIN network : network[k].source = "ghsa_packages" =>
                \E j \in DOMAIN network' : network'[j] = network[k]
          /\ \A s \in DOMAIN Sources :
                Cardinality({k \in DOMAIN network' : network'[k].source = Sources[s]}) = 1
<1>1. Typed /\ Pools /\ Feeds /\ Reported /\ [Next]_vars => [Accumulates]_vars
  <2> SUFFICES ASSUME Typed, Pools, Feeds, Reported, Next, pc' = "done" PROVE Accumulates
    BY DEF vars
  <2>1. \/ SkipAll \/ Finish
    <3>1. pc # "done" \/ (queued = {} /\ flying = {} /\ kev # "asked" /\ left = <<>>)
      BY DEF Pools, Feeds
    <3> QED
      BY <3>1 DEF Next, Work, StartGhsa, Acquire, LookedUp, StartFeeds, Kev, EpssBatch,
                  EpssBatchFails, StartRegistry, Probed, EnrichAgain
  <2>2. \E g, k, e, n \in Statuses :
           network' = withEarlierReports(network, RunReports(g, k, e, n))
    <3>1. CASE SkipAll
      <4>1. "skipped" \in Statuses
        BY DEF Statuses
      <4>2. [k \in DOMAIN Sources |-> Report(Sources[k], "skipped")]
               = RunReports("skipped", "skipped", "skipped", "skipped")
        BY DEF Sources, RunReports
      <4> QED
        BY <3>1, <4>1, <4>2 DEF SkipAll
    <3>2. CASE Finish
      BY <3>2, FinishReports
    <3> QED
      BY <2>1, <3>1, <3>2
  <2> QED
    BY <2>2, RunReportsStand, Zenon DEF Typed
<1>2. Spec => [][Accumulates]_vars
  <2> HIDE DEF Accumulates
  <2> QED
    BY <1>1, Invariant, PTL DEF Spec
<1> QED
  BY <1>2, PTL DEF ReportsAccumulate
==============================================================================

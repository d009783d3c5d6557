-------------------------- MODULE RemoteScan_proofs --------------------------
(***************************************************************************)
(* Theorems about the remote scan, for every set of manifests and every    *)
(* setting of the pool: nothing is dropped, nothing outlives the call, and *)
(* the scan implements ScanReport.                                         *)
(***************************************************************************)
EXTENDS RemoteScan, FiniteSetTheorems, TLAPS

WorkerState ==
    {Idle, Exited}
    \cup {Working(at, m) : at \in {"fetching", "late", "parsing"}, m \in discovered}
    \cup {Sending(m, o) : m \in discovered, o \in Outcomes}

\* Where the scan is, and what is empty before the pool is started.
Staged ==
    /\ main = "tree" => /\ ~truncated /\ ~closed /\ feeder = "off"
                        /\ discovered = {} /\ unfed = {} /\ results = {}
                        /\ ok = {} /\ skipped = {} /\ DOMAIN worker = {}
    /\ main = "collect" => /\ discovered # {} /\ DOMAIN worker # {}
                           /\ feeder \in {"feeding", "ended"}
                           /\ truncated => OfScan("tree truncated") \in skipped
    /\ main = "done" <=> status # "none"
    /\ main = "done" => /\ feeder # "feeding"
                        /\ \A w \in DOMAIN worker : worker[w] = Exited
    /\ feeder = "ended" /\ unfed # {} => expired
    /\ \A w \in DOMAIN worker : worker[w] = Exited => feeder = "ended"
    /\ closed => \A w \in DOMAIN worker : worker[w] = Exited

\* A manifest is in one place at a time.
Apart ==
    /\ main # "done" => unfed \cap (ok \cup Named) = {}
    /\ ok \cap Named = {}
    /\ \A w \in DOMAIN worker : worker[w].jobs \cap (unfed \cup ok \cup Named) = {}
    /\ \A w, v \in DOMAIN worker : w # v => worker[w].jobs \cap worker[v].jobs = {}
    /\ \A r \in results : /\ r.manifest \notin unfed \cup ok \cup Named
                          /\ \A w \in DOMAIN worker : r.manifest \notin worker[w].jobs
    /\ \A r, s \in results : r.manifest = s.manifest => r = s
    /\ \A n1, n2 \in skipped : n1.about = n2.about /\ n1.about # {} => n1 = n2

\* While results are collected every manifest is somewhere.
Covered ==
    main = "collect" =>
        \A m \in discovered : \/ m \in unfed \cup ok \cup Named
                              \/ \E w \in DOMAIN worker : m \in worker[w].jobs
                              \/ \E r \in results : r.manifest = m

\* The deadline is blamed only once it passed, and only in the report.
Blamed ==
    \A n \in skipped : n.why \in {"never processed", "deadline exceeded"} =>
                          main = "done" /\ expired

Inv == TypeOK /\ Staged /\ Apart /\ Covered /\ Blamed

-----------------------------------------------------------------------------
\* What a worker is doing, from the name of its state.
LEMMA WorkerCases ==
  ASSUME TypeOK, NEW w \in DOMAIN worker
  PROVE  /\ worker[w] \in WorkerState
         /\ worker[w].at = "idle" => worker[w] = Idle
         /\ worker[w].at \in {"fetching", "late", "parsing"} =>
               \E m \in discovered : worker[w] = Working(worker[w].at, m)
         /\ worker[w].at = "sending" =>
               \E m \in discovered, o \in Outcomes : worker[w] = Sending(m, o)
<1>1. worker[w] \in WorkerState
  BY DEF TypeOK, WorkerState
<1> QED
  BY <1>1 DEF WorkerState, Idle, Exited, Working, Sending

\* The states of the workers keep their type when one of them moves on.
LEMMA WorkerMoves ==
  ASSUME TypeOK, NEW w \in DOMAIN worker, NEW x \in WorkerState,
         worker' = [worker EXCEPT ![w] = x]
  PROVE  /\ DOMAIN worker' = DOMAIN worker
         /\ worker'[w] = x
         /\ \A v \in DOMAIN worker : v # w => worker'[v] = worker[v]
         /\ worker' \in [DOMAIN worker' -> WorkerState]
<1>1. worker \in [DOMAIN worker -> WorkerState]
  BY DEF TypeOK, WorkerState
<1> QED
  BY <1>1

\* The types hold before the tree is read.
LEMMA TypeInit == Init => TypeOK
<1> SUFFICES ASSUME Init PROVE TypeOK
  OBVIOUS
<1>1. DOMAIN worker = {}
  BY DEF Init
<1>2. worker \in [DOMAIN worker -> WorkerState]
  BY DEF Init
<1>3. Named = {} /\ skipped = {}
  BY DEF Init, Named
<1>4. /\ unfed \in SUBSET discovered /\ discovered \in SUBSET Manifests
      /\ results \in SUBSET {Result(m, o) : m \in discovered, o \in Outcomes}
      /\ ok \in SUBSET discovered
      /\ skipped \in SUBSET [why : Reason, about : {{}} \cup {{m} : m \in discovered}]
  BY DEF Init
<1>5. /\ expired \in BOOLEAN /\ truncated \in BOOLEAN /\ closed \in BOOLEAN
      /\ limit \in Limits
      /\ main \in {"tree", "collect", "done"} /\ feeder \in {"off", "feeding", "ended"}
      /\ status \in {"none", "complete", "partial", "failed"}
  BY DEF Init
<1> QED
  BY <1>2, <1>4, <1>5 DEF TypeOK, WorkerState

\* A step of one worker that neither fetches a manifest nor sends a result.
LEMMA TypeBecomes ==
  ASSUME TypeOK, NEW w \in DOMAIN worker, NEW x \in WorkerState, Becomes(w, x),
         results' = results
  PROVE  TypeOK'
<1>1. worker' \in [DOMAIN worker' -> WorkerState]
  BY WorkerMoves DEF Becomes
<1>2. WorkerState' = WorkerState
  BY DEF Becomes, WorkerState
<1>3. worker' \in [DOMAIN worker' -> WorkerState']
  BY <1>1, <1>2
<1> QED
  BY <1>3 DEF Becomes, TypeOK, WorkerState

\* What the steps of the workers make of a worker.
LEMMA StepStates ==
  ASSUME TypeOK, NEW w \in DOMAIN worker
  PROVE  /\ Fetch(w) => \E x \in WorkerState :
                           Becomes(w, x) /\ results' = results /\ x.jobs = worker[w].jobs
                                         /\ x # Exited
         /\ FetchFails(w) => \E x \in WorkerState :
                           Becomes(w, x) /\ results' = results /\ x.jobs = worker[w].jobs
                                         /\ x # Exited
         /\ Parse(w) => \E x \in WorkerState :
                           Becomes(w, x) /\ results' = results /\ x.jobs = worker[w].jobs
                                         /\ x # Exited
         /\ Exit(w) => /\ Becomes(w, Exited) /\ results' = results
                       /\ Exited.jobs = worker[w].jobs /\ Exited \in WorkerState
<1>1. ASSUME worker[w].at \in {"fetching", "late", "parsing"}
      PROVE  \E m \in discovered : worker[w].jobs = {m}
  BY <1>1, WorkerCases DEF Working
<1>2. \A m \in discovered : /\ Working("parsing", m) \in WorkerState
                            /\ Working("parsing", m).jobs = {m}
                            /\ Working("parsing", m).at # Exited.at
  <2> SUFFICES ASSUME NEW m \in discovered
               PROVE  /\ Working("parsing", m) \in WorkerState
                      /\ Working("parsing", m).jobs = {m}
                      /\ Working("parsing", m).at # Exited.at
    OBVIOUS
  <2>1. Working("parsing", m) \in WorkerState
    BY DEF WorkerState
  <2>2. Working("parsing", m).jobs = {m} /\ Working("parsing", m).at = "parsing"
        /\ Exited.at = "exited"
    BY DEF Working, Exited
  <2> QED
    BY <2>1, <2>2
<1>3. \A m \in discovered, o \in Outcomes :
         /\ Sending(m, o) \in WorkerState
         /\ Sending(m, o).jobs = {m}
         /\ Sending(m, o).at # Exited.at
  <2> SUFFICES ASSUME NEW m \in discovered, NEW o \in Outcomes
               PROVE  /\ Sending(m, o) \in WorkerState
                      /\ Sending(m, o).jobs = {m}
                      /\ Sending(m, o).at # Exited.at
    OBVIOUS
  <2>1. Sending(m, o) \in WorkerState
    BY DEF WorkerState
  <2>2. Sending(m, o).jobs = {m} /\ Sending(m, o).at = "sending" /\ Exited.at = "exited"
    BY DEF Sending, Exited
  <2> QED
    BY <2>1, <2>2
<1>4. {"ok", "parse failed", "fetch failed"} = Outcomes
  BY DEF Outcomes
<1>5. ASSUME Fetch(w)
      PROVE  \E x \in WorkerState :
                Becomes(w, x) /\ results' = results /\ x.jobs = worker[w].jobs /\ x # Exited
  BY <1>5, <1>1, <1>2 DEF Fetch
<1>6. ASSUME FetchFails(w)
      PROVE  \E x \in WorkerState :
                Becomes(w, x) /\ results' = results /\ x.jobs = worker[w].jobs /\ x # Exited
  BY <1>6, <1>1, <1>3, <1>4 DEF FetchFails
<1>7. ASSUME Parse(w)
      PROVE  \E x \in WorkerState :
                Becomes(w, x) /\ results' = results /\ x.jobs = worker[w].jobs /\ x # Exited
  BY <1>7, <1>1, <1>3, <1>4 DEF Parse
<1>8. ASSUME Exit(w)
      PROVE  /\ Becomes(w, Exited) /\ results' = results
             /\ Exited.jobs = worker[w].jobs /\ Exited \in WorkerState
  BY <1>8, WorkerCases DEF Exit, Idle, Exited, WorkerState
<1> QED
  BY <1>5, <1>6, <1>7, <1>8

\* A feed gives an idle worker one manifest that was not fed before.
LEMMA FeedState ==
  ASSUME TypeOK, NEW w \in DOMAIN worker, Feed(w)
  PROVE  \E m \in unfed, x \in WorkerState :
            /\ unfed' = unfed \ {m}
            /\ worker' = [worker EXCEPT ![w] = x]
            /\ x.jobs = {m} /\ x # Exited /\ worker[w] = Idle
<1>1. PICK m \in unfed : /\ unfed' = unfed \ {m}
                         /\ worker' = [worker EXCEPT ![w] =
                               Working(IF expired THEN "late" ELSE "fetching", m)]
  BY DEF Feed
<1> DEFINE at == IF expired THEN "late" ELSE "fetching"
<1>2. at \in {"fetching", "late"} /\ m \in discovered
  BY DEF TypeOK
<1>3. Working(at, m) \in WorkerState
  BY <1>2 DEF WorkerState
<1>4. Working(at, m).jobs = {m} /\ Working(at, m).at = at /\ Exited.at = "exited"
  BY DEF Working, Exited
<1>5. worker[w] = Idle
  BY WorkerCases DEF Feed
<1> QED
  BY <1>1, <1>2, <1>3, <1>4, <1>5

\* A sending worker holds one manifest, and its result is about that manifest.
LEMMA SendState ==
  ASSUME TypeOK, NEW w \in DOMAIN worker, Send(w)
  PROVE  \E m \in discovered, o \in Outcomes :
            /\ worker[w].jobs = {m} /\ results' = results \cup {Result(m, o)}
            /\ Becomes(w, Idle) /\ Idle \in WorkerState
            /\ Idle.jobs = {} /\ Idle # Exited /\ worker[w] # Exited
<1>1. PICK m \in discovered, o \in Outcomes : worker[w] = Sending(m, o)
  BY WorkerCases DEF Send
<1>2. Sending(m, o).jobs = {m} /\ Sending(m, o).sends = {Result(m, o)}
      /\ Sending(m, o).at = "sending"
  BY DEF Sending
<1>3. Idle \in WorkerState /\ Idle.jobs = {} /\ Idle.at = "idle" /\ Exited.at = "exited"
  BY DEF WorkerState, Idle, Exited
<1> QED
  BY <1>1, <1>2, <1>3 DEF Send

\* What a result carries.
LEMMA ResultType == \A m, o : Result(m, o).manifest = m /\ Result(m, o).outcome = o
BY DEF Result

\* What a note names and says.
LEMMA NoteType == /\ \A m, why : About(m, why).about = {m} /\ About(m, why).why = why
                  /\ \A why : OfScan(why).about = {} /\ OfScan(why).why = why
BY DEF About, OfScan

\* Adding a note about m names m and nothing else.
LEMMA NamedAfter ==
  ASSUME NEW m, NEW why, skipped' = skipped \cup {About(m, why)}
  PROVE  Named' = Named \cup {m}
BY NoteType DEF Named

\* Every step keeps the types.
LEMMA TypeStep == Inv /\ [Next]_vars => TypeOK'
<1> SUFFICES ASSUME Inv, [Next]_vars PROVE TypeOK'
  OBVIOUS
<1>t. TypeOK
  BY DEF Inv
<1>w. worker \in [DOMAIN worker -> WorkerState]
  BY <1>t DEF TypeOK, WorkerState
<1>u. ASSUME worker' = worker, discovered' = discovered,
             unfed' = unfed, results' \subseteq results, ok' \subseteq discovered,
             skipped' \in SUBSET [why : Reason, about : {{}} \cup {{m} : m \in discovered}],
             limit' = limit, expired' \in BOOLEAN, truncated' \in BOOLEAN,
             closed' \in BOOLEAN, main' \in {"tree", "collect", "done"},
             feeder' \in {"off", "feeding", "ended"},
             status' \in {"none", "complete", "partial", "failed"}
      PROVE  TypeOK'
  <2>1. WorkerState' = WorkerState
    BY <1>u DEF WorkerState
  <2>2. worker' \in [DOMAIN worker' -> WorkerState']
    BY <1>u, <1>w, <2>1
  <2>3. results' \in SUBSET {Result(m, o) : m \in discovered', o \in Outcomes}
    BY <1>t, <1>u DEF TypeOK
  <2>4. skipped' \in SUBSET [why : Reason, about : {{}} \cup {{m} : m \in discovered'}]
    BY <1>u
  <2> QED
    BY <1>t, <1>u, <2>2, <2>3, <2>4 DEF TypeOK, WorkerState
<1>n. \A cut \in BOOLEAN : TreeNotes(cut) \in
         SUBSET [why : Reason, about : {{}} \cup {{m} : m \in discovered'}]
  BY DEF TreeNotes, OfScan, Reason
<1>f. \A notes, a, b : finalStatus(notes, a, b) \in {"none", "complete", "partial", "failed"}
  BY DEF finalStatus
<1>1. CASE Deadline
  BY <1>1, <1>u, <1>t DEF Deadline, TypeOK
<1>2. CASE TreeFails
  BY <1>2, <1>u, <1>t DEF TreeFails, TypeOK
<1>3. CASE TreeHasNone
  <2>1. discovered' = discovered
    BY <1>3 DEF TreeHasNone
  <2>2. PICK cut \in BOOLEAN : /\ truncated' = cut /\ skipped' = TreeNotes(cut)
                               /\ status' = finalStatus(TreeNotes(cut), {}, {})
    BY <1>3 DEF TreeHasNone
  <2>3. skipped' \in SUBSET [why : Reason, about : {{}} \cup {{m} : m \in discovered}]
    BY <1>n, <2>1, <2>2
  <2> QED
    BY <1>3, <1>u, <1>t, <1>f, <2>2, <2>3 DEF TreeHasNone, TypeOK
<1>4. CASE StartPool
  <2>1. PICK cut \in BOOLEAN, found \in (SUBSET Manifests) \ {{}} :
           /\ truncated' = cut /\ skipped' = TreeNotes(cut)
           /\ discovered' = found /\ unfed' = found
           /\ worker' = [w \in 1 .. WorkerCount(found) |-> Idle]
    BY <1>4 DEF StartPool
  <2>2. results = {} /\ ok = {}
    BY <1>4 DEF StartPool, Inv, Staged
  <2>3. worker' \in [DOMAIN worker' -> WorkerState']
    BY <2>1 DEF WorkerState
  <2>4. results' = {} /\ ok' = {} /\ unfed' \in SUBSET discovered'
    BY <1>4, <2>1, <2>2 DEF StartPool
  <2>5. /\ limit' \in Limits /\ expired' \in BOOLEAN /\ truncated' \in BOOLEAN
        /\ closed' \in BOOLEAN /\ main' = "collect" /\ feeder' = "feeding"
        /\ status' \in {"none", "complete", "partial", "failed"}
        /\ discovered' \in SUBSET Manifests
    BY <1>4, <1>t, <2>1 DEF StartPool, TypeOK
  <2>6. skipped' \in SUBSET [why : Reason, about : {{}} \cup {{m} : m \in discovered'}]
    BY <2>1, <1>n
  <2> QED
    BY <2>3, <2>4, <2>5, <2>6 DEF TypeOK, WorkerState
<1>5. CASE EndFeeding
  BY <1>5, <1>u, <1>t DEF EndFeeding, TypeOK
<1>6. ASSUME NEW w \in DOMAIN worker, Feed(w) PROVE TypeOK'
  <2>1. PICK m \in unfed, x \in WorkerState : /\ unfed' = unfed \ {m}
                                              /\ worker' = [worker EXCEPT ![w] = x]
    BY <1>6, <1>t, FeedState
  <2>2. WorkerState' = WorkerState
    BY <1>6 DEF Feed, WorkerState
  <2>3. worker' \in [DOMAIN worker' -> WorkerState']
    BY <1>t, <2>1, <2>2, WorkerMoves
  <2> QED
    BY <1>6, <1>t, <2>1, <2>3 DEF Feed, TypeOK, WorkerState
<1>7. ASSUME NEW w \in DOMAIN worker, Fetch(w) \/ FetchFails(w) \/ Parse(w) \/ Exit(w)
      PROVE  TypeOK'
  BY <1>7, <1>t, StepStates, TypeBecomes
<1>8. ASSUME NEW w \in DOMAIN worker, Send(w) PROVE TypeOK'
  <2>1. PICK m \in discovered, o \in Outcomes :
           results' = results \cup {Result(m, o)} /\ Becomes(w, Idle) /\ Idle \in WorkerState
    BY <1>8, <1>t, SendState
  <2>2. worker' \in [DOMAIN worker' -> WorkerState]
    BY <1>t, <2>1, WorkerMoves DEF Becomes
  <2>3. WorkerState' = WorkerState
    BY <2>1 DEF Becomes, WorkerState
  <2>4. worker' \in [DOMAIN worker' -> WorkerState']
    BY <2>2, <2>3
  <2>5. results' \in SUBSET {Result(k, p) : k \in discovered', p \in Outcomes}
    BY <1>t, <2>1 DEF Becomes, TypeOK
  <2> QED
    BY <1>t, <2>1, <2>4, <2>5 DEF Becomes, TypeOK, WorkerState
<1>9. CASE CloseResults
  BY <1>9, <1>u, <1>t DEF CloseResults, TypeOK
<1>10. CASE Collect
  <2>1. PICK r \in results :
           /\ results' = results \ {r}
           /\ IF r.outcome = "ok"
              THEN ok' = ok \cup {r.manifest} /\ UNCHANGED skipped
              ELSE skipped' = skipped \cup {About(r.manifest, r.outcome)} /\ UNCHANGED ok
    BY <1>10 DEF Collect
  <2>2. r.manifest \in discovered /\ r.outcome \in Outcomes
    BY <1>t, ResultType DEF TypeOK
  <2>3. r.outcome # "ok" => About(r.manifest, r.outcome) \in
           [why : Reason, about : {{}} \cup {{m} : m \in discovered}]
    BY <2>2 DEF About, Outcomes, Reason
  <2>4. ok' \subseteq discovered
    BY <1>t, <2>1, <2>2 DEF TypeOK
  <2>5. skipped' \in SUBSET [why : Reason, about : {{}} \cup {{m} : m \in discovered}]
    BY <1>t, <2>1, <2>3 DEF TypeOK
  <2> QED
    BY <1>10, <1>u, <1>t, <2>1, <2>4, <2>5 DEF Collect, TypeOK
<1>11. CASE Finish
  <2> DEFINE Notes == [why : Reason, about : {{}} \cup {{m} : m \in discovered}]
  <2>1. DeadlineNotes \in SUBSET Notes
    BY DEF DeadlineNotes, OfScan, Reason
  <2>2. \A m \in discovered : About(m, "never processed") \in Notes
    BY DEF About, Reason
  <2>3. skipped \in SUBSET Notes
    BY <1>t DEF TypeOK
  <2>4. FinalNotes \in SUBSET Notes
    <3> HIDE DEF Notes
    <3>1. Unprocessed \subseteq discovered
      BY DEF Unprocessed
    <3> QED
      BY <2>1, <2>2, <2>3, <3>1 DEF FinalNotes
  <2> QED
    BY <1>11, <1>u, <1>t, <1>f, <2>4 DEF Finish, TypeOK
<1>12. CASE UNCHANGED vars
  BY <1>12, <1>u, <1>t DEF vars, TypeOK
<1> QED
  BY <1>1, <1>2, <1>3, <1>4, <1>5, <1>6, <1>7, <1>8, <1>9, <1>10, <1>11, <1>12 DEF Next, Step

-----------------------------------------------------------------------------
\* The other parts of the invariant hold before the tree is read.
LEMMA RestInit == Init => Staged /\ Apart /\ Covered /\ Blamed
<1> SUFFICES ASSUME Init PROVE Staged /\ Apart /\ Covered /\ Blamed
  OBVIOUS
<1>1. DOMAIN worker = {} /\ Named = {}
  BY DEF Init, Named
<1>2. Staged
  BY <1>1 DEF Init, Staged
<1>3. Apart
  BY <1>1 DEF Init, Apart
<1> QED
  BY <1>2, <1>3 DEF Init, Covered, Blamed

\* Steps after which every manifest is where it was.
LEMMA Unmoved ==
  ASSUME Inv, DOMAIN worker' = DOMAIN worker,
         \A w \in DOMAIN worker : worker'[w].jobs = worker[w].jobs,
         discovered' = discovered, unfed' = unfed, results' = results,
         ok' = ok, skipped' = skipped, main' = "collect" => main = "collect",
         main' = main \/ main = "tree", expired => expired'
  PROVE  Apart' /\ Covered' /\ Blamed'
<1>1. Named' = Named
  BY DEF Named
<1>2. Apart'
  BY <1>1 DEF Inv, Apart
<1>3. Covered'
  BY <1>1 DEF Inv, Covered
<1>4. Blamed'
  BY DEF Inv, Blamed, Staged
<1> QED
  BY <1>2, <1>3, <1>4

\* The pool has at least one worker (scanner.go:186-192).
LEMMA PoolNotEmpty ==
  ASSUME limit \in Limits, NEW found \in (SUBSET Manifests) \ {{}}
  PROVE  1 \in 1 .. WorkerCount(found)
<1>1. IsFiniteSet(found)
  BY ScanAssumption, FS_Subset
<1>2. Cardinality(found) \in Nat /\ Cardinality(found) # 0
  <2>1. found # {}
    OBVIOUS
  <2> QED
    BY <1>1, <2>1, FS_CardinalityType, FS_EmptySet
<1>3. limit \in Int /\ DefaultLimit \in Nat \ {0}
  BY ScanAssumption
<1>4. WorkerCount(found) \in Nat \ {0}
  BY <1>2, <1>3 DEF WorkerCount
<1> QED
  BY <1>4

\* The pool is started on manifests that are all unfed.
LEMMA StartStep == Inv /\ StartPool => Staged' /\ Apart' /\ Covered' /\ Blamed'
<1> SUFFICES ASSUME Inv, StartPool PROVE Staged' /\ Apart' /\ Covered' /\ Blamed'
  OBVIOUS
<1>1. PICK cut \in BOOLEAN, found \in (SUBSET Manifests) \ {{}} :
         /\ truncated' = cut /\ skipped' = TreeNotes(cut)
         /\ discovered' = found /\ unfed' = found
         /\ worker' = [w \in 1 .. WorkerCount(found) |-> Idle]
  BY DEF StartPool
<1>2. limit \in Limits /\ results' = {} /\ ok' = {} /\ closed' = FALSE /\ status' = "none"
      /\ main' = "collect" /\ feeder' = "feeding"
  BY DEF StartPool, Inv, TypeOK, Staged
<1>3. DOMAIN worker' # {} /\ \A w \in DOMAIN worker' : worker'[w] = Idle
  BY <1>1, <1>2, PoolNotEmpty
<1>4. Named' = {} /\ skipped' \subseteq {OfScan("tree truncated")}
  <2>1. skipped' \subseteq {OfScan("tree truncated")}
    BY <1>1 DEF TreeNotes
  <2>2. \A n \in skipped' : n.about = {}
    BY <2>1, NoteType
  <2> QED
    BY <2>1, <2>2 DEF Named
<1>5. Idle # Exited /\ Idle.jobs = {}
  BY DEF Idle, Exited
<1>6. Staged'
  <2>1. truncated' => OfScan("tree truncated") \in skipped'
    BY <1>1 DEF TreeNotes
  <2>2. discovered' # {}
    BY <1>1
  <2> QED
    BY <1>2, <1>3, <1>5, <2>1, <2>2 DEF Staged
<1>7. \A n \in skipped' : n.about = {} /\ n.why = "tree truncated"
  BY <1>4, NoteType
<1>8. Apart'
  BY <1>1, <1>2, <1>3, <1>4, <1>5, <1>7 DEF Apart
<1>9. Covered'
  BY <1>1 DEF Covered
<1>10. Blamed'
  BY <1>7 DEF Blamed
<1> QED
  BY <1>6, <1>8, <1>9, <1>10

\* An idle worker takes an unfed manifest.
LEMMA FeedStep ==
  ASSUME Inv, NEW w \in DOMAIN worker, Feed(w)
  PROVE  Staged' /\ Apart' /\ Covered' /\ Blamed'
<1>t. TypeOK
  BY DEF Inv
<1>1. PICK m \in unfed, x \in WorkerState :
         /\ unfed' = unfed \ {m} /\ worker' = [worker EXCEPT ![w] = x]
         /\ x.jobs = {m} /\ x # Exited /\ worker[w] = Idle
  BY <1>t, FeedState
<1>2. /\ DOMAIN worker' = DOMAIN worker /\ worker'[w] = x
      /\ \A v \in DOMAIN worker : v # w => worker'[v] = worker[v]
  BY <1>t, <1>1, WorkerMoves
<1>3. /\ limit' = limit /\ expired' = expired /\ main' = main /\ truncated' = truncated
      /\ discovered' = discovered /\ feeder' = feeder /\ results' = results
      /\ closed' = closed /\ ok' = ok /\ skipped' = skipped /\ status' = status
      /\ Named' = Named /\ feeder = "feeding"
  BY DEF Feed, Named
<1>4. Idle # Exited /\ Idle.jobs = {}
  BY DEF Idle, Exited
<1>5. Staged'
  BY <1>1, <1>2, <1>3, <1>4 DEF Inv, Staged
<1>6. Apart'
  <2>0. main # "done"
    BY <1>3 DEF Inv, Staged
  <2>1. unfed' \cap (ok' \cup Named') = {} /\ ok' \cap Named' = {}
    BY <1>1, <1>3, <2>0 DEF Inv, Apart
  <2>2. \A v \in DOMAIN worker' : worker'[v].jobs \cap (unfed' \cup ok' \cup Named') = {}
    BY <1>1, <1>2, <1>3, <2>0 DEF Inv, Apart
  <2>3. \A u, v \in DOMAIN worker' : u # v => worker'[u].jobs \cap worker'[v].jobs = {}
    BY <1>1, <1>2, <1>3 DEF Inv, Apart
  <2>4. \A r \in results' : /\ r.manifest \notin unfed' \cup ok' \cup Named'
                            /\ \A v \in DOMAIN worker' : r.manifest \notin worker'[v].jobs
    BY <1>1, <1>2, <1>3 DEF Inv, Apart
  <2> QED
    BY <1>3, <2>1, <2>2, <2>3, <2>4 DEF Inv, Apart
<1>7. Covered'
  BY <1>1, <1>2, <1>3, <1>4 DEF Inv, Covered
<1>8. Blamed'
  BY <1>3 DEF Inv, Blamed
<1> QED
  BY <1>5, <1>6, <1>7, <1>8

\* A worker's result goes into the channel.
LEMMA SendStep ==
  ASSUME Inv, NEW w \in DOMAIN worker, Send(w)
  PROVE  Staged' /\ Apart' /\ Covered' /\ Blamed'
<1>t. TypeOK
  BY DEF Inv
<1>1. PICK m \in discovered, o \in Outcomes :
         /\ worker[w].jobs = {m} /\ results' = results \cup {Result(m, o)}
         /\ Becomes(w, Idle) /\ Idle \in WorkerState
         /\ Idle.jobs = {} /\ Idle # Exited /\ worker[w] # Exited
  BY <1>t, SendState
<1>2. /\ DOMAIN worker' = DOMAIN worker /\ worker'[w] = Idle
      /\ \A v \in DOMAIN worker : v # w => worker'[v] = worker[v]
  BY <1>t, <1>1, WorkerMoves DEF Becomes
<1>3. /\ limit' = limit /\ expired' = expired /\ main' = main /\ truncated' = truncated
      /\ discovered' = discovered /\ feeder' = feeder /\ unfed' = unfed
      /\ closed' = closed /\ ok' = ok /\ skipped' = skipped /\ status' = status
      /\ Named' = Named
  BY <1>1 DEF Becomes, Named
<1>4. Result(m, o).manifest = m
  BY ResultType
<1>5. main = "tree" => FALSE
  BY DEF Inv, Staged
<1>6. Staged'
  BY <1>1, <1>2, <1>3, <1>5 DEF Inv, Staged
<1>7. Apart'
  <2>1. (main' # "done" => unfed' \cap (ok' \cup Named') = {}) /\ ok' \cap Named' = {}
    BY <1>3 DEF Inv, Apart
  <2>2. \A v \in DOMAIN worker' : worker'[v].jobs \cap (unfed' \cup ok' \cup Named') = {}
    BY <1>1, <1>2, <1>3 DEF Inv, Apart
  <2>3. \A u, v \in DOMAIN worker' : u # v => worker'[u].jobs \cap worker'[v].jobs = {}
    BY <1>1, <1>2 DEF Inv, Apart
  <2>4. m \notin unfed \cup ok \cup Named
        /\ \A v \in DOMAIN worker' : m \notin worker'[v].jobs
    BY <1>1, <1>2 DEF Inv, Apart
  <2>5. \A r \in results : r.manifest # m
    BY <1>1 DEF Inv, Apart
  <2>6. \A r \in results' : /\ r.manifest \notin unfed' \cup ok' \cup Named'
                            /\ \A v \in DOMAIN worker' : r.manifest \notin worker'[v].jobs
    BY <1>1, <1>2, <1>3, <1>4, <2>4 DEF Inv, Apart
  <2>7. \A r, s \in results' : r.manifest = s.manifest => r = s
    BY <1>1, <1>4, <2>5 DEF Inv, Apart
  <2> QED
    BY <1>3, <2>1, <2>2, <2>3, <2>6, <2>7 DEF Inv, Apart
<1>8. Covered'
  BY <1>1, <1>2, <1>3, <1>4 DEF Inv, Covered
<1>9. Blamed'
  BY <1>3 DEF Inv, Blamed
<1> QED
  BY <1>6, <1>7, <1>8, <1>9

\* A result is filed under what was scanned or what was skipped.
LEMMA CollectStep ==
  ASSUME Inv, Collect
  PROVE  Staged' /\ Apart' /\ Covered' /\ Blamed'
<1>1. PICK r \in results :
         /\ results' = results \ {r}
         /\ IF r.outcome = "ok"
            THEN ok' = ok \cup {r.manifest} /\ UNCHANGED skipped
            ELSE skipped' = skipped \cup {About(r.manifest, r.outcome)} /\ UNCHANGED ok
  BY DEF Collect
<1>2. /\ limit' = limit /\ expired' = expired /\ main' = main /\ truncated' = truncated
      /\ discovered' = discovered /\ feeder' = feeder /\ unfed' = unfed
      /\ closed' = closed /\ worker' = worker /\ status' = status /\ main = "collect"
  BY DEF Collect
<1>3. r.manifest \in discovered /\ r.outcome \in Outcomes
  BY ResultType DEF Inv, TypeOK
<1>4. \/ ok' = ok \cup {r.manifest} /\ skipped' = skipped /\ Named' = Named
      \/ /\ skipped' = skipped \cup {About(r.manifest, r.outcome)}
         /\ ok' = ok /\ Named' = Named \cup {r.manifest}
  BY <1>1, NamedAfter DEF Named
<1>5. /\ ok' \cup Named' = ok \cup Named \cup {r.manifest}
      /\ skipped \subseteq skipped'
      /\ skipped' \subseteq skipped \cup {About(r.manifest, r.outcome)}
  BY <1>4
<1>6. /\ r.manifest \notin unfed \cup ok \cup Named
      /\ \A w \in DOMAIN worker : r.manifest \notin worker[w].jobs
      /\ \A s \in results \ {r} : s.manifest # r.manifest
  BY DEF Inv, Apart
<1>7. Staged'
  BY <1>1, <1>2, <1>5 DEF Inv, Staged
<1>8. Apart'
  <2>1. ok' \cap Named' = {}
    BY <1>4, <1>6 DEF Inv, Apart
  <2>2. unfed' \cap (ok' \cup Named') = {}
    BY <1>2, <1>5, <1>6 DEF Inv, Apart
  <2>3. \A w \in DOMAIN worker' : worker'[w].jobs \cap (unfed' \cup ok' \cup Named') = {}
    BY <1>2, <1>5, <1>6 DEF Inv, Apart
  <2>4. \A w, v \in DOMAIN worker' : w # v => worker'[w].jobs \cap worker'[v].jobs = {}
    BY <1>2 DEF Inv, Apart
  <2>5. \A s \in results' : /\ s.manifest \notin unfed' \cup ok' \cup Named'
                            /\ \A w \in DOMAIN worker' : s.manifest \notin worker'[w].jobs
    BY <1>1, <1>2, <1>5, <1>6 DEF Inv, Apart
  <2>6. \A s, u \in results' : s.manifest = u.manifest => s = u
    BY <1>1 DEF Inv, Apart
  <2>7. \A n \in skipped : n.about # {r.manifest}
    BY <1>6 DEF Named
  <2>8. \A n1, n2 \in skipped' : n1.about = n2.about /\ n1.about # {} => n1 = n2
    BY <1>5, <2>7, NoteType DEF Inv, Apart
  <2> QED
    BY <2>1, <2>2, <2>3, <2>4, <2>5, <2>6, <2>8 DEF Apart
<1>9. Covered'
  BY <1>1, <1>2, <1>5 DEF Inv, Covered
<1>10. Blamed'
  <2>1. r.outcome \notin {"never processed", "deadline exceeded"}
    BY <1>3 DEF Outcomes
  <2>2. About(r.manifest, r.outcome).why = r.outcome
    BY NoteType
  <2>3. \A n \in skipped' : n.why \in {"never processed", "deadline exceeded"} => n \in skipped
    BY <1>5, <2>1, <2>2
  <2> QED
    BY <1>2, <2>3 DEF Inv, Blamed
<1> QED
  BY <1>7, <1>8, <1>9, <1>10

-----------------------------------------------------------------------------
\* When the results are closed nothing is left but what was never fed.
LEMMA NothingLeft ==
  ASSUME Inv, Finish
  PROVE  /\ Unprocessed \subseteq unfed
         /\ Unprocessed # {} => expired
         /\ feeder = "ended"
         /\ \A w \in DOMAIN worker : worker[w] = Exited
<1>1. main = "collect" /\ closed /\ results = {}
  BY DEF Finish
<1>2. \A w \in DOMAIN worker : worker[w] = Exited
  BY <1>1 DEF Inv, Staged
<1>3. feeder = "ended"
  BY <1>1, <1>2 DEF Inv, Staged
<1>4. \A w \in DOMAIN worker : worker[w].jobs = {}
  BY <1>2 DEF Exited
<1>5. Unprocessed \subseteq unfed
  BY <1>1, <1>4 DEF Inv, Covered, Unprocessed
<1>6. Unprocessed # {} => expired
  BY <1>3, <1>5 DEF Inv, Staged
<1> QED
  BY <1>2, <1>3, <1>5, <1>6

\* The final sweep names every manifest nobody picked up.
LEMMA NamedAtEnd ==
  ASSUME Finish
  PROVE  Named' = Named \cup Unprocessed
<1>1. skipped' = FinalNotes
  BY DEF Finish
<1>2. \A n \in DeadlineNotes : n.about = {}
  BY NoteType DEF DeadlineNotes
<1>3. \A x : x \in Named' <=> x \in Named \cup Unprocessed
  <2> SUFFICES ASSUME NEW x PROVE x \in Named' <=> x \in Named \cup Unprocessed
    OBVIOUS
  <2>1. ASSUME x \in Named' PROVE x \in Named \cup Unprocessed
    <3>1. PICK n \in FinalNotes : x \in n.about
      BY <1>1, <2>1 DEF Named
    <3>2. n \in skipped \/ n \in DeadlineNotes
          \/ \E m \in Unprocessed : n = About(m, "never processed")
      BY <3>1 DEF FinalNotes
    <3>3. \A m : About(m, "never processed").about = {m}
      BY NoteType
    <3> QED
      BY <1>2, <3>1, <3>2, <3>3 DEF Named
  <2>2. ASSUME x \in Named \cup Unprocessed PROVE x \in Named'
    <3>1. CASE x \in Named
      BY <1>1, <3>1 DEF Named, FinalNotes
    <3>2. CASE x \in Unprocessed
      <4>1. About(x, "never processed") \in skipped'
        BY <1>1, <3>2 DEF FinalNotes
      <4>2. x \in About(x, "never processed").about
        BY NoteType
      <4> QED
        BY <4>1, <4>2 DEF Named
    <3> QED
      BY <2>2, <3>1, <3>2
  <2> QED
    BY <2>1, <2>2
<1> QED
  BY <1>3

\* The final report gives one reason for each manifest it names.
LEMMA ReasonsAtEnd ==
  ASSUME Inv, Finish
  PROVE  /\ \A n1, n2 \in skipped' : n1.about = n2.about /\ n1.about # {} => n1 = n2
         /\ \A n \in skipped' : n.why \in {"never processed", "deadline exceeded"} => expired
<1>1. skipped' = FinalNotes
  BY DEF Finish
<1>2. \A n \in DeadlineNotes : n.about = {} /\ expired
  BY NoteType DEF DeadlineNotes
<1>3. \A n \in skipped, m \in Unprocessed : n.about # {m}
  BY DEF Named, Unprocessed
<1>4. \A n \in skipped' : \/ n \in skipped
                          \/ n.about = {} /\ expired
                          \/ \E m \in Unprocessed : n = About(m, "never processed") /\ n.about = {m}
  <2>1. \A m : About(m, "never processed").about = {m}
    BY NoteType
  <2> QED
    BY <1>1, <1>2, <2>1 DEF FinalNotes
<1>5. \A n1, n2 \in skipped : n1.about = n2.about /\ n1.about # {} => n1 = n2
  BY DEF Inv, Apart
<1>6. ASSUME NEW n1 \in skipped', NEW n2 \in skipped', n1.about = n2.about, n1.about # {}
      PROVE  n1 = n2
  <2>1. CASE n1 \in skipped
    BY <1>3, <1>4, <1>5, <1>6, <2>1
  <2>2. CASE \E m \in Unprocessed : n1 = About(m, "never processed") /\ n1.about = {m}
    BY <1>3, <1>4, <1>6, <2>2
  <2> QED
    BY <1>4, <1>6, <2>1, <2>2
<1>7. \A n \in skipped : n.why \in {"never processed", "deadline exceeded"} => expired
  BY DEF Inv, Blamed
<1>8. \A m \in Unprocessed : expired
  BY NothingLeft
<1> QED
  BY <1>4, <1>6, <1>7, <1>8

\* The caller publishes its report.
LEMMA FinishStep ==
  ASSUME Inv, Finish
  PROVE  /\ Staged' /\ Apart' /\ Covered' /\ Blamed'
         /\ ok' \cup Named' = discovered'
<1>1. /\ limit' = limit /\ expired' = expired /\ main' = "done" /\ truncated' = truncated
      /\ discovered' = discovered /\ feeder' = feeder /\ unfed' = unfed /\ results' = {}
      /\ closed' = closed /\ worker' = worker /\ ok' = ok /\ status' # "none"
  BY DEF Finish, finalStatus
<1>2. Named' = Named \cup Unprocessed
  BY NamedAtEnd
<1>3. DOMAIN worker # {} /\ closed /\ ok \cap Named = {}
  BY DEF Finish, Inv, Staged, Apart
<1>4. feeder = "ended" /\ \A w \in DOMAIN worker : worker[w] = Exited
  BY NothingLeft
<1>5. Staged'
  BY <1>1, <1>4 DEF Inv, Staged
<1>6. Apart'
  <2>1. \A w \in DOMAIN worker' : worker'[w].jobs = {}
    BY <1>1, <1>4 DEF Exited
  <2>2. ok' \cap Named' = {}
    BY <1>1, <1>2, <1>3 DEF Unprocessed
  <2>3. \A n1, n2 \in skipped' : n1.about = n2.about /\ n1.about # {} => n1 = n2
    BY ReasonsAtEnd
  <2> QED
    BY <1>1, <2>1, <2>2, <2>3 DEF Apart
<1>7. Covered'
  BY <1>1 DEF Covered
<1>8. Blamed'
  BY <1>1, ReasonsAtEnd DEF Blamed
<1>9. ok' \cup Named' = discovered'
  <2>1. ok \subseteq discovered /\ Named \subseteq discovered
    <3>1. \A n \in skipped : n.about = {} \/ \E m \in discovered : n.about = {m}
      BY DEF Inv, TypeOK
    <3> QED
      BY <3>1 DEF Inv, TypeOK, Named
  <2> QED
    BY <1>1, <1>2, <2>1 DEF Unprocessed
<1> QED
  BY <1>5, <1>6, <1>7, <1>8, <1>9

-----------------------------------------------------------------------------
\* The steps that move no manifest, and those that do: all keep the rest of Inv.
LEMMA RestStep == Inv /\ [Next]_vars => Staged' /\ Apart' /\ Covered' /\ Blamed'
<1> DEFINE Rest == Staged /\ Apart /\ Covered /\ Blamed
<1> SUFFICES ASSUME Inv, [Next]_vars PROVE Rest'
  OBVIOUS
<1>t. TypeOK
  BY DEF Inv
<1>1. CASE Deadline
  <2>1. Staged'
    BY <1>1 DEF Deadline, Inv, Staged
  <2> QED
    BY <1>1, <2>1, Unmoved DEF Deadline
<1>2. CASE TreeFails
  <2>1. Staged'
    BY <1>2 DEF TreeFails, Inv, Staged
  <2> QED
    BY <1>2, <2>1, Unmoved DEF TreeFails
<1>3. CASE TreeHasNone
  <2>1. PICK cut \in BOOLEAN : /\ truncated' = cut /\ skipped' = TreeNotes(cut)
                               /\ status' = finalStatus(TreeNotes(cut), {}, {})
    BY <1>3 DEF TreeHasNone
  <2>2. /\ main' = "done" /\ feeder' = "off" /\ discovered' = {} /\ unfed' = {}
        /\ results' = {} /\ ok' = {} /\ DOMAIN worker' = {} /\ closed' = closed
    BY <1>3 DEF TreeHasNone, Inv, Staged
  <2>3. \A n \in skipped' : n.about = {} /\ n.why = "tree truncated"
    BY <2>1, NoteType DEF TreeNotes
  <2>4. status' # "none"
    BY <2>1 DEF finalStatus
  <2>5. Staged'
    BY <2>2, <2>4 DEF Staged
  <2>6. Named' = {}
    BY <2>3 DEF Named
  <2>7. Apart'
    BY <2>2, <2>3, <2>6 DEF Apart
  <2>8. Covered' /\ Blamed'
    BY <2>2, <2>3 DEF Covered, Blamed
  <2> QED
    BY <2>5, <2>7, <2>8
<1>4. CASE StartPool
  BY <1>4, StartStep
<1>5. CASE EndFeeding
  <2>1. Staged'
    BY <1>5 DEF EndFeeding, Inv, Staged
  <2> QED
    BY <1>5, <2>1, Unmoved DEF EndFeeding
<1>6. ASSUME NEW w \in DOMAIN worker, Step(w) PROVE Rest'
  <2>1. ASSUME NEW x \in WorkerState, Becomes(w, x), results' = results,
               x.jobs = worker[w].jobs, x = Exited => feeder = "ended",
               worker[w] # Exited
        PROVE  Rest'
    <3>1. /\ DOMAIN worker' = DOMAIN worker /\ worker'[w] = x
          /\ \A v \in DOMAIN worker : v # w => worker'[v] = worker[v]
      BY <1>t, <2>1, WorkerMoves DEF Becomes
    <3>2. \A v \in DOMAIN worker : worker'[v].jobs = worker[v].jobs
      BY <2>1, <3>1
    <3>3. Apart' /\ Covered' /\ Blamed'
      BY <2>1, <3>1, <3>2, Unmoved DEF Becomes
    <3>4. Staged'
      BY <2>1, <3>1 DEF Becomes, Inv, Staged
    <3> QED
      BY <3>3, <3>4
  <2>2. worker[w].at # "exited" => worker[w] # Exited
    BY DEF Exited
  <2>3. CASE Feed(w)
    BY <2>3, FeedStep
  <2>4. CASE Fetch(w)
    BY <1>t, <2>1, <2>2, <2>4, StepStates DEF Fetch
  <2>5. CASE FetchFails(w)
    BY <1>t, <2>1, <2>2, <2>5, StepStates DEF FetchFails
  <2>6. CASE Parse(w)
    BY <1>t, <2>1, <2>2, <2>6, StepStates DEF Parse
  <2>7. CASE Send(w)
    BY <2>7, SendStep
  <2>8. CASE Exit(w)
    BY <1>t, <2>1, <2>2, <2>8, StepStates DEF Exit
  <2> QED
    BY <1>6, <2>3, <2>4, <2>5, <2>6, <2>7, <2>8 DEF Step
<1>7. CASE CloseResults
  <2>1. Staged'
    BY <1>7 DEF CloseResults, Inv, Staged
  <2> QED
    BY <1>7, <2>1, Unmoved DEF CloseResults
<1>8. CASE Collect
  BY <1>8, CollectStep
<1>9. CASE Finish
  BY <1>9, FinishStep
<1>10. CASE UNCHANGED vars
  <2>1. Staged'
    BY <1>10 DEF vars, Inv, Staged
  <2> QED
    BY <1>10, <2>1, Unmoved DEF vars
<1> QED
  BY <1>1, <1>2, <1>3, <1>4, <1>5, <1>6, <1>7, <1>8, <1>9, <1>10 DEF Next

\* Inv holds in every state of the scan.
LEMMA Invariant == Spec => []Inv
<1>1. Init => Inv
  BY TypeInit, RestInit DEF Inv
<1>2. Inv /\ [Next]_vars => Inv'
  BY TypeStep, RestStep DEF Inv
<1> QED
  BY <1>1, <1>2, PTL DEF Spec

\* Every variable has its type whatever the manifests and the pool's limit are.
THEOREM TypeCorrect == Spec => []TypeOK
<1>1. Inv => TypeOK
  BY DEF Inv
<1> QED
  BY <1>1, Invariant, PTL

\* The channel of results is closed and the scan returns only after the feeder
\* and every worker have ended, for every size of the pool (scanner.go:186-240).
THEOREM GoroutinesEnd == Spec => []NoGoroutineOutlives
<1>1. Inv => NoGoroutineOutlives
  <2> SUFFICES ASSUME Inv, closed \/ main = "done"
               PROVE  /\ \A w \in DOMAIN worker : worker[w] = Exited
                      /\ feeder \in {"off", "ended"}
    BY DEF NoGoroutineOutlives
  <2>1. \A w \in DOMAIN worker : worker[w] = Exited
    BY DEF Inv, Staged
  <2>2. feeder \in {"off", "ended"}
    <3>1. CASE main = "done"
      BY <3>1 DEF Inv, Staged, TypeOK
    <3>2. CASE main = "collect"
      <4>1. PICK w \in DOMAIN worker : worker[w] = Exited
        BY <2>1, <3>2 DEF Inv, Staged
      <4> QED
        BY <4>1 DEF Inv, Staged
    <3>3. main \in {"collect", "done"}
      <4>1. main \in {"tree", "collect", "done"}
        BY DEF Inv, TypeOK
      <4>2. main = "tree" => ~closed
        BY DEF Inv, Staged
      <4> QED
        BY <4>1, <4>2
    <3> QED
      BY <3>1, <3>2, <3>3
  <2> QED
    BY <2>1, <2>2
<1> QED
  BY <1>1, Invariant, PTL

-----------------------------------------------------------------------------
\* Once the report is out no step changes anything.
LEMMA NothingAfterDone ==
  ASSUME Inv, main = "done", Next
  PROVE  FALSE
<1>1. \A w \in DOMAIN worker : worker[w].at = "exited"
  BY DEF Inv, Staged, Exited
<1>2. feeder # "feeding"
  BY DEF Inv, Staged
<1>3. ~ \E w \in DOMAIN worker : Step(w)
  BY <1>1 DEF Step, Feed, Fetch, FetchFails, Parse, Send, Exit
<1>4. ~EndFeeding
  BY <1>2 DEF EndFeeding
<1> QED
  BY <1>3, <1>4 DEF Next, Deadline, TreeFails, TreeHasNone, StartPool, CloseResults,
                    Collect, Finish

\* Only three steps publish a report.
LEMMA ReportedBy ==
  ASSUME Inv, [Next]_vars, main' = "done"
  PROVE  UNCHANGED vars \/ TreeFails \/ TreeHasNone \/ Finish
<1>1. main = "done" => UNCHANGED vars
  BY NothingAfterDone
<1>2. \A w : Step(w) => main' = main
  BY DEF Step, Feed, Fetch, FetchFails, Parse, Send, Exit, Becomes
<1> QED
  BY <1>1, <1>2 DEF Next, Deadline, StartPool, EndFeeding, CloseResults, Collect

\* The report settles every manifest with a status that does not overclaim.
Settled == Accounted /\ StatusMeansWhatItSays

\* The published report is settled, whichever step publishes it.
LEMMA SettledStep == Inv /\ Settled /\ [Next]_vars => Settled'
<1> SUFFICES ASSUME Inv, Settled, [Next]_vars, main' = "done"
             PROVE  Settled'
  BY DEF Settled, Accounted, StatusMeansWhatItSays
<1>a. Apart' /\ Blamed'
  BY RestStep
<1>b. /\ ok' \cap Named' = {}
      /\ \A n1, n2 \in skipped' : n1.about = n2.about /\ n1.about # {} => n1 = n2
      /\ \A n \in skipped' : n.why \in {"never processed", "deadline exceeded"} => expired'
  BY <1>a DEF Apart, Blamed
<1>1. CASE UNCHANGED vars
  <2>1. main = "done" /\ Named' = Named
    BY <1>1 DEF vars, Named
  <2> QED
    BY <1>1, <2>1 DEF vars, Settled, Accounted, StatusMeansWhatItSays
<1>2. CASE TreeFails
  <2>1. ok' = {} /\ discovered' = {} /\ skipped' = {} /\ status' = "failed"
    BY <1>2 DEF TreeFails, Inv, Staged
  <2>2. Named' = {}
    BY <2>1 DEF Named
  <2> QED
    BY <1>b, <2>1, <2>2 DEF Settled, Accounted, StatusMeansWhatItSays
<1>3. CASE TreeHasNone
  <2>1. PICK cut \in BOOLEAN : /\ truncated' = cut /\ skipped' = TreeNotes(cut)
                               /\ status' = finalStatus(TreeNotes(cut), {}, {})
    BY <1>3 DEF TreeHasNone
  <2>2. ok' = {} /\ discovered' = {}
    BY <1>3 DEF TreeHasNone, Inv, Staged
  <2>3. \A n \in skipped' : n.about = {}
    BY <2>1, NoteType DEF TreeNotes
  <2>4. Named' = {}
    BY <2>3 DEF Named
  <2>5. StatusMeansWhatItSays'
    BY <2>1, <2>2 DEF StatusMeansWhatItSays, finalStatus, TreeNotes
  <2> QED
    BY <1>b, <2>2, <2>4, <2>5 DEF Settled, Accounted
<1>4. CASE Finish
  <2>1. ok' \cup Named' = discovered'
    BY <1>4, FinishStep
  <2>2. /\ skipped' = FinalNotes /\ status' = finalStatus(skipped', ok', discovered')
        /\ discovered' # {} /\ truncated' = truncated
        /\ truncated => OfScan("tree truncated") \in skipped
    BY <1>4 DEF Finish, Inv, Staged
  <2>3. truncated' => skipped' # {}
    BY <2>2 DEF FinalNotes
  <2>4. skipped' = {} => Named' = {}
    BY DEF Named
  <2>5. StatusMeansWhatItSays'
    BY <2>1, <2>2, <2>3, <2>4 DEF StatusMeansWhatItSays, finalStatus
  <2> QED
    BY <1>b, <2>1, <2>5 DEF Settled, Accounted
<1> QED
  BY <1>1, <1>2, <1>3, <1>4, ReportedBy

\* Settled holds of every report.
LEMMA SettledAlways == Spec => []Settled
<1>1. Init => Settled
  BY DEF Init, Settled, Accounted, StatusMeansWhatItSays
<1>2. Inv /\ Settled /\ [Next]_vars => Settled'
  BY SettledStep
<1> QED
  BY <1>1, <1>2, Invariant, PTL DEF Spec

\* Nothing is silently dropped (scanner.go:274-281), for every set of manifests,
\* every limit of the pool and every instant at which the deadline passes.
THEOREM NothingDropped == Spec => []Accounted
<1>1. Settled => Accounted
  BY DEF Settled
<1> QED
  BY <1>1, SettledAlways, PTL

\* The status never claims more than was scanned (scanner.go:30-34).
THEOREM StatusIsHonest == Spec => []StatusMeansWhatItSays
<1>1. Settled => StatusMeansWhatItSays
  BY DEF Settled
<1> QED
  BY <1>1, SettledAlways, PTL

-----------------------------------------------------------------------------
(* The refinement.                                                          *)

\* A state of the scan seen as a report.
Fate == [m \in Manifests |->
           IF m \notin discovered THEN "absent"
           ELSE IF m \in ok THEN "scanned"
           ELSE IF m \in Named THEN "skipped" ELSE "open"]

\* Before the tree is read every fate is absent.
LEMMA FateAbsent == discovered = {} => Fate = [m \in Manifests |-> "absent"]
BY DEF Fate

\* The first state of the scan is the report's.
LEMMA ReportInit == Init => Report!Init
<1> SUFFICES ASSUME Init PROVE Report!Init
  OBVIOUS
<1>1. Fate = [m \in Manifests |-> "absent"]
  BY FateAbsent DEF Init
<1> QED
  BY <1>1 DEF Init, Fate, Report!Init

\* Every step of the scan is a step of the report, or none.
LEMMA ReportStep == Inv /\ Settled' /\ [Next]_vars => [Report!Next]_(Report!vars)
<1> SUFFICES ASSUME Inv, Settled', [Next]_vars
             PROVE  [Report!Next]_(Report!vars)
  OBVIOUS
<1>s. main # "done" => status = "none"
  BY DEF Inv, Staged
<1>u. ASSUME discovered' = discovered, ok' = ok, skipped' = skipped, status' = status
      PROVE  UNCHANGED Report!vars
  <2>1. Named' = Named
    BY <1>u DEF Named
  <2>2. Fate' = Fate
    BY <1>u, <2>1 DEF Fate
  <2> QED
    BY <1>u, <2>2 DEF Report!vars, Fate
<1>1. CASE StartPool
  <2>1. Fate = [m \in Manifests |-> "absent"] /\ status = "none" /\ status' = status
    BY <1>1, FateAbsent DEF StartPool, Inv, Staged
  <2>2. PICK cut \in BOOLEAN : skipped' = TreeNotes(cut)
    BY <1>1 DEF StartPool
  <2>3. ok' = {} /\ Named' = {}
    <3>1. \A n \in skipped' : n.about = {}
      BY <2>2, NoteType DEF TreeNotes
    <3> QED
      BY <1>1, <3>1 DEF StartPool, Inv, Staged, Named
  <2>4. Fate' \in [Manifests -> {"absent", "open"}]
    BY <2>3 DEF Fate
  <2>5. Report!Discover
    BY <2>1, <2>4 DEF Report!Discover, Fate
  <2> QED
    BY <2>5 DEF Report!Next
<1>2. CASE Collect
  <2>1. PICK r \in results :
           IF r.outcome = "ok"
           THEN ok' = ok \cup {r.manifest} /\ UNCHANGED skipped
           ELSE skipped' = skipped \cup {About(r.manifest, r.outcome)} /\ UNCHANGED ok
    BY <1>2 DEF Collect
  <2> DEFINE k == r.manifest
             how == IF r.outcome = "ok" THEN "scanned" ELSE "skipped"
  <2>2. k \in discovered /\ k \in Manifests /\ k \notin ok \cup Named
    BY ResultType DEF Inv, TypeOK, Apart
  <2>3. Fate[k] = "open"
    BY <2>2 DEF Fate
  <2>4. discovered' = discovered /\ status' = status /\ status = "none"
    BY <1>2, <1>s DEF Collect
  <2>5. IF r.outcome = "ok" THEN ok' = ok \cup {k} /\ Named' = Named
                            ELSE ok' = ok /\ Named' = Named \cup {k}
    BY <2>1, NamedAfter DEF Named
  <2>6. Fate' = [Fate EXCEPT ![k] = how]
    BY <2>2, <2>4, <2>5 DEF Fate
  <2>7. k \in Manifests /\ how \in {"scanned", "skipped"}
    BY <2>2
  <2>8. Report!Settle
    BY <2>3, <2>4, <2>6, <2>7 DEF Report!Settle, Fate
  <2> QED
    BY <2>8 DEF Report!Next
<1>3. CASE TreeFails \/ TreeHasNone \/ Finish
  <2>1. main = "done" => FALSE
    BY <1>3 DEF TreeFails, TreeHasNone, Finish
  <2>2. status = "none" /\ main' = "done" /\ ok' = ok /\ discovered' = discovered
    BY <1>3, <1>s, <2>1 DEF TreeFails, TreeHasNone, Finish
  <2>3. ok' \cup Named' = discovered' /\ ok' \cap Named' = {}
    BY <2>2 DEF Settled, Accounted
  <2>4. Named \subseteq Named'
    BY <1>3 DEF TreeFails, TreeHasNone, Finish, FinalNotes, Named, Inv, Staged
  <2>5. Fate' = [m \in Manifests |-> IF Fate[m] = "open" THEN "skipped" ELSE Fate[m]]
    BY <2>2, <2>3, <2>4 DEF Fate
  <2>6. status' \in {"complete", "partial", "failed"}
    BY <1>3 DEF TreeFails, TreeHasNone, Finish, finalStatus
  <2>7. status' = "complete" => \A m \in Manifests : Fate'[m] \in {"absent", "scanned"}
    BY <2>2 DEF Settled, StatusMeansWhatItSays, Fate
  <2>8. status' = "failed" => \A m \in Manifests : Fate'[m] # "scanned"
    BY <2>2 DEF Settled, StatusMeansWhatItSays, Fate
  <2>9. Report!Publish
    BY <2>2, <2>5, <2>6, <2>7, <2>8 DEF Report!Publish, Report!Claims, Fate
  <2> QED
    BY <2>9 DEF Report!Next
<1>4. CASE Deadline \/ EndFeeding \/ CloseResults \/ UNCHANGED vars
  BY <1>4, <1>u DEF Deadline, EndFeeding, CloseResults, vars
<1>5. ASSUME NEW w \in DOMAIN worker, Step(w)
      PROVE  UNCHANGED Report!vars
  BY <1>5, <1>u DEF Step, Feed, Fetch, FetchFails, Parse, Send, Exit, Becomes
<1> QED
  BY <1>1, <1>2, <1>3, <1>4, <1>5 DEF Next

\* The pool of goroutines implements the report its reader is promised: each
\* manifest is settled once, and publishing settles the rest (scanner.go:242-287).
THEOREM ScanImplementsReport == Spec => ReportSpec
<1>1. Inv /\ Settled' /\ [Next]_vars => [Report!Next]_(Report!vars)
  BY ReportStep
<1> QED
  BY <1>1, ReportInit, Invariant, SettledAlways, PTL DEF Spec, ReportSpec, Report!Spec
=============================================================================

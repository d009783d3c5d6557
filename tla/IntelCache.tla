------------------------------ MODULE IntelCache ------------------------------
(***************************************************************************)
(* The per-CVE score caches in ~/.sbomber: EPSS (fetchEPSS,                *)
(* internal/vulnerability/enrichment.go) and NVD (fetchNVDCVSS,            *)
(* internal/vulnerability/intel.go).  A lookup loads the whole file,       *)
(* serves what is fresh, asks for the rest, and writes the whole file back *)
(* when something was fetched.  Nothing locks the file: other sbomber      *)
(* processes do the same meanwhile, and os.WriteFile truncates it before   *)
(* it writes.                                                              *)
(***************************************************************************)
EXTENDS Integers, FiniteSets

CONSTANTS Procs,      \* sbomber processes of one user
          Cves,
          Scored,     \* the CVEs the source has a score for
          Wants,      \* bound: the sets of CVEs a lookup may want
          BatchSize,  \* CVEs of one EPSS request (100)
          TTL,        \* how many ticks an entry stays fresh
          MaxClock,   \* bound on the clock
          MayDie      \* a process may be killed while it writes the file

ASSUME CacheAssumption == /\ Scored \subseteq Cves
                          /\ Wants \subseteq (SUBSET Cves) \ {{}}
                          /\ {BatchSize, TTL, MaxClock} \subseteq Nat \ {0}
                          /\ MayDie \in BOOLEAN

VARIABLES source,   \* whose cache this is: "epss" or "nvd"; it never changes
          clock,
          file,     \* the entries in the file: CVE -> when it was fetched
          torn,     \* the file does not parse
          proc,     \* process -> its lookup
          fetched,  \* history: CVE -> when a returned lookup last fetched it
          lossy     \* history: a write met a file newer than the one it had
                    \*   read, a process died writing, or a deadline struck

vars == <<source, clock, file, torn, proc, fetched, lossy>>

NoEntries == [c \in {} |-> 0]

\* A lookup: the CVEs it wants, those still to ask for (uncached), the map it
\* will save, what it has a score for, what it fetched itself, how many
\* requests failed, whether another write overlaps its own (clash), and whether
\* the file was written after it was loaded (behind).
Lookup(at, wanted, left, cache, result, got, failed, clash, behind) ==
    [at |-> at, wanted |-> wanted, left |-> left, cache |-> cache,
     result |-> result, got |-> got, failed |-> failed, clash |-> clash, behind |-> behind]

Rest == Lookup("idle", {}, {}, NoEntries, {}, {}, 0, FALSE, FALSE)

Init == /\ source \in {"epss", "nvd"}
        /\ clock = 0
        /\ file = NoEntries /\ torn = FALSE
        /\ proc = [p \in Procs |-> Rest]
        /\ fetched = NoEntries /\ lossy = FALSE

Tick == /\ clock < MaxClock
        /\ clock' = clock + 1
        /\ UNCHANGED <<source, file, torn, proc, fetched, lossy>>

-----------------------------------------------------------------------------
\* A file that is missing or does not parse is an empty one.
Loaded == IF torn THEN NoEntries ELSE file

\* Mutant: entries are served whatever their age.
FreshEver(entries) == DOMAIN entries

Fresh(entries) == {c \in DOMAIN entries : clock - entries[c] < TTL}

\* Load the file, serve the fresh entries, collect the rest.
Begin(p, cves) ==
    /\ proc[p].at \in {"idle", "returned"}
    /\ proc' = [proc EXCEPT ![p] =
                  Lookup("asking", cves, cves \ Fresh(Loaded), Loaded,
                         cves \cap Fresh(Loaded), {}, 0, FALSE, FALSE)]
    /\ UNCHANGED <<source, clock, file, torn, fetched, lossy>>

Size == IF source = "epss" THEN BatchSize ELSE 1

\* The next request: a full batch, or what is left.
Batches(p) == {b \in (SUBSET proc[p].left) \ {{}} :
                 Cardinality(b) = Size \/ (b = proc[p].left /\ Cardinality(b) < Size)}

With(entries, cves) == [c \in DOMAIN entries \cup cves |->
                          IF c \in cves THEN clock ELSE entries[c]]

Answered(p) ==
    /\ proc[p].at = "asking"
    /\ \E b \in Batches(p) :
          proc' = [proc EXCEPT ![p].left = @ \ b,
                               ![p].result = @ \cup (b \cap Scored),
                               ![p].got = @ \cup (b \cap Scored),
                               ![p].cache = With(@, b \cap Scored)]
    /\ UNCHANGED <<source, clock, file, torn, fetched, lossy>>

\* Mutant: the batches after a failed one are not attempted, nor counted.
FailedStopping(p) ==
    /\ proc[p].at = "asking"
    /\ proc[p].left # {}
    /\ proc' = [proc EXCEPT ![p].left = {}]
    /\ UNCHANGED <<source, clock, file, torn, fetched, lossy>>

Failed(p) ==
    /\ proc[p].at = "asking"
    /\ \E b \in Batches(p) :
          proc' = [proc EXCEPT ![p].left = @ \ b, ![p].failed = @ + 1]
    /\ UNCHANGED <<source, clock, file, torn, fetched, lossy>>

-----------------------------------------------------------------------------
(* The end of a lookup: the whole map is written back.                      *)

Writing == {p \in Procs : proc[p].at = "writing"}

Truncate(p) ==
    /\ proc[p].at = "asking"
    /\ proc[p].left = {}
    /\ proc[p].got # {}
    /\ torn' = TRUE
    /\ proc' = [q \in Procs |->
                  IF q = p THEN [proc[p] EXCEPT !.at = "writing", !.clash = Writing # {}]
                  ELSE IF q \in Writing THEN [proc[q] EXCEPT !.clash = TRUE]
                  ELSE proc[q]]
    /\ UNCHANGED <<source, clock, file, fetched, lossy>>

\* Mutant: only what this lookup fetched is written.
WrittenOnly(p) == [c \in proc[p].got |-> proc[p].cache[c]]

Written(p) == proc[p].cache

Returned(p) == [proc EXCEPT ![p] = [@ EXCEPT !.at = "returned", !.clash = FALSE,
                                              !.behind = FALSE]]

\* The history once p returns: the latest fetch of each CVE.
Returning(p) ==
    [c \in DOMAIN fetched \cup proc[p].got |->
       IF c \notin proc[p].got THEN fetched[c]
       ELSE IF c \in DOMAIN fetched /\ fetched[c] > proc[p].cache[c] THEN fetched[c]
       ELSE proc[p].cache[c]]

\* Writes that overlap may leave the bytes of both in the file.
Write(p) ==
    /\ proc[p].at = "writing"
    /\ file' = Written(p)
    /\ torn' \in (IF proc[p].clash THEN BOOLEAN ELSE {FALSE})
    /\ proc' = [q \in Procs |->
                  IF q # p /\ proc[q].at \in {"asking", "writing"}
                  THEN [proc[q] EXCEPT !.behind = TRUE] ELSE Returned(p)[q]]
    /\ fetched' = Returning(p)
    /\ lossy' = (lossy \/ proc[p].behind)
    /\ UNCHANGED <<source, clock>>

NothingToSave(p) ==
    /\ proc[p].at = "asking"
    /\ proc[p].left = {}
    /\ proc[p].got = {}
    /\ proc' = Returned(p)
    /\ UNCHANGED <<source, clock, file, torn, fetched, lossy>>

\* NVD requests are paced; the deadline of the context ends the wait between
\* two of them, and the lookup returns what it has.
DeadlineWhileWaiting(p) ==
    /\ source = "nvd"
    /\ proc[p].at = "asking"
    /\ proc[p].left # {}
    /\ proc[p].got # {} \/ proc[p].left \cup proc[p].result # proc[p].wanted
    /\ proc' = Returned(p)
    /\ fetched' = Returning(p)
    /\ lossy' = TRUE
    /\ UNCHANGED <<source, clock, file, torn>>

Dies(p) == /\ MayDie
           /\ proc[p].at = "writing"
           /\ proc' = [proc EXCEPT ![p] = Rest]
           /\ lossy' = TRUE
           /\ UNCHANGED <<source, clock, file, torn, fetched>>

-----------------------------------------------------------------------------
Step(p) == \/ \E cves \in Wants : Begin(p, cves)
           \/ Answered(p) \/ Failed(p)
           \/ Truncate(p) \/ Write(p) \/ NothingToSave(p)
           \/ DeadlineWhileWaiting(p) \/ Dies(p)

Next == Tick \/ \E p \in Procs : Step(p)

Spec == Init /\ [][Next]_vars

-----------------------------------------------------------------------------
\* The status fetchEPSS returns with its scores: a success when no request failed.
Success(p) == proc[p].at = "returned" /\ proc[p].failed = 0

\* A lookup that calls itself a success has the score of every CVE that has one
\* (enrichment.go:301-309), from the file or from the source, whatever other
\* processes did to the file and however it was torn.
SuccessMeansAll ==
    \A p \in Procs : Success(p) /\ source = "epss"
        => proc[p].wanted \cap Scored \subseteq proc[p].result

\* A score a lookup does not ask for was fetched by a lookup that returned less
\* than the TTL ago (enrichment.go:228-236): no torn or clobbered file makes an
\* old score young again.
ServedWasFetched ==
    [][\A p \in Procs, c \in Cves :
          proc[p].at # "asking" /\ proc'[p].at = "asking" /\ c \in proc'[p].result
          => c \in DOMAIN fetched /\ clock - fetched[c] < TTL]_vars

\* What a lookup fetched is in the file for as long as it is fresh, so that a
\* later failure of the source does not wipe it out (enrichment.go:213-215,
\* intel.go:197-198).  Only the three events that make a history lossy can break
\* it: the code neither locks the file nor saves before it leaves for a deadline.
CacheKeepsFetched ==
    Writing = {} /\ ~lossy =>
        \A c \in DOMAIN fetched : clock - fetched[c] < TTL =>
            ~torn /\ c \in DOMAIN file /\ file[c] >= fetched[c]
===============================================================================

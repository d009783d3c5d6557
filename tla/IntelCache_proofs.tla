-------------------------- MODULE IntelCache_proofs --------------------------
(***************************************************************************)
(* Theorems about the score caches, for every set of processes and of      *)
(* CVEs, every batch size and time to live, however long the clock runs.   *)
(***************************************************************************)
EXTENDS IntelCache, TLAPS

\* The entries of a file or of a loaded map.
Entries == UNION {[cves -> Nat] : cves \in SUBSET Cves}

LookupRecords == [at : {"idle", "asking", "writing", "returned"},
                  wanted : SUBSET Cves, left : SUBSET Cves, cache : Entries,
                  result : SUBSET Cves, got : SUBSET Cves, failed : Nat,
                  clash : BOOLEAN, behind : BOOLEAN]

Typed ==
    /\ source \in {"epss", "nvd"}
    /\ clock \in Nat
    /\ file \in Entries /\ fetched \in Entries
    /\ torn \in BOOLEAN /\ lossy \in BOOLEAN
    /\ proc \in [Procs -> LookupRecords]

\* A lookup that is going on: it holds the map it loaded.
Active(p) == proc[p].at \in {"asking", "writing"}

\* What a lookup has done with the CVEs it wants: nothing with a score is lost
\* but by a failed request, and an EPSS lookup ends with nothing left to ask.
Asked ==
    \A p \in Procs :
        /\ proc[p].at # "idle" /\ proc[p].failed = 0
              => proc[p].wanted \cap Scored \subseteq proc[p].result \cup proc[p].left
        /\ proc[p].at = "writing" \/ (proc[p].at = "returned" /\ source = "epss")
              => proc[p].left = {}

\* Every entry was fetched: those of the file and those a lookup loaded by a
\* lookup that returned, no earlier than the entry says, the others by the lookup
\* itself.
Traced ==
    /\ \A c \in DOMAIN fetched : fetched[c] <= clock
    /\ \A c \in DOMAIN file : c \in DOMAIN fetched /\ file[c] <= fetched[c]
    /\ \A p \in Procs : Active(p) =>
          /\ proc[p].got \subseteq DOMAIN proc[p].cache
          /\ \A c \in proc[p].got : proc[p].cache[c] <= clock
          /\ \A c \in DOMAIN proc[p].cache \ proc[p].got :
                c \in DOMAIN fetched /\ proc[p].cache[c] <= fetched[c]

-----------------------------------------------------------------------------
(* While the history is not lossy, what was fetched is in the file, or the  *)
(* next write of somebody makes it lossy.                                   *)

\* Another process than p is between its truncation and its write.
OtherWriter(p) == \E q \in Writing : q # p

\* The map p will write has everything the file has.
Covers(p) == /\ DOMAIN file \subseteq DOMAIN proc[p].cache
             /\ \A c \in DOMAIN file \ proc[p].got : proc[p].cache[c] = file[c]

\* p holds a map that is as new as the file, or whose file was being rewritten.
UpToDate(p) ==
    /\ OtherWriter(p) \/ Covers(p)
    /\ \A c \in proc[p].got \cap DOMAIN fetched : fetched[c] <= proc[p].cache[c]
    /\ p \in Writing /\ proc[p].clash => OtherWriter(p)

InFile == \A c \in DOMAIN fetched : c \in DOMAIN file /\ fetched[c] <= file[c]

Kept ==
    ~lossy =>
        /\ torn => Writing # {}
        /\ InFile \/ \E q \in Writing : proc[q].behind
        /\ \A p \in Procs : Active(p) /\ ~proc[p].behind => UpToDate(p)

-----------------------------------------------------------------------------
\* What a map of entries is made of.
LEMMA EntriesAre ==
  ASSUME NEW e \in Entries
  PROVE  /\ DOMAIN e \subseteq Cves
         /\ \A c \in DOMAIN e : e[c] \in Nat
BY DEF Entries

\* A map of CVEs to times.
LEMMA EntriesOf ==
  ASSUME NEW cves \in SUBSET Cves, NEW e \in [cves -> Nat]
  PROVE  e \in Entries
BY DEF Entries

\* The empty map, and the one that is loaded.
LEMMA LoadedType == Typed => NoEntries \in Entries /\ Loaded \in Entries
<1>1. NoEntries \in [{} -> Nat]
  BY DEF NoEntries
<1> QED
  BY <1>1, EntriesOf DEF Loaded, Typed

\* A map that an answer is added to.
LEMMA WithType ==
  ASSUME Typed, NEW e \in Entries, NEW cves \in SUBSET Cves
  PROVE  With(e, cves) \in Entries
<1>1. DOMAIN e \cup cves \in SUBSET Cves
  BY EntriesAre
<1>2. With(e, cves) \in [DOMAIN e \cup cves -> Nat]
  BY EntriesAre DEF With, Typed
<1> QED
  BY <1>1, <1>2, EntriesOf

\* The history once a lookup with its own fetches among its entries returns.
LEMMA ReturningType ==
  ASSUME Typed, NEW p \in Procs, proc[p].got \subseteq DOMAIN proc[p].cache
  PROVE  Returning(p) \in Entries
<1>1. proc[p].cache \in Entries /\ proc[p].got \in SUBSET Cves /\ fetched \in Entries
  BY DEF Typed, LookupRecords
<1>2. DOMAIN fetched \cup proc[p].got \in SUBSET Cves
  BY <1>1, EntriesAre
<1>3. Returning(p) \in [DOMAIN fetched \cup proc[p].got -> Nat]
  BY <1>1, EntriesAre DEF Returning
<1> QED
  BY <1>2, <1>3, EntriesOf

-----------------------------------------------------------------------------
(* What the steps of a lookup do to it and to the others.                   *)

\* An answer or a failure concerns CVEs that were left.
LEMMA BatchIsLeft ==
  ASSUME NEW p \in Procs, NEW b \in Batches(p)
  PROVE  b \subseteq proc[p].left
BY DEF Batches

\* What becomes of a lookup that ends, starts to write, meets another writer,
\* or whose file is written by somebody else.
Ended(r) == [r EXCEPT !.at = "returned", !.clash = FALSE, !.behind = FALSE]
Started(r, clash) == [r EXCEPT !.at = "writing", !.clash = clash]
Clashed(r) == [r EXCEPT !.clash = TRUE]
Outdated(r) == [r EXCEPT !.behind = TRUE]

\* A lookup that returns keeps what it asked for and what it got.
LEMMA EndedFields ==
  ASSUME NEW r \in LookupRecords
  PROVE  /\ Ended(r).at = "returned"
         /\ Ended(r).wanted = r.wanted /\ Ended(r).left = r.left
         /\ Ended(r).result = r.result /\ Ended(r).got = r.got
         /\ Ended(r).cache = r.cache /\ Ended(r).failed = r.failed
BY DEF LookupRecords, Ended

\* So does one that starts to write.
LEMMA StartedFields ==
  ASSUME NEW r \in LookupRecords, NEW clash \in BOOLEAN
  PROVE  /\ Started(r, clash) \in LookupRecords
         /\ Started(r, clash).at = "writing" /\ Started(r, clash).clash = clash
         /\ Started(r, clash).wanted = r.wanted /\ Started(r, clash).left = r.left
         /\ Started(r, clash).result = r.result /\ Started(r, clash).got = r.got
         /\ Started(r, clash).cache = r.cache /\ Started(r, clash).failed = r.failed
         /\ Started(r, clash).behind = r.behind
BY DEF LookupRecords, Started

\* And one that meets another writer.
LEMMA ClashedFields ==
  ASSUME NEW r \in LookupRecords
  PROVE  /\ Clashed(r) \in LookupRecords
         /\ Clashed(r).at = r.at /\ Clashed(r).wanted = r.wanted
         /\ Clashed(r).left = r.left /\ Clashed(r).result = r.result
         /\ Clashed(r).got = r.got /\ Clashed(r).cache = r.cache
         /\ Clashed(r).failed = r.failed /\ Clashed(r).behind = r.behind
BY DEF LookupRecords, Clashed

\* And one whose file somebody else writes.
LEMMA OutdatedFields ==
  ASSUME NEW r \in LookupRecords
  PROVE  /\ Outdated(r).behind
         /\ Outdated(r).at = r.at /\ Outdated(r).wanted = r.wanted
         /\ Outdated(r).left = r.left /\ Outdated(r).result = r.result
         /\ Outdated(r).got = r.got /\ Outdated(r).cache = r.cache
         /\ Outdated(r).failed = r.failed
BY DEF LookupRecords, Outdated

\* A lookup starts with what the file it loaded still has fresh.
LEMMA BeginDoes ==
  ASSUME Typed, NEW p \in Procs, NEW cves \in Wants, Begin(p, cves)
  PROVE  /\ proc'[p].at = "asking" /\ proc'[p].wanted = cves
         /\ proc'[p].left = cves \ Fresh(Loaded)
         /\ proc'[p].result = cves \cap Fresh(Loaded)
         /\ proc'[p].cache = Loaded /\ proc'[p].got = {}
         /\ \A q \in Procs \ {p} : proc'[q] = proc[q]
         /\ Writing' = Writing /\ p \notin Writing
<1> DEFINE fresh == Fresh(Loaded)
           entries == Loaded
<1>1. /\ proc'[p] = Lookup("asking", cves, cves \ fresh, entries,
                           cves \cap fresh, {}, 0, FALSE, FALSE)
      /\ \A q \in Procs \ {p} : proc'[q] = proc[q]
  BY DEF Begin, Typed
<1>2. /\ proc'[p].at = "asking" /\ proc'[p].wanted = cves
      /\ proc'[p].left = cves \ fresh /\ proc'[p].result = cves \cap fresh
      /\ proc'[p].cache = entries /\ proc'[p].got = {}
  <2> HIDE DEF fresh, entries
  <2> QED
    BY <1>1 DEF Lookup
<1>3. proc[p].at \in {"idle", "returned"}
  BY DEF Begin
<1>4. Writing' = Writing /\ p \notin Writing
  BY <1>1, <1>2, <1>3 DEF Writing
<1> QED
  BY <1>1, <1>2, <1>4

\* An answered batch adds its scores to the map and to the result.
LEMMA AnsweredDoes ==
  ASSUME Typed, NEW p \in Procs, Answered(p)
  PROVE  \E b \in SUBSET proc[p].left :
            /\ proc'[p].left = proc[p].left \ b
            /\ proc'[p].result = proc[p].result \cup (b \cap Scored)
            /\ proc'[p].got = proc[p].got \cup (b \cap Scored)
            /\ proc'[p].cache = With(proc[p].cache, b \cap Scored)
            /\ proc'[p].at = proc[p].at /\ proc'[p].wanted = proc[p].wanted
            /\ proc'[p].failed = proc[p].failed /\ proc'[p].behind = proc[p].behind
            /\ \A q \in Procs \ {p} : proc'[q] = proc[q]
            /\ Writing' = Writing /\ p \notin Writing
<1>1. PICK b \in Batches(p) :
         proc' = [proc EXCEPT ![p].left = @ \ b,
                              ![p].result = @ \cup (b \cap Scored),
                              ![p].got = @ \cup (b \cap Scored),
                              ![p].cache = With(@, b \cap Scored)]
  BY DEF Answered
<1>2. /\ proc'[p].left = proc[p].left \ b
      /\ proc'[p].result = proc[p].result \cup (b \cap Scored)
      /\ proc'[p].got = proc[p].got \cup (b \cap Scored)
      /\ proc'[p].cache = With(proc[p].cache, b \cap Scored)
      /\ proc'[p].at = proc[p].at /\ proc'[p].wanted = proc[p].wanted
      /\ proc'[p].failed = proc[p].failed /\ proc'[p].behind = proc[p].behind
      /\ \A q \in Procs \ {p} : proc'[q] = proc[q]
  BY <1>1 DEF Typed, LookupRecords
<1>3. proc[p].at = "asking"
  BY DEF Answered
<1>4. Writing' = Writing /\ p \notin Writing
  BY <1>2, <1>3 DEF Writing
<1> QED
  BY <1>2, <1>4, BatchIsLeft

\* A failed batch is counted, and nothing is added.
LEMMA FailedDoes ==
  ASSUME Typed, NEW p \in Procs, Failed(p)
  PROVE  \E b \in SUBSET proc[p].left :
            /\ proc'[p].left = proc[p].left \ b /\ proc'[p].failed = proc[p].failed + 1
            /\ proc'[p].at = proc[p].at /\ proc'[p].wanted = proc[p].wanted
            /\ proc'[p].result = proc[p].result /\ proc'[p].got = proc[p].got
            /\ proc'[p].cache = proc[p].cache /\ proc'[p].behind = proc[p].behind
            /\ \A q \in Procs \ {p} : proc'[q] = proc[q]
            /\ Writing' = Writing /\ p \notin Writing
<1>1. PICK b \in Batches(p) :
         proc' = [proc EXCEPT ![p].left = @ \ b, ![p].failed = @ + 1]
  BY DEF Failed
<1>2. /\ proc'[p].left = proc[p].left \ b /\ proc'[p].failed = proc[p].failed + 1
      /\ proc'[p].at = proc[p].at /\ proc'[p].wanted = proc[p].wanted
      /\ proc'[p].result = proc[p].result /\ proc'[p].got = proc[p].got
      /\ proc'[p].cache = proc[p].cache /\ proc'[p].behind = proc[p].behind
      /\ \A q \in Procs \ {p} : proc'[q] = proc[q]
  BY <1>1 DEF Typed, LookupRecords
<1>3. proc[p].at = "asking"
  BY DEF Failed
<1>4. Writing' = Writing /\ p \notin Writing
  BY <1>2, <1>3 DEF Writing
<1> QED
  BY <1>2, <1>4, BatchIsLeft

\* A lookup that starts to write meets the other writers.
LEMMA TruncateDoes ==
  ASSUME Typed, NEW p \in Procs, Truncate(p)
  PROVE  /\ proc' \in [Procs -> LookupRecords]
         /\ Writing' = Writing \cup {p} /\ p \notin Writing
         /\ proc'[p].at = "writing" /\ (proc'[p].clash => Writing # {})
         /\ \A q \in Procs :
               /\ proc'[q].wanted = proc[q].wanted /\ proc'[q].left = proc[q].left
               /\ proc'[q].result = proc[q].result /\ proc'[q].got = proc[q].got
               /\ proc'[q].cache = proc[q].cache /\ proc'[q].behind = proc[q].behind
               /\ proc'[q].failed = proc[q].failed
               /\ q # p => proc'[q].at = proc[q].at
<1>0. p \notin Writing /\ Writing \subseteq Procs
  BY DEF Writing, Truncate
<1>1. /\ proc'[p] = [proc[p] EXCEPT !.at = "writing", !.clash = Writing # {}]
      /\ \A q \in Writing : proc'[q] = Clashed(proc[q])
      /\ \A q \in Procs \ (Writing \cup {p}) : proc'[q] = proc[q]
  BY <1>0 DEF Truncate, Clashed
<1>c. PICK clash \in BOOLEAN : proc'[p] = Started(proc[p], clash) /\ (clash => Writing # {})
  <2>1. CASE Writing = {}
    <3>1. (Writing # {}) = FALSE
      BY <2>1
    <3> QED
      BY <1>1, <2>1, <3>1 DEF Started
  <2>2. CASE Writing # {}
    <3>1. (Writing # {}) = TRUE
      BY <2>2
    <3> QED
      BY <1>1, <2>2, <3>1 DEF Started
  <2> QED
    BY <2>1, <2>2
<1>2. /\ proc'[p].at = "writing" /\ (proc'[p].clash => Writing # {})
      /\ proc'[p].wanted = proc[p].wanted /\ proc'[p].left = proc[p].left
      /\ proc'[p].result = proc[p].result /\ proc'[p].got = proc[p].got
      /\ proc'[p].cache = proc[p].cache /\ proc'[p].behind = proc[p].behind
      /\ proc'[p].failed = proc[p].failed
  BY <1>c, StartedFields DEF Typed
<1>3. ASSUME NEW q \in Writing
      PROVE /\ proc'[q].at = proc[q].at /\ proc'[q].wanted = proc[q].wanted
            /\ proc'[q].left = proc[q].left /\ proc'[q].result = proc[q].result
            /\ proc'[q].got = proc[q].got /\ proc'[q].cache = proc[q].cache
            /\ proc'[q].behind = proc[q].behind /\ proc'[q].failed = proc[q].failed
  BY <1>0, <1>1, ClashedFields DEF Typed
<1>4. \A q \in Procs \ {p} : proc'[q].at = proc[q].at
  BY <1>1, <1>3
<1>5. Writing' = Writing \cup {p}
  BY <1>2, <1>4 DEF Writing
<1>6. proc' \in [Procs -> LookupRecords]
  <2>1. \A q \in Procs : proc'[q] \in LookupRecords
    BY <1>0, <1>1, <1>c, StartedFields, ClashedFields DEF Typed
  <2>2. proc' = [q \in Procs |-> proc'[q]]
    BY DEF Truncate
  <2> QED
    BY <2>1, <2>2
<1> QED
  BY <1>0, <1>1, <1>2, <1>3, <1>5, <1>6

\* A write leaves everybody else's map behind.
LEMMA WriteDoes ==
  ASSUME Typed, NEW p \in Procs, Write(p)
  PROVE  /\ Writing' = Writing \ {p} /\ p \in Writing
         /\ proc'[p].at = "returned"
         /\ \A q \in Procs :
               /\ proc'[q].wanted = proc[q].wanted /\ proc'[q].left = proc[q].left
               /\ proc'[q].result = proc[q].result /\ proc'[q].got = proc[q].got
               /\ proc'[q].cache = proc[q].cache /\ proc'[q].failed = proc[q].failed
               /\ q # p => /\ proc'[q].at = proc[q].at
                           /\ Active(q) => proc'[q].behind
<1>1. /\ proc'[p] = Ended(proc[p])
      /\ \A q \in Procs \ {p} :
            proc'[q] = IF Active(q) THEN Outdated(proc[q]) ELSE proc[q]
  BY DEF Write, Returned, Active, Typed, Ended, Outdated
<1>2. /\ proc'[p].at = "returned"
      /\ proc'[p].wanted = proc[p].wanted /\ proc'[p].left = proc[p].left
      /\ proc'[p].result = proc[p].result /\ proc'[p].got = proc[p].got
      /\ proc'[p].cache = proc[p].cache /\ proc'[p].failed = proc[p].failed
  BY <1>1, EndedFields DEF Typed
<1>3. ASSUME NEW q \in Procs \ {p}
      PROVE  /\ Active(q) => proc'[q].behind
             /\ proc'[q].at = proc[q].at /\ proc'[q].wanted = proc[q].wanted
             /\ proc'[q].left = proc[q].left /\ proc'[q].result = proc[q].result
             /\ proc'[q].got = proc[q].got /\ proc'[q].cache = proc[q].cache
             /\ proc'[q].failed = proc[q].failed
  BY <1>1, OutdatedFields DEF Typed
<1>4. Writing' = Writing \ {p} /\ p \in Writing
  BY <1>2, <1>3 DEF Writing, Write
<1> QED
  BY <1>2, <1>3, <1>4

\* A lookup that ends without a write.
LEMMA ReturnDoes ==
  ASSUME Typed, NEW p \in Procs, proc[p].at = "asking", proc' = Returned(p)
  PROVE  /\ proc'[p].at = "returned"
         /\ proc'[p].wanted = proc[p].wanted /\ proc'[p].left = proc[p].left
         /\ proc'[p].result = proc[p].result /\ proc'[p].got = proc[p].got
         /\ proc'[p].cache = proc[p].cache /\ proc'[p].failed = proc[p].failed
         /\ \A q \in Procs \ {p} : proc'[q] = proc[q]
         /\ Writing' = Writing /\ p \notin Writing
<1>1. /\ proc'[p] = Ended(proc[p])
      /\ \A q \in Procs \ {p} : proc'[q] = proc[q]
  BY DEF Returned, Typed, Ended
<1>2. /\ proc'[p].at = "returned"
      /\ proc'[p].wanted = proc[p].wanted /\ proc'[p].left = proc[p].left
      /\ proc'[p].result = proc[p].result /\ proc'[p].got = proc[p].got
      /\ proc'[p].cache = proc[p].cache /\ proc'[p].failed = proc[p].failed
  BY <1>1, EndedFields DEF Typed
<1> QED
  BY <1>1, <1>2 DEF Writing

\* A process that dies forgets its lookup; no other process notices.
LEMMA DiesDoes ==
  ASSUME Typed, NEW p \in Procs, Dies(p)
  PROVE  proc'[p].at = "idle" /\ \A q \in Procs \ {p} : proc'[q] = proc[q]
<1>1. Rest.at = "idle"
  BY DEF Rest, Lookup
<1> QED
  BY <1>1 DEF Dies, Typed
-----------------------------------------------------------------------------
(* Every variable has its type.                                             *)

\* At first.
LEMMA TypedInit == Init => Typed
<1> SUFFICES ASSUME Init PROVE Typed
  OBVIOUS
<1>1. NoEntries \in [{} -> Nat]
  BY DEF NoEntries
<1>2. NoEntries \in Entries
  BY <1>1, EntriesOf
<1>3. Rest \in LookupRecords
  BY <1>2 DEF Rest, Lookup, LookupRecords
<1> QED
  BY <1>2, <1>3 DEF Init, Typed

\* Every step keeps the types.
LEMMA TypedStep == Typed /\ Traced /\ [Next]_vars => Typed'
<1> SUFFICES ASSUME Typed, Traced, [Next]_vars PROVE Typed'
  OBVIOUS
<1>1. CASE Tick
  BY <1>1, CacheAssumption DEF Tick, Typed
<1>2. ASSUME NEW p \in Procs, NEW cves \in Wants, Begin(p, cves) PROVE Typed'
  <2>1. cves \in SUBSET Cves /\ Loaded \in Entries
    BY LoadedType, CacheAssumption
  <2>2. Lookup("asking", cves, cves \ Fresh(Loaded), Loaded,
               cves \cap Fresh(Loaded), {}, 0, FALSE, FALSE) \in LookupRecords
    BY <2>1 DEF Lookup, LookupRecords
  <2> QED
    BY <1>2, <2>2 DEF Begin, Typed
<1>3. ASSUME NEW p \in Procs, Answered(p) PROVE Typed'
  <2>1. PICK b \in Batches(p) :
           proc' = [proc EXCEPT ![p].left = @ \ b,
                                ![p].result = @ \cup (b \cap Scored),
                                ![p].got = @ \cup (b \cap Scored),
                                ![p].cache = With(@, b \cap Scored)]
    BY <1>3 DEF Answered
  <2>2. b \cap Scored \in SUBSET Cves
    BY CacheAssumption
  <2>3. With(proc[p].cache, b \cap Scored) \in Entries
    BY <2>2, WithType DEF Typed, LookupRecords
  <2>4. proc' \in [Procs -> LookupRecords]
    <3> DEFINE r == proc[p]
    <3>1. [r EXCEPT !.left = @ \ b, !.result = @ \cup (b \cap Scored),
                    !.got = @ \cup (b \cap Scored), !.cache = With(@, b \cap Scored)]
             \in LookupRecords
      BY <2>2, <2>3 DEF Typed, LookupRecords
    <3> QED
      BY <2>1, <3>1 DEF Typed
  <2> QED
    BY <1>3, <2>4 DEF Answered, Typed
<1>4. ASSUME NEW p \in Procs, Failed(p) PROVE Typed'
  <2>1. proc' \in [Procs -> LookupRecords]
    BY <1>4 DEF Failed, Typed, LookupRecords
  <2> QED
    BY <1>4, <2>1 DEF Failed, Typed
<1>5. ASSUME NEW p \in Procs, Truncate(p) PROVE Typed'
  <2>1. proc' \in [Procs -> LookupRecords]
    BY <1>5, TruncateDoes
  <2> QED
    BY <1>5, <2>1 DEF Truncate, Typed
<1>r. ASSUME NEW p \in Procs PROVE Returned(p) \in [Procs -> LookupRecords]
  BY DEF Returned, Typed, LookupRecords
<1>6. ASSUME NEW p \in Procs, Write(p) PROVE Typed'
  <2>1. proc[p].at = "writing"
    BY <1>6 DEF Write
  <2>2. Returning(p) \in Entries
    BY <2>1, ReturningType DEF Traced, Active
  <2>3. proc[p].cache \in Entries
    BY DEF Typed, LookupRecords
  <2>4. proc' \in [Procs -> LookupRecords]
    <3>1. \A q \in Procs : [proc[q] EXCEPT !.behind = TRUE] \in LookupRecords
      BY DEF Typed, LookupRecords
    <3> QED
      BY <1>6, <1>r, <3>1 DEF Write
  <2>5. torn' \in BOOLEAN /\ lossy' \in BOOLEAN
    BY <1>6 DEF Write, Typed
  <2> QED
    BY <1>6, <2>2, <2>3, <2>4, <2>5 DEF Write, Written, Typed
<1>7. ASSUME NEW p \in Procs, NothingToSave(p) PROVE Typed'
  BY <1>7, <1>r DEF NothingToSave, Typed
<1>8. ASSUME NEW p \in Procs, DeadlineWhileWaiting(p) PROVE Typed'
  <2>1. Returning(p) \in Entries
    BY <1>8, ReturningType DEF DeadlineWhileWaiting, Traced, Active
  <2> QED
    BY <1>8, <1>r, <2>1 DEF DeadlineWhileWaiting, Typed
<1>9. ASSUME NEW p \in Procs, Dies(p) PROVE Typed'
  <2>1. Rest \in LookupRecords
    BY LoadedType DEF Rest, Lookup, LookupRecords
  <2> QED
    BY <1>9, <2>1 DEF Dies, Typed
<1>10. CASE UNCHANGED vars
  BY <1>10 DEF vars, Typed
<1> QED
  BY <1>1, <1>2, <1>3, <1>4, <1>5, <1>6, <1>7, <1>8, <1>9, <1>10 DEF Next, Step

-----------------------------------------------------------------------------
(* No CVE with a score is lost but by a failed request.                     *)

\* At first.
LEMMA AskedInit == Init => Asked
BY DEF Init, Asked, Rest, Lookup

\* A step settles what it takes from the CVEs left, or counts a failure.
LEMMA AskedStep == Typed /\ Asked /\ [Next]_vars => Asked'
<1> SUFFICES ASSUME Typed, Asked, [Next]_vars PROVE Asked'
  OBVIOUS
<1> DEFINE OK(q) == /\ proc[q].at # "idle" /\ proc[q].failed = 0
                          => proc[q].wanted \cap Scored \subseteq proc[q].result \cup proc[q].left
                    /\ proc[q].at = "writing" \/ (proc[q].at = "returned" /\ source = "epss")
                          => proc[q].left = {}
\* A lookup that does not move keeps what holds of it.
<1>u. ASSUME NEW q \in Procs, source' = source,
             proc'[q].at = proc[q].at, proc'[q].wanted = proc[q].wanted,
             proc'[q].left = proc[q].left, proc'[q].result = proc[q].result,
             proc'[q].failed = proc[q].failed
      PROVE  OK(q)'
  BY <1>u DEF Asked
<1>0. (\A q \in Procs : OK(q)') => Asked'
  BY DEF Asked
<1>1. CASE Tick
  BY <1>1 DEF Tick, Asked
<1>2. ASSUME NEW p \in Procs, NEW cves \in Wants, Begin(p, cves) PROVE Asked'
  <2>1. source' = source /\ \A q \in Procs \ {p} : proc'[q] = proc[q]
    BY <1>2, BeginDoes DEF Begin
  <2>2. OK(p)'
    <3>1. /\ proc'[p].at = "asking" /\ proc'[p].wanted = cves
          /\ proc'[p].result = cves \cap Fresh(Loaded) /\ proc'[p].left = cves \ Fresh(Loaded)
      BY <1>2, BeginDoes
    <3> QED
      BY <3>1
  <2> QED
    BY <1>0, <1>u, <2>1, <2>2
<1>3. ASSUME NEW p \in Procs, Answered(p) PROVE Asked'
  <2>1. source' = source /\ \A q \in Procs \ {p} : proc'[q] = proc[q]
    BY <1>3, AnsweredDoes DEF Answered
  <2>2. OK(p)'
    BY <1>3, AnsweredDoes DEF Answered, Asked
  <2> QED
    BY <1>0, <1>u, <2>1, <2>2
<1>4. ASSUME NEW p \in Procs, Failed(p) PROVE Asked'
  <2>1. source' = source /\ \A q \in Procs \ {p} : proc'[q] = proc[q]
    BY <1>4, FailedDoes DEF Failed
  <2>2. proc'[p].failed # 0 /\ proc'[p].at = "asking"
    <3>1. proc'[p].failed = proc[p].failed + 1 /\ proc'[p].at = proc[p].at
      BY <1>4, FailedDoes
    <3>2. proc[p].failed \in Nat
      BY DEF Typed, LookupRecords
    <3> QED
      BY <1>4, <3>1, <3>2 DEF Failed
  <2> QED
    BY <1>0, <1>u, <2>1, <2>2
<1>5. ASSUME NEW p \in Procs, Truncate(p) PROVE Asked'
  <2>1. source' = source /\ \A q \in Procs \ {p} : OK(q)'
    BY <1>5, TruncateDoes, <1>u DEF Truncate
  <2>2. OK(p)'
    BY <1>5, TruncateDoes DEF Truncate, Asked
  <2> QED
    BY <1>0, <2>1, <2>2
<1>6. ASSUME NEW p \in Procs, Write(p) PROVE Asked'
  <2>1. source' = source /\ \A q \in Procs \ {p} : OK(q)'
    BY <1>6, WriteDoes, <1>u DEF Write
  <2>2. OK(p)'
    <3>1. proc'[p].wanted = proc[p].wanted /\ proc'[p].result = proc[p].result
      BY <1>6, WriteDoes
    <3>2. /\ proc'[p].left = proc[p].left /\ proc'[p].failed = proc[p].failed
          /\ proc[p].at = "writing"
      BY <1>6, WriteDoes DEF Write
    <3> QED
      BY <3>1, <3>2 DEF Asked
  <2> QED
    BY <1>0, <2>1, <2>2
<1>7. ASSUME NEW p \in Procs, NothingToSave(p) PROVE Asked'
  <2>1. source' = source /\ \A q \in Procs \ {p} : proc'[q] = proc[q]
    BY <1>7, ReturnDoes DEF NothingToSave
  <2>2. OK(p)'
    BY <1>7, ReturnDoes DEF NothingToSave, Asked
  <2> QED
    BY <1>0, <1>u, <2>1, <2>2
<1>8. ASSUME NEW p \in Procs, DeadlineWhileWaiting(p) PROVE Asked'
  <2>1. source' = source /\ source # "epss" /\ \A q \in Procs \ {p} : proc'[q] = proc[q]
    BY <1>8, ReturnDoes DEF DeadlineWhileWaiting
  <2>2. OK(p)'
    BY <1>8, <2>1, ReturnDoes DEF DeadlineWhileWaiting, Asked
  <2> QED
    BY <1>0, <1>u, <2>1, <2>2
<1>9. ASSUME NEW p \in Procs, Dies(p) PROVE Asked'
  <2>1. source' = source /\ \A q \in Procs \ {p} : proc'[q] = proc[q]
    BY <1>9, DiesDoes DEF Dies
  <2>2. proc'[p].at = "idle"
    BY <1>9, DiesDoes
  <2> QED
    BY <1>0, <1>u, <2>1, <2>2
<1>10. CASE UNCHANGED vars
  BY <1>10 DEF vars, Asked
<1> QED
  BY <1>1, <1>2, <1>3, <1>4, <1>5, <1>6, <1>7, <1>8, <1>9, <1>10 DEF Next, Step
-----------------------------------------------------------------------------
(* Where the entries come from.                                             *)

\* The history only grows, and takes what the lookup that returns fetched.
LEMMA ReturningGrows ==
  ASSUME Typed, Traced, NEW p \in Procs, Active(p)
  PROVE  /\ DOMAIN Returning(p) = DOMAIN fetched \cup proc[p].got
         /\ \A c \in DOMAIN fetched : fetched[c] <= Returning(p)[c]
         /\ \A c \in DOMAIN fetched \ proc[p].got : Returning(p)[c] = fetched[c]
         /\ \A c \in proc[p].got :
               \/ Returning(p)[c] = proc[p].cache[c]
               \/ /\ c \in DOMAIN fetched /\ proc[p].cache[c] < fetched[c]
                  /\ Returning(p)[c] = fetched[c]
         /\ \A c \in proc[p].got : proc[p].cache[c] <= Returning(p)[c]
         /\ \A c \in DOMAIN Returning(p) : Returning(p)[c] <= clock
<1>1. proc[p].cache \in Entries /\ fetched \in Entries /\ clock \in Nat
  BY DEF Typed, LookupRecords
<1>2. /\ proc[p].got \subseteq DOMAIN proc[p].cache
      /\ \A c \in proc[p].got : proc[p].cache[c] \in Nat /\ proc[p].cache[c] <= clock
      /\ \A c \in DOMAIN fetched : fetched[c] \in Nat /\ fetched[c] <= clock
  BY <1>1, EntriesAre DEF Traced
<1> QED
  BY <1>1, <1>2 DEF Returning

\* The entries of a lookup are numbers.
LEMMA EntriesNat ==
  ASSUME Typed
  PROVE  /\ \A c \in DOMAIN file : file[c] \in Nat
         /\ \A c \in DOMAIN fetched : fetched[c] \in Nat
         /\ \A q \in Procs : \A c \in DOMAIN proc[q].cache : proc[q].cache[c] \in Nat
<1>1. file \in Entries /\ fetched \in Entries /\ \A q \in Procs : proc[q].cache \in Entries
  BY DEF Typed, LookupRecords
<1> QED
  BY <1>1, EntriesAre

\* At first.
LEMMA TracedInit == Init => Traced
BY DEF Init, Traced, Active, Rest, Lookup, NoEntries

\* Every step that adds an entry adds one fetched or loaded.
LEMMA TracedStep == Typed /\ Traced /\ Typed' /\ [Next]_vars => Traced'
<1> SUFFICES ASSUME Typed, Traced, Typed', [Next]_vars PROVE Traced'
  OBVIOUS
<1> DEFINE OK(q) ==
      Active(q) =>
          /\ proc[q].got \subseteq DOMAIN proc[q].cache
          /\ \A c \in proc[q].got : proc[q].cache[c] <= clock
          /\ \A c \in DOMAIN proc[q].cache \ proc[q].got :
                c \in DOMAIN fetched /\ proc[q].cache[c] <= fetched[c]
           Grows == /\ clock <= clock'
                    /\ \A c \in DOMAIN fetched : c \in DOMAIN fetched' /\ fetched[c] <= fetched'[c]
           Filed == /\ \A c \in DOMAIN fetched : fetched[c] <= clock
                    /\ \A c \in DOMAIN file : c \in DOMAIN fetched /\ file[c] <= fetched[c]
<1>n. /\ clock \in Nat /\ clock' \in Nat
      /\ \A c \in DOMAIN fetched : fetched[c] \in Nat
      /\ \A c \in DOMAIN fetched' : fetched'[c] \in Nat
      /\ \A c \in DOMAIN file : file[c] \in Nat
      /\ \A q \in Procs : \A c \in DOMAIN proc[q].cache : proc[q].cache[c] \in Nat
  <2>1. file \in Entries /\ fetched \in Entries /\ fetched' \in Entries
    BY DEF Typed
  <2>2. \A q \in Procs : proc[q].cache \in Entries
    BY DEF Typed, LookupRecords
  <2> QED
    BY <2>1, <2>2, EntriesAre DEF Typed
\* A lookup that does not move keeps what holds of it.
<1>u. ASSUME NEW q \in Procs, Grows, proc'[q].at = proc[q].at,
             proc'[q].got = proc[q].got, proc'[q].cache = proc[q].cache
      PROVE  OK(q)'
  <2>1. OK(q)
    BY DEF Traced
  <2> QED
    BY <1>u, <1>n, <2>1 DEF Active
<1>0. Filed' /\ (\A q \in Procs : OK(q)') => Traced'
  BY DEF Traced
<1>g. clock' = clock /\ fetched' = fetched => Grows
  BY <1>n
<1>f. clock' = clock /\ fetched' = fetched /\ file' = file => Filed'
  BY DEF Traced
<1>1. CASE Tick
  <2>1. Grows /\ proc' = proc
    BY <1>1, <1>n DEF Tick
  <2>2. Filed'
    BY <1>1, <1>n DEF Tick, Traced
  <2> QED
    BY <1>0, <1>u, <2>1, <2>2
<1>2. ASSUME NEW p \in Procs, NEW cves \in Wants, Begin(p, cves) PROVE Traced'
  <2>1. /\ clock' = clock /\ fetched' = fetched /\ file' = file
        /\ proc'[p].cache = Loaded /\ proc'[p].got = {}
        /\ \A q \in Procs \ {p} : proc'[q] = proc[q]
    BY <1>2, BeginDoes DEF Begin
  <2>2. \A c \in DOMAIN Loaded : c \in DOMAIN fetched /\ Loaded[c] <= fetched[c]
    BY DEF Loaded, NoEntries, Traced
  <2>3. OK(p)'
    BY <2>1, <2>2
  <2> QED
    BY <1>0, <1>f, <1>g, <1>u, <2>1, <2>3
<1>3. ASSUME NEW p \in Procs, Answered(p) PROVE Traced'
  <2>1. /\ clock' = clock /\ fetched' = fetched /\ file' = file /\ proc[p].at = "asking"
        /\ \A q \in Procs \ {p} : proc'[q] = proc[q]
    BY <1>3, AnsweredDoes DEF Answered
  <2>2. PICK b \in SUBSET proc[p].left :
           /\ proc'[p].got = proc[p].got \cup (b \cap Scored)
           /\ proc'[p].cache = With(proc[p].cache, b \cap Scored)
    BY <1>3, AnsweredDoes
  <2>3. OK(p) /\ Active(p)
    BY <2>1 DEF Traced, Active
  <2>4. OK(p)'
    BY <1>n, <2>1, <2>2, <2>3 DEF With
  <2> QED
    BY <1>0, <1>f, <1>g, <1>u, <2>1, <2>4
<1>4. ASSUME NEW p \in Procs, Failed(p) PROVE Traced'
  <2>1. /\ clock' = clock /\ fetched' = fetched /\ file' = file
        /\ proc'[p].at = proc[p].at /\ proc'[p].got = proc[p].got
        /\ proc'[p].cache = proc[p].cache
        /\ \A q \in Procs \ {p} : proc'[q] = proc[q]
    BY <1>4, FailedDoes DEF Failed
  <2> QED
    BY <1>0, <1>f, <1>g, <1>u, <2>1
<1>5. ASSUME NEW p \in Procs, Truncate(p) PROVE Traced'
  <2>1. /\ clock' = clock /\ fetched' = fetched /\ file' = file /\ proc[p].at = "asking"
        /\ \A q \in Procs : /\ proc'[q].got = proc[q].got /\ proc'[q].cache = proc[q].cache
                            /\ q # p => proc'[q].at = proc[q].at
    BY <1>5, TruncateDoes DEF Truncate
  <2>2. OK(p) /\ Active(p)
    BY <2>1 DEF Traced, Active
  <2>3. OK(p)'
    BY <2>1, <2>2
  <2> QED
    BY <1>0, <1>f, <1>g, <1>u, <2>1, <2>3
<1>6. ASSUME NEW p \in Procs, Write(p) PROVE Traced'
  <2>1. /\ clock' = clock /\ fetched' = Returning(p) /\ file' = proc[p].cache
        /\ proc[p].at = "writing"
    BY <1>6 DEF Write, Written
  <2>2. Active(p)
    BY <2>1 DEF Active
  <2>3. /\ proc'[p].at = "returned"
        /\ \A q \in Procs \ {p} :
              /\ proc'[q].at = proc[q].at
              /\ proc'[q].got = proc[q].got /\ proc'[q].cache = proc[q].cache
    BY <1>6, WriteDoes
  <2>4. Grows
    <3>1. \A c \in DOMAIN fetched : c \in DOMAIN fetched' /\ fetched[c] <= fetched'[c]
      BY <2>1, <2>2, ReturningGrows
    <3>2. clock <= clock'
      BY <1>n, <2>1
    <3> QED
      BY <3>1, <3>2
  <2>5. Filed'
    <3>1. \A c \in DOMAIN fetched' : fetched'[c] <= clock'
      BY <2>1, <2>2, ReturningGrows
    <3>2. ASSUME NEW c \in DOMAIN file' PROVE c \in DOMAIN fetched' /\ file'[c] <= fetched'[c]
      <4>1. CASE c \in proc[p].got
        BY <2>1, <2>2, <4>1, ReturningGrows
      <4>2. CASE c \notin proc[p].got
        <5>1. c \in DOMAIN fetched /\ proc[p].cache[c] <= fetched[c]
          BY <2>1, <2>2, <3>2, <4>2 DEF Traced
        <5> QED
          BY <2>1, <2>2, <4>2, <5>1, ReturningGrows
      <4> QED
        BY <4>1, <4>2
    <3> QED
      BY <3>1, <3>2
  <2>6. OK(p)'
    BY <2>3 DEF Active
  <2>7. ASSUME NEW q \in Procs \ {p} PROVE OK(q)'
    BY <1>u, <2>3, <2>4
  <2> QED
    BY <1>0, <2>5, <2>6, <2>7
<1>7. ASSUME NEW p \in Procs, NothingToSave(p) PROVE Traced'
  <2>1. /\ clock' = clock /\ fetched' = fetched /\ file' = file /\ proc'[p].at = "returned"
        /\ \A q \in Procs \ {p} : proc'[q] = proc[q]
    BY <1>7, ReturnDoes DEF NothingToSave
  <2>2. OK(p)'
    BY <2>1 DEF Active
  <2> QED
    BY <1>0, <1>f, <1>g, <1>u, <2>1, <2>2
<1>8. ASSUME NEW p \in Procs, DeadlineWhileWaiting(p) PROVE Traced'
  <2>1. /\ clock' = clock /\ fetched' = Returning(p) /\ file' = file
        /\ proc'[p].at = "returned" /\ \A q \in Procs \ {p} : proc'[q] = proc[q]
    BY <1>8, ReturnDoes DEF DeadlineWhileWaiting
  <2>2. Active(p)
    BY <1>8 DEF DeadlineWhileWaiting, Active
  <2>3. Grows
    <3>1. \A c \in DOMAIN fetched : c \in DOMAIN fetched' /\ fetched[c] <= fetched'[c]
      BY <2>1, <2>2, ReturningGrows
    <3>2. clock <= clock'
      BY <1>n, <2>1
    <3> QED
      BY <3>1, <3>2
  <2>4. Filed'
    <3>1. \A c \in DOMAIN fetched' : fetched'[c] <= clock'
      BY <2>1, <2>2, ReturningGrows
    <3>2. \A c \in DOMAIN file : c \in DOMAIN fetched /\ file[c] <= fetched[c]
      BY DEF Traced
    <3> QED
      BY <1>n, <2>1, <2>3, <3>1, <3>2
  <2>5. OK(p)'
    BY <2>1 DEF Active
  <2> QED
    BY <1>0, <1>u, <2>1, <2>3, <2>4, <2>5
<1>9. ASSUME NEW p \in Procs, Dies(p) PROVE Traced'
  <2>1. /\ clock' = clock /\ fetched' = fetched /\ file' = file /\ proc'[p].at = "idle"
        /\ \A q \in Procs \ {p} : proc'[q] = proc[q]
    BY <1>9, DiesDoes DEF Dies
  <2>2. OK(p)'
    BY <2>1 DEF Active
  <2> QED
    BY <1>0, <1>f, <1>g, <1>u, <2>1, <2>2
<1>10. CASE UNCHANGED vars
  BY <1>10 DEF vars, Traced, Active
<1> QED
  BY <1>1, <1>2, <1>3, <1>4, <1>5, <1>6, <1>7, <1>8, <1>9, <1>10 DEF Next, Step
-----------------------------------------------------------------------------
(* What was fetched stays in the file.                                      *)

\* At first nothing was fetched.
LEMMA KeptInit == Init => Kept
BY DEF Init, Kept, InFile, NoEntries, Active, Rest, Lookup

\* The write of a map that is up to date: the file has what was fetched, or
\* another writer is behind now.
LEMMA KeptWrite ==
  ASSUME Typed, Traced, Kept, NEW p \in Procs, Write(p)
  PROVE  Kept'
<1> SUFFICES ASSUME ~lossy' PROVE Kept'
  BY DEF Kept
<1>1. /\ file' = proc[p].cache /\ fetched' = Returning(p) /\ proc[p].at = "writing"
      /\ ~lossy /\ ~proc[p].behind
      /\ torn' => proc[p].clash
  BY DEF Write, Written
<1>2. Active(p) /\ p \in Writing /\ UpToDate(p)
  BY <1>1 DEF Active, Writing, Kept
<1>3. /\ Writing' = Writing \ {p} /\ proc'[p].at = "returned"
      /\ \A q \in Procs \ {p} : proc'[q].at = proc[q].at /\ (Active(q) => proc'[q].behind)
  BY WriteDoes
<1>4. \A q \in Procs : Active(q)' => proc'[q].behind
  BY <1>3 DEF Active
<1>5. CASE OtherWriter(p)
  <2>1. PICK q \in Writing : q # p
    BY <1>5 DEF OtherWriter
  <2>2. q \in Writing' /\ proc'[q].behind
    BY <1>3, <2>1 DEF Writing, Active
  <2> QED
    BY <1>4, <2>2 DEF Kept
<1>6. CASE ~OtherWriter(p)
  <2>1. Covers(p) /\ ~proc[p].clash /\ ~torn'
    BY <1>1, <1>2, <1>6 DEF UpToDate
  <2>2. InFile
    BY <1>1, <1>6 DEF Kept, OtherWriter
  <2>3. /\ proc[p].got \subseteq DOMAIN proc[p].cache
        /\ \A c \in DOMAIN fetched : fetched[c] \in Nat
        /\ \A c \in DOMAIN proc[p].cache : proc[p].cache[c] \in Nat
    BY <1>2, EntriesNat DEF Traced
  <2>4. ASSUME NEW c \in DOMAIN fetched'
        PROVE  c \in DOMAIN file' /\ fetched'[c] <= file'[c]
    <3>1. c \in DOMAIN fetched \cup proc[p].got
      BY <1>1, <1>2, ReturningGrows
    <3>2. CASE c \in proc[p].got
      <4>1. c \in DOMAIN fetched => fetched[c] <= proc[p].cache[c]
        BY <1>2, <3>2 DEF UpToDate
      <4>2. \/ fetched'[c] = proc[p].cache[c]
            \/ c \in DOMAIN fetched /\ fetched'[c] = fetched[c]
        BY <1>1, <1>2, <3>2, ReturningGrows
      <4> QED
        BY <1>1, <2>3, <3>2, <4>1, <4>2
    <3>3. CASE c \notin proc[p].got
      <4>1. c \in DOMAIN fetched /\ fetched'[c] = fetched[c]
        BY <1>1, <1>2, <3>1, <3>3, ReturningGrows
      <4>2. c \in DOMAIN file /\ fetched[c] <= file[c]
        BY <2>2, <4>1 DEF InFile
      <4>3. c \in DOMAIN proc[p].cache /\ proc[p].cache[c] = file[c]
        BY <2>1, <3>3, <4>2 DEF Covers
      <4> QED
        BY <1>1, <4>1, <4>2, <4>3
    <3> QED
      BY <3>2, <3>3
  <2>5. InFile'
    BY <2>4 DEF InFile
  <2> QED
    BY <1>4, <2>1, <2>5 DEF Kept
<1> QED
  BY <1>5, <1>6

\* Every step keeps what was fetched in the file, or says it may be lost.
LEMMA KeptStep == Typed /\ Traced /\ Kept /\ [Next]_vars => Kept'
<1> SUFFICES ASSUME Typed, Traced, Kept, [Next]_vars PROVE Kept'
  OBVIOUS
\* A step that leaves the file and the history alone.
<1>q. ASSUME file' = file, fetched' = fetched, lossy' = lossy, Writing \subseteq Writing',
             torn' => torn \/ Writing' # {},
             \A q \in Writing : proc'[q].behind = proc[q].behind,
             ~lossy => \A q \in Procs : Active(q)' /\ ~proc'[q].behind => UpToDate(q)'
      PROVE  Kept'
  <2> SUFFICES ASSUME ~lossy PROVE Kept'
    BY <1>q DEF Kept
  <2>1. torn' => Writing' # {}
    BY <1>q DEF Kept
  <2>2. InFile' \/ \E q \in Writing' : proc'[q].behind
    BY <1>q DEF Kept, InFile
  <2> QED
    BY <1>q, <2>1, <2>2 DEF Kept
\* A lookup that does not move, while others may start to write.
<1>u. ASSUME file' = file, fetched' = fetched, Writing \subseteq Writing', ~lossy,
             NEW q \in Procs, proc'[q].at = proc[q].at, proc'[q].got = proc[q].got,
             proc'[q].cache = proc[q].cache, proc'[q].behind = proc[q].behind,
             q \in Writing /\ proc'[q].clash => proc[q].clash \/ OtherWriter(q)'
      PROVE  Active(q)' /\ ~proc'[q].behind => UpToDate(q)'
  <2> SUFFICES ASSUME Active(q)', ~proc'[q].behind PROVE UpToDate(q)'
    OBVIOUS
  <2>1. UpToDate(q)
    BY <1>u DEF Kept, Active
  <2>2. OtherWriter(q) => OtherWriter(q)'
    BY <1>u DEF OtherWriter
  <2>3. q \in Writing' => q \in Writing
    BY <1>u DEF Writing
  <2>4. Covers(q) => Covers(q)'
    BY <1>u DEF Covers
  <2> QED
    BY <1>u, <2>1, <2>2, <2>3, <2>4 DEF UpToDate
<1>1. CASE Tick
  <2>1. /\ file' = file /\ fetched' = fetched /\ lossy' = lossy /\ torn' = torn
        /\ proc' = proc /\ Writing' = Writing
    BY <1>1 DEF Tick, Writing
  <2> QED
    BY <1>q, <1>u, <2>1
<1>2. ASSUME NEW p \in Procs, NEW cves \in Wants, Begin(p, cves) PROVE Kept'
  <2>1. /\ file' = file /\ fetched' = fetched /\ lossy' = lossy /\ torn' = torn
        /\ Writing' = Writing /\ p \notin Writing
        /\ proc'[p].cache = Loaded /\ proc'[p].got = {}
        /\ \A q \in Procs \ {p} : proc'[q] = proc[q]
    BY <1>2, BeginDoes DEF Begin
  <2>2. ~lossy => UpToDate(p)'
    <3> SUFFICES ASSUME ~lossy PROVE UpToDate(p)'
      OBVIOUS
    <3>1. CASE torn
      <4>1. OtherWriter(p)'
        BY <2>1, <3>1 DEF Kept, OtherWriter
      <4> QED
        BY <2>1, <4>1 DEF UpToDate
    <3>2. CASE ~torn
      <4>1. Covers(p)'
        BY <2>1, <3>2 DEF Covers, Loaded
      <4> QED
        BY <2>1, <4>1 DEF UpToDate
    <3> QED
      BY <3>1, <3>2
  <2>3. \A q \in Writing : proc'[q].behind = proc[q].behind
    BY <2>1 DEF Writing
  <2>4. ASSUME ~lossy, NEW q \in Procs \ {p}
        PROVE  Active(q)' /\ ~proc'[q].behind => UpToDate(q)'
    BY <1>u, <2>1, <2>4
  <2> QED
    BY <1>q, <2>1, <2>2, <2>3, <2>4
<1>3. ASSUME NEW p \in Procs, Answered(p) PROVE Kept'
  <2>1. /\ file' = file /\ fetched' = fetched /\ lossy' = lossy /\ torn' = torn
        /\ Writing' = Writing /\ p \notin Writing /\ Active(p)
        /\ proc'[p].behind = proc[p].behind
        /\ \A q \in Procs \ {p} : proc'[q] = proc[q]
    BY <1>3, AnsweredDoes DEF Answered, Active
  <2>2. PICK b \in SUBSET proc[p].left :
           /\ proc'[p].got = proc[p].got \cup (b \cap Scored)
           /\ proc'[p].cache = With(proc[p].cache, b \cap Scored)
    BY <1>3, AnsweredDoes
  <2>3. ASSUME ~lossy, ~proc'[p].behind PROVE UpToDate(p)'
    <3>1. UpToDate(p)
      BY <2>1, <2>3 DEF Kept
    <3>2. OtherWriter(p) => OtherWriter(p)'
      BY <2>1 DEF OtherWriter
    <3>3. Covers(p) => Covers(p)'
      BY <2>1, <2>2 DEF Covers, With
    <3>4. \A c \in proc'[p].got \cap DOMAIN fetched : fetched[c] <= proc'[p].cache[c]
      <4>1. proc[p].got \subseteq DOMAIN proc[p].cache
        BY <2>1 DEF Traced
      <4>2. \A c \in DOMAIN fetched : fetched[c] <= clock
        BY DEF Traced
      <4>3. \A c \in proc[p].got \cap DOMAIN fetched : fetched[c] <= proc[p].cache[c]
        BY <3>1 DEF UpToDate
      <4> QED
        BY <2>2, <4>1, <4>2, <4>3 DEF With
    <3> QED
      BY <2>1, <3>1, <3>2, <3>3, <3>4 DEF UpToDate
  <2>4. \A q \in Writing : proc'[q].behind = proc[q].behind
    BY <2>1 DEF Writing
  <2>5. ASSUME ~lossy, NEW q \in Procs \ {p}
        PROVE  Active(q)' /\ ~proc'[q].behind => UpToDate(q)'
    BY <1>u, <2>1, <2>5
  <2> QED
    BY <1>q, <2>1, <2>3, <2>4, <2>5
<1>4. ASSUME NEW p \in Procs, Failed(p) PROVE Kept'
  <2>1. /\ file' = file /\ fetched' = fetched /\ lossy' = lossy /\ torn' = torn
        /\ Writing' = Writing /\ p \notin Writing
        /\ proc'[p].at = proc[p].at /\ proc'[p].got = proc[p].got
        /\ proc'[p].cache = proc[p].cache /\ proc'[p].behind = proc[p].behind
        /\ \A q \in Procs \ {p} : proc'[q] = proc[q]
    BY <1>4, FailedDoes DEF Failed
  <2>2. \A q \in Writing : proc'[q].behind = proc[q].behind
    BY <2>1 DEF Writing
  <2>3. ASSUME ~lossy, NEW q \in Procs
        PROVE  Active(q)' /\ ~proc'[q].behind => UpToDate(q)'
    BY <1>u, <2>1, <2>3
  <2> QED
    BY <1>q, <2>1, <2>2, <2>3
<1>5. ASSUME NEW p \in Procs, Truncate(p) PROVE Kept'
  <2>1. /\ file' = file /\ fetched' = fetched /\ lossy' = lossy
        /\ Writing' = Writing \cup {p} /\ p \notin Writing /\ Active(p)
    BY <1>5, TruncateDoes DEF Truncate, Active
  <2>2. /\ proc'[p].clash => Writing # {}
        /\ \A q \in Procs : /\ proc'[q].got = proc[q].got /\ proc'[q].cache = proc[q].cache
                            /\ proc'[q].behind = proc[q].behind
                            /\ q # p => proc'[q].at = proc[q].at
    BY <1>5, TruncateDoes
  <2>3. ASSUME ~lossy, ~proc'[p].behind PROVE UpToDate(p)'
    <3>1. UpToDate(p)
      BY <2>1, <2>2, <2>3 DEF Kept
    <3>2. /\ OtherWriter(p) => OtherWriter(p)'
          /\ Writing # {} => OtherWriter(p)'
      BY <2>1 DEF OtherWriter
    <3>3. Covers(p) => Covers(p)'
      BY <2>1, <2>2 DEF Covers
    <3> QED
      BY <2>1, <2>2, <3>1, <3>2, <3>3 DEF UpToDate
  <2>4. ASSUME ~lossy, NEW q \in Procs \ {p}
        PROVE  Active(q)' /\ ~proc'[q].behind => UpToDate(q)'
    <3>1. OtherWriter(q)'
      BY <2>1, <2>4 DEF OtherWriter
    <3> QED
      BY <1>u, <2>1, <2>2, <2>4, <3>1
  <2>5. \A q \in Writing : proc'[q].behind = proc[q].behind
    BY <2>2 DEF Writing
  <2> QED
    BY <1>q, <2>1, <2>2, <2>3, <2>4, <2>5
<1>6. ASSUME NEW p \in Procs, Write(p) PROVE Kept'
  BY <1>6, KeptWrite
<1>7. ASSUME NEW p \in Procs, NothingToSave(p) PROVE Kept'
  <2>1. /\ file' = file /\ fetched' = fetched /\ lossy' = lossy /\ torn' = torn
        /\ Writing' = Writing /\ p \notin Writing /\ proc'[p].at = "returned"
        /\ \A q \in Procs \ {p} : proc'[q] = proc[q]
    BY <1>7, ReturnDoes DEF NothingToSave
  <2>2. \A q \in Writing : proc'[q].behind = proc[q].behind
    BY <2>1 DEF Writing
  <2>3. ~Active(p)'
    BY <2>1 DEF Active
  <2>4. ASSUME ~lossy, NEW q \in Procs \ {p}
        PROVE  Active(q)' /\ ~proc'[q].behind => UpToDate(q)'
    BY <1>u, <2>1, <2>4
  <2> QED
    BY <1>q, <2>1, <2>2, <2>3, <2>4
<1>8. ASSUME NEW p \in Procs, DeadlineWhileWaiting(p) \/ Dies(p) PROVE Kept'
  BY <1>8 DEF DeadlineWhileWaiting, Dies, Kept
<1>9. CASE UNCHANGED vars
  <2>1. /\ file' = file /\ fetched' = fetched /\ lossy' = lossy /\ torn' = torn
        /\ proc' = proc /\ Writing' = Writing
    BY <1>9 DEF vars, Writing
  <2> QED
    BY <1>q, <1>u, <2>1
<1> QED
  BY <1>1, <1>2, <1>3, <1>4, <1>5, <1>6, <1>7, <1>8, <1>9 DEF Next, Step

-----------------------------------------------------------------------------
\* The inductive invariant the theorems rest on.
THEOREM Invariant == Spec => [](Typed /\ Asked /\ Traced /\ Kept)
<1> DEFINE Inv == Typed /\ Asked /\ Traced /\ Kept
<1>1. Init => Inv
  BY TypedInit, AskedInit, TracedInit, KeptInit
<1>2. Inv /\ [Next]_vars => Inv'
  BY TypedStep, AskedStep, TracedStep, KeptStep
<1> QED
  BY <1>1, <1>2, PTL DEF Spec

\* A lookup that calls itself a success has the score of every CVE that has one,
\* whatever the batches, the other processes and the file (enrichment.go:301-309).
THEOREM SuccessIsComplete == Spec => []SuccessMeansAll
<1>1. Asked => SuccessMeansAll
  BY DEF Asked, SuccessMeansAll, Success
<1> QED
  BY <1>1, Invariant, PTL

\* A score served from the file was fetched by a lookup that returned, less than
\* the TTL ago (enrichment.go:228-236), however the file was torn or clobbered.
THEOREM ServedIsFresh == Spec => ServedWasFetched
<1> DEFINE Served == \A p \in Procs, c \in Cves :
              proc[p].at # "asking" /\ proc'[p].at = "asking" /\ c \in proc'[p].result
              => c \in DOMAIN fetched /\ clock - fetched[c] < TTL
<1>1. Typed /\ Traced /\ [Next]_vars => [Served]_vars
  <2> SUFFICES ASSUME Typed, Traced, [Next]_vars, NEW p \in Procs, NEW c \in Cves,
                      proc[p].at # "asking", proc'[p].at = "asking", c \in proc'[p].result
               PROVE  c \in DOMAIN fetched /\ clock - fetched[c] < TTL
    OBVIOUS
  <2>1. PICK cves \in Wants : Begin(p, cves)
    <3>1. proc' # proc
      OBVIOUS
    <3>2. PICK q \in Procs : Step(q)
      BY <3>1 DEF Next, Tick, vars
    <3>3. (\E cves \in Wants : Begin(q, cves)) => q = p
      BY BeginDoes
    <3>4. ~Answered(q) /\ ~Failed(q)
      <4>1. Answered(q) => proc'[p].at = proc[p].at
        BY AnsweredDoes
      <4>2. Failed(q) => proc'[p].at = proc[p].at
        BY FailedDoes
      <4> QED
        BY <4>1, <4>2
    <3>5. ~Truncate(q) /\ ~Write(q)
      <4>1. Truncate(q) => proc'[p].at = proc[p].at \/ proc'[p].at = "writing"
        BY TruncateDoes
      <4>2. Write(q) => proc'[p].at = proc[p].at \/ proc'[p].at = "returned"
        BY WriteDoes
      <4> QED
        BY <4>1, <4>2
    <3>6. ~NothingToSave(q) /\ ~DeadlineWhileWaiting(q)
      BY ReturnDoes DEF NothingToSave, DeadlineWhileWaiting
    <3>7. ~Dies(q)
      BY DiesDoes
    <3> QED
      BY <3>2, <3>3, <3>4, <3>5, <3>6, <3>7 DEF Step
  <2>2. c \in Fresh(Loaded)
    BY <2>1, BeginDoes
  <2>3. c \in DOMAIN file /\ clock - file[c] < TTL
    BY <2>2 DEF Fresh, Loaded, NoEntries
  <2>4. c \in DOMAIN fetched /\ file[c] <= fetched[c]
    BY <2>3 DEF Traced
  <2>5. clock \in Nat /\ file[c] \in Nat /\ fetched[c] \in Nat /\ TTL \in Nat
    BY <2>3, <2>4, EntriesNat, CacheAssumption DEF Typed
  <2> QED
    BY <2>3, <2>4, <2>5
<1>2. Spec => [][Served]_vars
  BY <1>1, Invariant, PTL DEF Spec
<1> QED
  BY <1>2 DEF ServedWasFetched

\* What a lookup fetched is in the file when nobody writes it, unless a write met
\* a newer file, a process died writing or a deadline struck (enrichment.go:213-215).
THEOREM FetchedIsKept == Spec => []CacheKeepsFetched
<1>1. Typed /\ Kept => CacheKeepsFetched
  <2> SUFFICES ASSUME Typed, Kept, Writing = {}, ~lossy, NEW c \in DOMAIN fetched
               PROVE  ~torn /\ c \in DOMAIN file /\ file[c] >= fetched[c]
    BY DEF CacheKeepsFetched
  <2>1. ~torn /\ InFile
    BY DEF Kept
  <2>2. c \in DOMAIN file /\ fetched[c] <= file[c]
    BY <2>1 DEF InFile
  <2>3. file[c] \in Nat /\ fetched[c] \in Nat
    BY <2>2, EntriesNat
  <2> QED
    BY <2>1, <2>2, <2>3
<1> QED
  BY <1>1, Invariant, PTL
==============================================================================

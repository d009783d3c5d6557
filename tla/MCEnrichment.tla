---------------------------- MODULE MCEnrichment ----------------------------
(***************************************************************************)
(* Two CVEs and two GHSA identifiers: g1's advisory names c1, g2 has none. *)
(* c1 is known to be exploited, both CVEs have an EPSS score.              *)
(*                                                                         *)
(* Once holds results whose lookups exceed the limits of two advisories    *)
(* and two names, so that the slots and the limits are met; Twice holds    *)
(* smaller ones, enriched again.                                           *)
(***************************************************************************)
EXTENDS Enrichment

CONSTANTS c1, c2, g1, g2

Finding(id, alias, severe, name, npm, version) ==
    [id |-> id, alias |-> alias, severe |-> severe, name |-> name, npm |-> npm,
     version |-> version]

\* A severe advisory-only finding, one with an alias, and a mild one.
Mapped == Finding(g1, NoCve, TRUE, "lodash", TRUE, "1.0.0")
Unmapped == Finding(g2, NoCve, TRUE, "qs", TRUE, "2.0.0")
Aliased == Finding(g2, c2, TRUE, "qs", TRUE, "2.0.0")
Direct == Finding(c1, NoCve, TRUE, "ms", TRUE, "3.0.0")
Mild == Finding(g1, NoCve, FALSE, "lodash", TRUE, "1.0.0")
OtherVersion == Finding(c2, NoCve, FALSE, "lodash", TRUE, "9.0.0")
Python == Finding(c2, NoCve, FALSE, "requests", FALSE, "1.0.0")
PythonNamesake == Finding(c2, NoCve, FALSE, "lodash", FALSE, "1.0.0")

\* The scanner's alias and the CVE its advisory names differ.
Disagreeing == Finding(g1, c2, TRUE, "qs", TRUE, "2.0.0")

Twice == {<<>>, <<Disagreeing>>, <<Python, Mild>>}
Once == {<<Mapped, Aliased>>, <<Mapped, Aliased, Direct>>, <<Unmapped, Direct, Python>>,
         <<Mapped, PythonNamesake>>, <<Mapped, OtherVersion>>}
MCResults == Once \cup Twice

MCMapsTo == [g \in {g1, g2} |-> IF g = g1 THEN c1 ELSE NoCve]
==============================================================================

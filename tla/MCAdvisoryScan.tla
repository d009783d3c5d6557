--------------------------- MODULE MCAdvisoryScan ---------------------------
(***************************************************************************)
(* lodash and express share an advisory, lodash has one more than a page   *)
(* holds, and log4j is in an ecosystem GitHub has no advisories for.  A    *)
(* list may name a package twice (two versions) and is one longer than the *)
(* cap; two requests may be in flight.                                     *)
(***************************************************************************)
EXTENDS AdvisoryScan

CONSTANTS a1, a2, a3

Npm(name) == [name |-> name, supported |-> TRUE]
Unsupported == [name |-> "log4j", supported |-> FALSE]

MCLists == {<<>>, <<Unsupported>>,
            <<Npm("lodash"), Npm("express"), Npm("lodash"), Npm("qs"), Npm("ms")>>,
            <<Unsupported, Npm("qs"), Npm("express"), Npm("lodash"), Npm("ms")>>,
            <<Npm("qs"), Npm("ms")>>}

MCAffects == [name \in {"lodash", "express", "qs", "ms", "log4j"} |->
                CASE name = "lodash" -> <<a1, a2, a3>>
                  [] name = "express" -> <<a2>>
                  [] name = "qs" -> <<a3>>
                  [] OTHER -> <<>>]

Grype(name, kind, adv) == [name |-> name, adv |-> adv, id |-> <<kind, adv>>]
MCGrypeScans == {{}, {Grype("lodash", "ghsa", a1)},
                 {Grype("lodash", "cve", a1), Grype("qs", "ghsa", a3)}}
==============================================================================

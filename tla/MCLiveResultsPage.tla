-------------------------- MODULE MCLiveResultsPage --------------------------
(***************************************************************************)
(* Small instances of LiveResultsPage for TLC.  Connections, handlers and  *)
(* refreshes are interchangeable.                                          *)
(***************************************************************************)
EXTENDS LiveResultsPage, TLC

CONSTANTS c1, c2, h1, h2, t1, t2

EverySection == Sections
SectionSets == (SUBSET Sections) \ {{}}

Symmetry ==
  Permutations(Conns) \cup Permutations(Handlers) \cup Permutations(Refreshes)
=============================================================================

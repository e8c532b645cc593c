---------------------------- MODULE MCPollListing ----------------------------
(***************************************************************************)
(* Small instances of PollListing for TLC.  Polls are interchangeable.     *)
(***************************************************************************)
EXTENDS PollListing, TLC

CONSTANTS u1, o1, p1, p2

\* No list looks at options: one stands for all.
OneOption == {{o1}}

NearExpiry == {2}

Symmetry == Permutations(Polls)
=============================================================================

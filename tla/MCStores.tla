------------------------------- MODULE MCStores -------------------------------
(***************************************************************************)
(* Small instances of StoreParity for TLC.  Users are interchangeable.     *)
(***************************************************************************)
EXTENDS StoreParity, TLC

CONSTANTS u1, u2, o1, o2, p1, p2, self1

\* o2 is an option no poll has.
OneOption == {{o1}}
NearExpiry == {3}
TwoFractions == [p \in Polls |-> IF p = p1 THEN 0 ELSE 1]

Symmetry == Permutations(Users)
=============================================================================

------------------------------ MODULE MCVotePath ------------------------------
(***************************************************************************)
(* Small instances of VotePath for TLC.                                    *)
(***************************************************************************)
EXTENDS VotePath

CONSTANTS u1, u2
=============================================================================

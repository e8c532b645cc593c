---------------------------- MODULE MCLivePollPage ----------------------------
(***************************************************************************)
(* Small instances of LivePollPage for TLC.  Two handlers notify at once,  *)
(* and a connection can be replaced while its handler is still there.      *)
(***************************************************************************)
EXTENDS LivePollPage

CONSTANTS c1, c2, h1, h2, l1, l2
=============================================================================

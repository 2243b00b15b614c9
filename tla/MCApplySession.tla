---------------------------- MODULE MCApplySession ---------------------------
(* ApplySession for two resources, so that the actions of one session can   *)
(* differ and succeed or fail apart, and two contents, so that an edit can  *)
(* be made and reverted.  Each run names the outside events it allows.      *)
EXTENDS ApplySession, TLC

CONSTANTS r1, r2, c1, c2

MCResources == {r1, r2}
MCContents == {c1, c2}
Symmetry == Permutations(MCResources) \cup Permutations(MCContents)
=============================================================================

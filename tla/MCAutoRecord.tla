---------------------------- MODULE MCAutoRecord -----------------------------
(* AutoRecord for two packages: a command line of one or of both.           *)
EXTENDS AutoRecord, TLC

CONSTANTS r1, r2, c1, c2

MCResources == {r1, r2}
MCContents == {c1, c2}
Symmetry == Permutations(MCResources)
=============================================================================

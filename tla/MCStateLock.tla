---------------------------- MODULE MCStateLock ------------------------------
(* StateLock for three invocations: an owner, a contender and a third that  *)
(* meets what the first two left behind.                                    *)
EXTENDS StateLock

CONSTANTS p1, p2, p3

MCProcs == {p1, p2, p3}
=============================================================================

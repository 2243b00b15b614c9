---------------------------- MODULE SingleWriter -----------------------------
(***************************************************************************)
(* What the state lock promises its users: at most one writer at a time,   *)
(* and the lock passes from one writer to the next only through a moment   *)
(* in which nobody holds it (no invocation takes it from a running one).   *)
(***************************************************************************)
CONSTANTS Clients, Nobody

VARIABLE writer   \* the client that may write, or Nobody

Init == writer = Nobody

Take(c) == writer = Nobody /\ writer' = c

Drop == writer # Nobody /\ writer' = Nobody

Next == Drop \/ \E c \in Clients : Take(c)

Spec == Init /\ [][Next]_writer
=============================================================================

------------------------------ MODULE StateLock ------------------------------
(***************************************************************************)
(* The single-writer lock file <store>/.state/<machine-id>/.lock           *)
(* (internal/state/lock.go) as the hams invocations of one machine use it  *)
(* through AcquireMutationLock (internal/provider/cli_lock.go).            *)
(*                                                                         *)
(* A process is one invocation of hams: it acquires at most once.  The     *)
(* lock path names an inode, and an inode is named by the process that     *)
(* created it; a process writes through a descriptor, so its bytes reach   *)
(* the inode it opened even when the path has moved on.  What an inode     *)
(* holds is the PID recorded in it, or nothing while it is empty.          *)
(***************************************************************************)
CONSTANTS
  Procs,    \* the invocations of hams, each with a PID of its own
  Nobody,   \* the PID of an empty lock file, and the value of an unset name
  Overlap   \* TRUE: two invocations may be inside Acquire at the same time

ASSUME NobodyAssumption == Nobody \notin Procs
ASSUME OverlapAssumption == Overlap \in BOOLEAN

VARIABLES
  path,     \* the inode the lock path names, Nobody when there is no file
  pidIn,    \* pidIn[i]: the PID written in inode i
  fd,       \* fd[p]: the inode p has open for writing
  seen,     \* seen[p]: the PID p read from the lock file
  pc        \* pc[p]: where p is

vars == <<path, pidIn, fd, seen, pc>>

Acquiring == {"created", "exists", "read", "stale", "truncated"}
Gone      == {"idle", "done", "crashed"}
Locations == Acquiring \cup Gone \cup {"held", "refused"}

(* A wrong isProcessAlive, without the check for PID 0.                     *)
AliveOrZero(p) == p = Nobody \/ pc[p] \notin Gone

(* isProcessAlive: signal 0 reaches p.  PID 0, the PID of an empty lock   *)
(* file, belongs to nobody.                                                *)
Alive(p) == p # Nobody /\ pc[p] \notin Gone

Init ==
  /\ path = Nobody
  /\ pidIn = [i \in Procs |-> Nobody]
  /\ fd = [p \in Procs |-> Nobody]
  /\ seen = [p \in Procs |-> Nobody]
  /\ pc = [p \in Procs |-> "idle"]

Goto(p, loc) == pc' = [pc EXCEPT ![p] = loc]

(* Two wrong opens: one that forgets its descriptor, one without O_EXCL.   *)
CreateForgetful(p) ==
  /\ pc[p] = "idle" /\ path = Nobody
  /\ Overlap \/ \A q \in Procs : pc[q] \notin Acquiring
  /\ path' = p /\ Goto(p, "created")
  /\ UNCHANGED <<pidIn, fd, seen>>

CreateShared(p) ==
  /\ pc[p] = "idle"
  /\ Overlap \/ \A q \in Procs : pc[q] \notin Acquiring
  /\ path' = IF path = Nobody THEN p ELSE path
  /\ fd' = [fd EXCEPT ![p] = path']
  /\ Goto(p, "created")
  /\ UNCHANGED <<pidIn, seen>>

(* The O_CREATE|O_EXCL open: it makes an empty file or finds one.          *)
Create(p) ==
  /\ pc[p] = "idle"
  /\ Overlap \/ \A q \in Procs : pc[q] \notin Acquiring
  /\ \/ /\ path = Nobody
        /\ path' = p
        /\ fd' = [fd EXCEPT ![p] = p]
        /\ Goto(p, "created")
     \/ /\ path # Nobody
        /\ Goto(p, "exists")
        /\ UNCHANGED <<path, fd>>
  /\ UNCHANGED <<pidIn, seen>>

(* Read: the file may be gone again, which Acquire reports as an error.    *)
ReadHolder(p) ==
  /\ pc[p] = "exists"
  /\ IF path = Nobody
     THEN Goto(p, "refused") /\ UNCHANGED seen
     ELSE Goto(p, "read") /\ seen' = [seen EXCEPT ![p] = pidIn[path]]
  /\ UNCHANGED <<path, pidIn, fd>>

(* A wrong check, that reclaims the lock of the living.                    *)
CheckReversed(p) ==
  /\ pc[p] = "read"
  /\ Goto(p, IF Alive(seen[p]) THEN "stale" ELSE "refused")
  /\ UNCHANGED <<path, pidIn, fd, seen>>

CheckHolder(p) ==
  /\ pc[p] = "read"
  /\ Goto(p, IF Alive(seen[p]) THEN "refused" ELSE "stale")
  /\ UNCHANGED <<path, pidIn, fd, seen>>

(* os.WriteFile of a lock judged stale: open with O_CREATE|O_TRUNC ...     *)
Truncate(p) ==
  /\ pc[p] = "stale"
  /\ path' = IF path = Nobody THEN p ELSE path
  /\ fd' = [fd EXCEPT ![p] = path']
  /\ pidIn' = [pidIn EXCEPT ![path'] = Nobody]
  /\ Goto(p, "truncated")
  /\ UNCHANGED seen

(* ... and write; the fresh file of Create is written in the same way.     *)
WriteInfo(p) ==
  /\ pc[p] \in {"created", "truncated"}
  /\ pidIn' = [pidIn EXCEPT ![fd[p]] = p]
  /\ Goto(p, "held")
  /\ UNCHANGED <<path, fd, seen>>

(* A failed write of a fresh file removes the path; a failed reclaim       *)
(* leaves the file as it is.                                               *)
WriteFails(p) ==
  /\ \/ pc[p] = "created" /\ path' = Nobody
     \/ pc[p] \in {"stale", "truncated"} /\ UNCHANGED path
  /\ Goto(p, "refused")
  /\ UNCHANGED <<pidIn, fd, seen>>

(* The fresh file was written but its close failed: Acquire returns an     *)
(* error and the record stays.                                             *)
CloseFails(p) ==
  /\ pc[p] = "created"
  /\ pidIn' = [pidIn EXCEPT ![fd[p]] = p]
  /\ Goto(p, "refused")
  /\ UNCHANGED <<path, fd, seen>>

(* Release removes whatever file the path names.                           *)
Release(p) ==
  /\ pc[p] = "held"
  /\ path' = Nobody
  /\ Goto(p, "done")
  /\ UNCHANGED <<pidIn, fd, seen>>

(* A wrong exit, that releases a lock it was refused.                      *)
ExitReleasing(p) ==
  /\ pc[p] = "refused"
  /\ path' = Nobody
  /\ Goto(p, "done")
  /\ UNCHANGED <<pidIn, fd, seen>>

(* A refused invocation reports the lock error and exits.                  *)
Exit(p) ==
  /\ pc[p] = "refused"
  /\ Goto(p, "done")
  /\ UNCHANGED <<path, pidIn, fd, seen>>

(* SIGKILL, a panic outside Execute or a power cut: no deferred release.   *)
Crash(p) ==
  /\ pc[p] \notin Gone
  /\ Goto(p, "crashed")
  /\ UNCHANGED <<path, pidIn, fd, seen>>

Acquire(p) ==
  \/ Create(p) \/ ReadHolder(p) \/ CheckHolder(p) \/ Truncate(p)
  \/ WriteInfo(p) \/ WriteFails(p) \/ CloseFails(p)

Next == \E p \in Procs : Acquire(p) \/ Release(p) \/ Exit(p) \/ Crash(p)

Spec == Init /\ [][Next]_vars

-----------------------------------------------------------------------------
TypeOK ==
  /\ path \in Procs \cup {Nobody}
  /\ pidIn \in [Procs -> Procs \cup {Nobody}]
  /\ fd \in [Procs -> Procs \cup {Nobody}]
  /\ seen \in [Procs -> Procs \cup {Nobody}]
  /\ pc \in [Procs -> Locations]
  /\ \A p \in Procs : pc[p] \in {"created", "truncated", "held"} => fd[p] # Nobody

Holds(p) == pc[p] = "held"

(* At most one invocation believes that it holds the lock, so at most one  *)
(* reads, modifies and saves the state files and hamsfiles of a machine.   *)
MutualExclusion == \A p, q \in Procs : Holds(p) /\ Holds(q) => p = q

(* While an invocation holds the lock, the lock file names it: the message *)
(* every other invocation gets names the true owner, and the Release of    *)
(* the owner removes its own file and nobody else's.                       *)
HolderIsRecorded == \A p \in Procs : Holds(p) => path # Nobody /\ pidIn[path] = p

(* An invocation that finds a lock file is turned away only while another  *)
(* invocation is still running, or because the owner released the file     *)
(* between the failed open and the read: what a crash leaves behind, an    *)
(* empty file included, is never mistaken for an owner.                    *)
RefusedOnlyByTheLiving ==
  [][\A p \in Procs :
       pc[p] \in {"exists", "read"} /\ pc'[p] = "refused"
         => path = Nobody \/ \E q \in Procs \ {p} : Alive(q)]_vars

(* The lock as its users see it: one writer at a time, taken and dropped.  *)
Writer == IF \E p \in Procs : Holds(p) THEN CHOOSE p \in Procs : Holds(p) ELSE Nobody

Abstract == INSTANCE SingleWriter WITH Clients <- Procs, Nobody <- Nobody, writer <- Writer

(* The lock file implements the single-writer promise.                     *)
ImplementsSingleWriter == Abstract!Spec
=============================================================================

---------------------------- MODULE StateLock_proof --------------------------
(***************************************************************************)
(* Proofs about the state lock, for any set of invocations.                *)
(*                                                                         *)
(* Type correctness and the absence of wrong refusals hold however the     *)
(* invocations overlap.  Exclusion, and with it the refinement of          *)
(* SingleWriter, is proved for invocations that do not overlap inside      *)
(* Acquire (Overlap = FALSE); run lock_overlap shows that it fails for     *)
(* those that do.                                                          *)
(***************************************************************************)
EXTENDS StateLock, TLAPS

Actions(p) == Acquire(p) \/ Release(p) \/ Exit(p) \/ Crash(p)

(* Every variable keeps its type, and a process about to write through a   *)
(* descriptor, or that has, has one.                                       *)
THEOREM Typing == Spec => []TypeOK
<1>1. Init => TypeOK
  BY NobodyAssumption DEF Init, TypeOK, Locations, Gone
<1>2. TypeOK /\ [Next]_vars => TypeOK'
  <2> SUFFICES ASSUME TypeOK, [Next]_vars PROVE TypeOK'
    OBVIOUS
  <2> USE NobodyAssumption DEF TypeOK, Locations, Acquiring, Gone, Goto
  <2>1. ASSUME NEW p \in Procs, Create(p) PROVE TypeOK'
    BY <2>1 DEF Create
  <2>2. ASSUME NEW p \in Procs, ReadHolder(p) PROVE TypeOK'
    BY <2>2 DEF ReadHolder
  <2>3. ASSUME NEW p \in Procs, CheckHolder(p) PROVE TypeOK'
    BY <2>3 DEF CheckHolder
  <2>4. ASSUME NEW p \in Procs, Truncate(p) PROVE TypeOK'
    BY <2>4 DEF Truncate
  <2>5. ASSUME NEW p \in Procs, WriteInfo(p) PROVE TypeOK'
    BY <2>5 DEF WriteInfo
  <2>6. ASSUME NEW p \in Procs, WriteFails(p) PROVE TypeOK'
    BY <2>6 DEF WriteFails
  <2>7. ASSUME NEW p \in Procs, CloseFails(p) PROVE TypeOK'
    BY <2>7 DEF CloseFails
  <2>8. ASSUME NEW p \in Procs, Release(p) PROVE TypeOK'
    BY <2>8 DEF Release
  <2>9. ASSUME NEW p \in Procs, Exit(p) PROVE TypeOK'
    BY <2>9 DEF Exit
  <2>10. ASSUME NEW p \in Procs, Crash(p) PROVE TypeOK'
    BY <2>10 DEF Crash
  <2>11. CASE UNCHANGED vars
    BY <2>11 DEF vars
  <2> QED
    BY <2>1, <2>2, <2>3, <2>4, <2>5, <2>6, <2>7, <2>8, <2>9, <2>10, <2>11
    DEF Next, Acquire
<1> QED
  BY <1>1, <1>2, PTL DEF Spec

-----------------------------------------------------------------------------
(* A PID is found in a lock file only after its process wrote it, which a  *)
(* process does once it holds the lock or was refused it: a process never  *)
(* meets its own PID.                                                      *)
NotYetWritten ==
  \A p \in Procs : pc[p] \in {"idle", "exists", "read"} =>
    /\ \A i \in Procs : pidIn[i] # p
    /\ seen[p] # p

LEMMA NeverOwnPid == Spec => []NotYetWritten
<1>1. Init => NotYetWritten
  BY NobodyAssumption DEF Init, NotYetWritten
<1>2. TypeOK /\ NotYetWritten /\ [Next]_vars => NotYetWritten'
  <2> SUFFICES ASSUME TypeOK, NotYetWritten, [Next]_vars PROVE NotYetWritten'
    OBVIOUS
  <2> USE NobodyAssumption DEF TypeOK, NotYetWritten, Goto
  <2>1. ASSUME NEW p \in Procs, Create(p) PROVE NotYetWritten'
    BY <2>1 DEF Create
  <2>2. ASSUME NEW p \in Procs, ReadHolder(p) PROVE NotYetWritten'
    BY <2>2 DEF ReadHolder
  <2>3. ASSUME NEW p \in Procs, CheckHolder(p) PROVE NotYetWritten'
    BY <2>3 DEF CheckHolder
  <2>4. ASSUME NEW p \in Procs, Truncate(p) PROVE NotYetWritten'
    BY <2>4 DEF Truncate
  <2>5. ASSUME NEW p \in Procs, WriteInfo(p) PROVE NotYetWritten'
    BY <2>5 DEF WriteInfo
  <2>6. ASSUME NEW p \in Procs, WriteFails(p) PROVE NotYetWritten'
    BY <2>6 DEF WriteFails
  <2>7. ASSUME NEW p \in Procs, CloseFails(p) PROVE NotYetWritten'
    BY <2>7 DEF CloseFails
  <2>8. ASSUME NEW p \in Procs, Release(p) PROVE NotYetWritten'
    BY <2>8 DEF Release
  <2>9. ASSUME NEW p \in Procs, Exit(p) PROVE NotYetWritten'
    BY <2>9 DEF Exit
  <2>10. ASSUME NEW p \in Procs, Crash(p) PROVE NotYetWritten'
    BY <2>10 DEF Crash
  <2>11. CASE UNCHANGED vars
    BY <2>11 DEF vars
  <2> QED
    BY <2>1, <2>2, <2>3, <2>4, <2>5, <2>6, <2>7, <2>8, <2>9, <2>10, <2>11
    DEF Next, Acquire
<1> QED
  BY <1>1, <1>2, Typing, PTL DEF Spec

(* Whoever is turned away by a lock file is turned away by a running       *)
(* process other than itself, or because the file went away between the    *)
(* failed open and the read.                                               *)
THEOREM NoWrongRefusal == Spec => RefusedOnlyByTheLiving
<1> DEFINE Warranted ==
      \A p \in Procs : pc[p] \in {"exists", "read"} /\ pc'[p] = "refused"
        => path = Nobody \/ \E q \in Procs \ {p} : Alive(q)
<1>1. TypeOK /\ NotYetWritten /\ [Next]_vars => Warranted
  <2> SUFFICES ASSUME TypeOK, NotYetWritten, [Next]_vars,
                      NEW p \in Procs, pc[p] \in {"exists", "read"}, pc'[p] = "refused",
                      path # Nobody
               PROVE  \E q \in Procs \ {p} : Alive(q)
    OBVIOUS
  <2>1. PICK r \in Procs : Actions(r)
    BY DEF Next, vars, Actions
  <2>2. r = p
    BY <2>1 DEF TypeOK, Actions, Acquire, Create, ReadHolder, CheckHolder,
                Truncate, WriteInfo, WriteFails, CloseFails, Release, Exit,
                Crash, Goto
  <2>3. CheckHolder(p)
    BY <2>1, <2>2 DEF TypeOK, Actions, Acquire, Create, ReadHolder, CheckHolder,
                      Truncate, WriteInfo, WriteFails, CloseFails, Release,
                      Exit, Crash, Goto
  <2>4. Alive(seen[p])
    BY <2>3 DEF TypeOK, CheckHolder, Goto
  <2>5. seen[p] \in Procs \ {p}
    BY <2>3, <2>4 DEF TypeOK, NotYetWritten, CheckHolder, Alive
  <2> QED
    BY <2>4, <2>5
<1> QED
  BY <1>1, Typing, NeverOwnPid, PTL DEF Spec, RefusedOnlyByTheLiving

-----------------------------------------------------------------------------
(* Why exclusion holds when invocations do not overlap inside Acquire: the *)
(* only process that acquires read the PID of every holder there is, so it *)
(* goes on to write only when there is none, and then the path still names *)
(* the file it opened.                                                     *)
OneAcquires ==
  \A p, q \in Procs : pc[p] \in Acquiring /\ pc[q] \in Acquiring => p = q

HoldersWereSeen ==
  \A p, q \in Procs : pc[p] = "read" /\ Holds(q) => seen[p] = q

WritesWhenFree ==
  \A p \in Procs : pc[p] \in {"created", "stale", "truncated"} =>
    \A q \in Procs : ~Holds(q)

WritesThePath ==
  \A p \in Procs : pc[p] \in {"created", "truncated"} => path = fd[p]

Exclusive ==
  OneAcquires /\ HoldersWereSeen /\ WritesWhenFree /\ WritesThePath /\ HolderIsRecorded

LEMMA ExclusiveInductive ==
  ASSUME Overlap = FALSE, TypeOK, Exclusive, [Next]_vars
  PROVE  Exclusive'
<1> USE NobodyAssumption
    DEF TypeOK, Exclusive, OneAcquires, HoldersWereSeen, WritesWhenFree,
        WritesThePath, HolderIsRecorded, Holds, Goto
<1>1. ASSUME NEW p \in Procs, Create(p) PROVE Exclusive'
  BY <1>1 DEF Create, Acquiring
<1>2. ASSUME NEW p \in Procs, ReadHolder(p) PROVE Exclusive'
  BY <1>2 DEF ReadHolder, Acquiring
<1>3. ASSUME NEW p \in Procs, CheckHolder(p) PROVE Exclusive'
  BY <1>3 DEF CheckHolder, Alive, Gone, Acquiring
<1>4. ASSUME NEW p \in Procs, Truncate(p) PROVE Exclusive'
  BY <1>4 DEF Truncate, Acquiring
<1>5. ASSUME NEW p \in Procs, WriteInfo(p) PROVE Exclusive'
  BY <1>5 DEF WriteInfo, Acquiring
<1>6. ASSUME NEW p \in Procs, WriteFails(p) PROVE Exclusive'
  BY <1>6 DEF WriteFails, Acquiring
<1>7. ASSUME NEW p \in Procs, CloseFails(p) PROVE Exclusive'
  BY <1>7 DEF CloseFails, Acquiring
<1>8. ASSUME NEW p \in Procs, Release(p) PROVE Exclusive'
  BY <1>8 DEF Release, Acquiring
<1>9. ASSUME NEW p \in Procs, Exit(p) PROVE Exclusive'
  BY <1>9 DEF Exit, Acquiring
<1>10. ASSUME NEW p \in Procs, Crash(p) PROVE Exclusive'
  BY <1>10 DEF Crash, Acquiring
<1>11. CASE UNCHANGED vars
  BY <1>11 DEF vars
<1> QED
  BY <1>1, <1>2, <1>3, <1>4, <1>5, <1>6, <1>7, <1>8, <1>9, <1>10, <1>11
  DEF Next, Acquire

LEMMA ExclusiveAlways ==
  ASSUME Overlap = FALSE
  PROVE  Spec => []Exclusive
<1>1. Init => Exclusive
  BY NobodyAssumption
  DEF Init, Exclusive, OneAcquires, HoldersWereSeen, WritesWhenFree,
      WritesThePath, HolderIsRecorded, Holds, Acquiring
<1> QED
  BY <1>1, ExclusiveInductive, Typing, PTL DEF Spec

(* While an invocation holds the lock, the lock file names it.             *)
THEOREM Recorded ==
  ASSUME Overlap = FALSE
  PROVE  Spec => []HolderIsRecorded
<1>1. Exclusive => HolderIsRecorded
  BY DEF Exclusive
<1> QED
  BY <1>1, ExclusiveAlways, PTL

(* The file names one process, so there is one holder.                     *)
LEMMA RecordedExcludes == HolderIsRecorded => MutualExclusion
  BY DEF HolderIsRecorded, MutualExclusion

(* At most one invocation holds the lock.                                  *)
THEOREM Exclusion ==
  ASSUME Overlap = FALSE
  PROVE  Spec => []MutualExclusion
BY Recorded, RecordedExcludes, PTL

-----------------------------------------------------------------------------
(* The writer of the abstract lock is the holder, if there is one.         *)
LEMMA WriterIsHolder ==
  ASSUME MutualExclusion, NEW p \in Procs, Holds(p)
  PROVE  Writer = p
BY DEF MutualExclusion, Writer

LEMMA NoWriter ==
  ASSUME \A p \in Procs : ~Holds(p)
  PROVE  Writer = Nobody
BY DEF Writer

(* Taking the lock is WriteInfo; dropping it is Release, or the Crash of   *)
(* the holder; every other step leaves the writer as it is.                *)
THEOREM Implementation ==
  ASSUME Overlap = FALSE
  PROVE  Spec => ImplementsSingleWriter
<1>1. Init => Abstract!Init
  BY NoWriter DEF Init, Abstract!Init, Holds
<1>2. TypeOK /\ Exclusive /\ Exclusive' /\ [Next]_vars => [Abstract!Next]_Writer
  <2> SUFFICES ASSUME TypeOK, Exclusive, Exclusive', [Next]_vars
               PROVE  [Abstract!Next]_Writer
    OBVIOUS
  <2>1. MutualExclusion /\ MutualExclusion'
    BY DEF Exclusive, HolderIsRecorded, MutualExclusion
  <2>2. ASSUME \A q \in Procs : Holds(q)' <=> Holds(q) PROVE Writer' = Writer
    BY <2>2 DEF Writer
  <2>3. ASSUME NEW p \in Procs, WriteInfo(p) PROVE Abstract!Next
    <3>1. Writer = Nobody
      BY <2>3, NoWriter DEF Exclusive, WritesWhenFree, WriteInfo
    <3>2. Holds(p)'
      BY <2>3 DEF WriteInfo, Goto, Holds, TypeOK
    <3>3. Writer' = p
      BY <2>1, <3>2 DEF MutualExclusion, Writer
    <3> QED
      BY <3>1, <3>3 DEF Abstract!Next, Abstract!Take
  <2>4. ASSUME NEW p \in Procs, Holds(p), Goto(p, "done") \/ Goto(p, "crashed")
        PROVE  Abstract!Next
    <3>1. Writer = p
      BY <2>1, <2>4, WriterIsHolder
    <3>2. \A q \in Procs : ~Holds(q)'
      BY <2>1, <2>4 DEF MutualExclusion, Holds, Goto, TypeOK
    <3>3. Writer' = Nobody
      BY <3>2 DEF Writer
    <3> QED
      BY <3>1, <3>3, NobodyAssumption DEF Abstract!Next, Abstract!Drop
  <2>5. ASSUME NEW p \in Procs, NEW loc \in Locations \ {"held"}, ~Holds(p), Goto(p, loc)
        PROVE  Writer' = Writer
    BY <2>2, <2>5 DEF Holds, Goto, TypeOK
  <2>6. CASE UNCHANGED vars
    BY <2>2, <2>6 DEF vars, Holds
  <2>7. CASE Next
    <3>1. PICK p \in Procs : Actions(p)
      BY <2>7 DEF Next, Actions
    <3>2. CASE WriteInfo(p)
      BY <2>3, <3>2
    <3>3. CASE Release(p) \/ (Crash(p) /\ Holds(p))
      BY <2>4, <3>3 DEF Release, Crash, Holds
    <3>4. CASE ~WriteInfo(p) /\ ~Release(p) /\ ~(Crash(p) /\ Holds(p))
      <4>1. ~Holds(p)
        BY <3>1, <3>4 DEF Actions, Acquire, Create, ReadHolder, CheckHolder,
           Truncate, WriteFails, CloseFails, Exit, Holds
      <4>2. \E loc \in Locations \ {"held"} : Goto(p, loc)
        BY <3>1, <3>4 DEF Actions, Acquire, Create, ReadHolder, CheckHolder,
           Truncate, WriteFails, CloseFails, Exit, Crash, Locations, Acquiring, Gone
      <4> QED
        BY <2>5, <4>1, <4>2
    <3> QED
      BY <3>2, <3>3, <3>4
  <2> QED
    BY <2>6, <2>7
<1> QED
  BY <1>1, <1>2, Typing, ExclusiveAlways, PTL
  DEF Spec, ImplementsSingleWriter, Abstract!Spec
=============================================================================

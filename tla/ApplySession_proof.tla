--------------------------- MODULE ApplySession_proof ------------------------
(***************************************************************************)
(* Proofs about `hams apply` and `hams refresh`: for any resources, any    *)
(* contents, any number of sessions and outside events, of any kinds.      *)
(***************************************************************************)
EXTENDS ApplySession, TLAPS

-----------------------------------------------------------------------------
(* What probing and planning compute, for every document and state file:   *)
(* the proofs about sessions cite these lemmas and never expand the plan.  *)

PlanOf(d, sf) == Promote(ComputePlan(d, sf), d, sf)

LEMMA StatesTyped ==
  /\ EmptyDoc \in Docs
  /\ NewState \in StateFiles
  /\ NoPlan \in Plans
BY DEF EmptyDoc, Docs, NewState, StateFiles, Hashes, Statuses, NoPlan, Plans, Actions

LEMMA SetResourceTyped ==
  ASSUME NEW sf \in StateFiles, NEW r \in Resources, NEW s \in Statuses
  PROVE  SetResource(sf, r, s) \in StateFiles
BY DEF StateFiles, SetResource

LEMMA SetResourceSets ==
  ASSUME NEW sf \in StateFiles, NEW r \in Resources, NEW s \in Statuses
  PROVE  /\ SetResource(sf, r, s).hash = sf.hash
         /\ SetResource(sf, r, s).st = [sf.st EXCEPT ![r] = s]
BY DEF StateFiles, SetResource

LEMMA StampTyped ==
  ASSUME NEW sf \in StateFiles, NEW d \in Docs
  PROVE  [sf EXCEPT !.hash = d] \in StateFiles
BY DEF StateFiles, Hashes

LEMMA ProbeTyped ==
  ASSUME NEW sf \in StateFiles, NEW h \in Docs
  PROVE  Probe(sf, h) \in StateFiles
BY DEF StateFiles, Probe, Statuses, Tracked

LEMMA PlanTyped ==
  ASSUME NEW d \in Docs, NEW sf \in StateFiles
  PROVE  PlanOf(d, sf) \in Plans
<1>1. ComputePlan(d, sf) \in Plans
  BY DEF ComputePlan, Plans, Actions
<1> QED
  BY <1>1 DEF PlanOf, Promote, Plans, Actions

(* A probe never calls ok what the host does not have, creates no record   *)
(* and drops none, and keeps the baseline.                                 *)
LEMMA ProbeIsTruthful ==
  ASSUME NEW sf \in StateFiles, NEW h \in Docs, NEW r \in Resources
  PROVE  /\ Probe(sf, h).st[r] = "ok" => h[r] # "absent"
         /\ Tracked(Probe(sf, h), r) <=> Tracked(sf, r)
         /\ Probe(sf, h).hash = sf.hash
BY DEF StateFiles, Probe, Tracked

(* A declared resource is skipped only when it is recorded ok, and is      *)
(* installed or updated otherwise: no status leaves it stuck.              *)
LEMMA PlanInstalls ==
  ASSUME NEW d \in Docs, NEW sf \in StateFiles, NEW r \in Resources,
         d[r] # "absent"
  PROVE  \/ PlanOf(d, sf)[r] \in {"install", "update"}
         \/ PlanOf(d, sf)[r] = "skip" /\ sf.st[r] = "ok"
<1>1. ComputePlan(d, sf)[r] = IF sf.st[r] = "ok" THEN "skip" ELSE "install"
  BY DEF ComputePlan
<1> QED
  BY <1>1 DEF PlanOf, Promote

(* A skip survives the promotion only when the document is the one of the  *)
(* baseline, or there is no baseline.                                      *)
LEMMA PlanSkipsUnchanged ==
  ASSUME NEW d \in Docs, NEW sf \in StateFiles, NEW r \in Resources,
         PlanOf(d, sf)[r] = "skip"
  PROVE  sf.hash = NoHash \/ sf.hash = d
BY DEF PlanOf, Promote

(* An undeclared resource is removed exactly when there is a baseline and  *)
(* a record of it that is not a tombstone; otherwise it is left alone.     *)
LEMMA PlanRemoves ==
  ASSUME NEW d \in Docs, NEW sf \in StateFiles, NEW r \in Resources,
         d[r] = "absent"
  PROVE  PlanOf(d, sf)[r] = IF sf.hash # NoHash /\ Tracked(sf, r)
                            THEN "remove" ELSE "none"
<1>1. ComputePlan(d, sf)[r] = IF sf.hash # NoHash /\ Tracked(sf, r)
                              THEN "remove" ELSE "none"
  BY DEF ComputePlan
<1> QED
  BY <1>1 DEF PlanOf, Promote

(* Only what is recorded ok is updated.                                    *)
LEMMA PlanUpdatesOk ==
  ASSUME NEW d \in Docs, NEW sf \in StateFiles, NEW r \in Resources,
         PlanOf(d, sf)[r] = "update"
  PROVE  sf.st[r] = "ok"
<1>1. ComputePlan(d, sf)[r] = "skip"
  BY DEF PlanOf, Promote, ComputePlan
<1> QED
  BY <1>1 DEF ComputePlan

-----------------------------------------------------------------------------
(* Sessions.                                                               *)

LEMMA DocUpdated ==
  ASSUME NEW d \in Docs, NEW r \in Resources, NEW c \in Contents \cup {"absent"}
  PROVE  [d EXCEPT ![r] = c] \in Docs
BY DEF Docs

LEMMA ActionFinished ==
  ASSUME todo \in Plans, NEW r \in Resources
  PROVE  [todo EXCEPT ![r] = "none"] \in Plans
BY DEF Plans, Actions

(* Whatever the tool did, the host is still a host.                        *)
LEMMA ToolTyped ==
  ASSUME WorldOK, SessionOK, cur # None, ToolMayHaveRun
  PROVE  host' \in Docs /\ owned' \subseteq Resources
<1>1. cur \in Resources /\ doc[cur] \in Contents \cup {"absent"}
  BY DEF SessionOK, Docs
<1> QED
  BY <1>1, DocUpdated DEF WorldOK, ToolMayHaveRun, ToolRuns

LEMMA TypeInit == Init => TypeOK
<1> USE AbsentAssumption, NoneAssumption, StatesTyped DEF TypeOK
<1> SUFFICES ASSUME Init PROVE TypeOK
  OBVIOUS
<1>1. FlagsOK
  BY DEF Init, FlagsOK
<1>2. WorldOK
  BY DEF Init, WorldOK, Exits
<1>3. SessionOK
  BY DEF Init, SessionOK, Phases
<1> QED
  BY <1>1, <1>2, <1>3

LEMMA TypeStep == TypeOK /\ [Next]_vars => TypeOK'
<1> USE AbsentAssumption, NoneAssumption, StatesTyped DEF TypeOK
<1> SUFFICES ASSUME TypeOK, [Next]_vars PROVE TypeOK'
  OBVIOUS
<1>1. ASSUME NEW refresh \in BOOLEAN, NEW withPrune \in BOOLEAN, StartApply(refresh, withPrune) PROVE TypeOK'
  <2>1. FlagsOK'
    BY <1>1 DEF FlagsOK, session, StartApply
  <2>2. WorldOK'
    BY <1>1 DEF WorldOK, files, state, session, ended, ghosts, Exits, StartApply
  <2>3. SessionOK'
    BY <1>1 DEF WorldOK, SessionOK, session, Phases, StartApply
  <2> QED
    BY <2>1, <2>2, <2>3
<1>2. ASSUME StartRefresh PROVE TypeOK'
  <2>1. FlagsOK'
    BY <1>2 DEF FlagsOK, session, StartRefresh
  <2>2. WorldOK'
    BY <1>2 DEF WorldOK, files, state, session, ended, ghosts, Exits, StartRefresh
  <2>3. SessionOK'
    BY <1>2 DEF WorldOK, SessionOK, session, Phases, StartRefresh
  <2> QED
    BY <2>1, <2>2, <2>3
<1>3. ASSUME ProbeOmitted PROVE TypeOK'
  <2>1. FlagsOK'
    BY <1>3 DEF FlagsOK, session, ProbeOmitted, ProbeLost, End
  <2>2. WorldOK'
    BY <1>3 DEF WorldOK, files, state, session, ended, ghosts, Exits, ProbeOmitted, ProbeLost, End, Worst, Happens
  <2>3. SessionOK'
    BY <1>3 DEF WorldOK, SessionOK, session, Phases, ProbeOmitted, ProbeLost, End, Worst
  <2> QED
    BY <2>1, <2>2, <2>3
<1>4. ASSUME ProbeSaveFails PROVE TypeOK'
  <2>1. FlagsOK'
    BY <1>4 DEF FlagsOK, session, ProbeSaveFails, ProbeLost, End
  <2>2. WorldOK'
    BY <1>4 DEF WorldOK, files, state, session, ended, ghosts, Exits, ProbeSaveFails, ProbeLost, End, Worst, Happens
  <2>3. SessionOK'
    BY <1>4 DEF WorldOK, SessionOK, session, Phases, ProbeSaveFails, ProbeLost, End, Worst
  <2> QED
    BY <2>1, <2>2, <2>3
<1>5. ASSUME ProbeSaved PROVE TypeOK'
  <2>1. FlagsOK'
    BY <1>5 DEF FlagsOK, session, ProbeSaved, End
  <2>2. WorldOK'
    <3>1. Probe(disk, host) \in StateFiles
      BY ProbeTyped DEF WorldOK
    <3> QED
      BY <1>5, <3>1 DEF WorldOK, files, ended, ghosts, Exits, ProbeSaved, Save, End, Worst
  <2>3. SessionOK'
    BY <1>5 DEF WorldOK, SessionOK, session, Phases, ProbeSaved, End, Worst
  <2> QED
    BY <2>1, <2>2, <2>3
<1>6. ASSUME SkipProvider PROVE TypeOK'
  <2>1. FlagsOK'
    BY <1>6 DEF FlagsOK, session, SkipProvider, End
  <2>2. WorldOK'
    BY <1>6 DEF WorldOK, files, state, session, ended, ghosts, Exits, SkipProvider, End, Worst
  <2>3. SessionOK'
    BY <1>6 DEF WorldOK, SessionOK, session, Phases, SkipProvider, End, Worst
  <2> QED
    BY <2>1, <2>2, <2>3
<1>7. ASSUME LoadAndPlan PROVE TypeOK'
  <2>1. FlagsOK'
    BY <1>7 DEF FlagsOK, session, LoadAndPlan
  <2>2. WorldOK'
    BY <1>7 DEF WorldOK, files, state, session, ended, ghosts, Exits, LoadAndPlan
  <2>3. SessionOK'
    <3>1. doc' \in Docs /\ mem' \in StateFiles
      BY <1>7, StampTyped DEF WorldOK, LoadAndPlan
    <3>2. todo' \in Plans
      BY <1>7, <3>1, PlanTyped DEF PlanOf, LoadAndPlan
    <3> QED
      BY <1>7, <3>1, <3>2 DEF SessionOK, Phases, LoadAndPlan
  <2> QED
    BY <2>1, <2>2, <2>3
<1>8. ASSUME NEW r \in Resources, TakeSkip(r) PROVE TypeOK'
  <2>1. FlagsOK'
    BY <1>8 DEF FlagsOK, session, TakeSkip
  <2>2. WorldOK'
    BY <1>8 DEF WorldOK, files, state, session, ended, ghosts, Exits, TakeSkip
  <2>3. SessionOK'
    <3>1. mem' \in StateFiles
      BY <1>8 DEF SessionOK, TakeSkip
    <3>2. todo' \in Plans
      BY <1>8, ActionFinished DEF SessionOK, TakeSkip, Finish
    <3> QED
      BY <1>8, <3>1, <3>2 DEF SessionOK, Phases, TakeSkip, MayTake
  <2> QED
    BY <2>1, <2>2, <2>3
<1>9. ASSUME NEW r \in Resources, BeginAction(r) PROVE TypeOK'
  <2>1. FlagsOK'
    BY <1>9 DEF FlagsOK, session, BeginAction
  <2>2. WorldOK'
    BY <1>9 DEF WorldOK, files, state, session, ended, ghosts, Exits, BeginAction
  <2>3. SessionOK'
    <3>1. mem' \in StateFiles
      BY <1>9, SetResourceTyped DEF SessionOK, Statuses, BeginAction
    <3>2. todo' \in Plans
      BY <1>9 DEF SessionOK, BeginAction
    <3> QED
      BY <1>9, <3>1, <3>2 DEF SessionOK, Phases, BeginAction, MayTake
  <2> QED
    BY <2>1, <2>2, <2>3
<1>10. ASSUME NEW r \in Resources, PreHookFails(r) PROVE TypeOK'
  <2>1. FlagsOK'
    BY <1>10 DEF FlagsOK, session, PreHookFails
  <2>2. WorldOK'
    BY <1>10 DEF WorldOK, files, state, session, ended, ghosts, Exits, PreHookFails, Happens
  <2>3. SessionOK'
    <3>1. mem' \in StateFiles
      BY <1>10, SetResourceTyped DEF SessionOK, Statuses, PreHookFails
    <3>2. todo' \in Plans
      BY <1>10, ActionFinished DEF SessionOK, PreHookFails, Finish
    <3> QED
      BY <1>10, <3>1, <3>2 DEF SessionOK, Phases, PreHookFails, MayTake
  <2> QED
    BY <2>1, <2>2, <2>3
<1>11. ASSUME RemoveSucceeds PROVE TypeOK'
  <2>1. FlagsOK'
    BY <1>11 DEF FlagsOK, session, RemoveSucceeds
  <2>2. WorldOK'
    <3>1. host' \in Docs /\ owned' \subseteq Resources
      BY <1>11, ToolTyped DEF WorldOK, SessionOK, RemoveSucceeds, ToolMayHaveRun
    <3> QED
      BY <1>11, <3>1 DEF WorldOK, SessionOK, files, state, ended, ghosts, Exits, RemoveSucceeds
  <2>3. SessionOK'
    <3>1. mem' \in StateFiles
      BY <1>11, SetResourceTyped DEF SessionOK, Statuses, RemoveSucceeds
    <3>2. todo' \in Plans
      BY <1>11, ActionFinished DEF SessionOK, RemoveSucceeds, Finish
    <3> QED
      BY <1>11, <3>1, <3>2 DEF SessionOK, Phases, RemoveSucceeds
  <2> QED
    BY <2>1, <2>2, <2>3
<1>12. ASSUME ApplySucceeds PROVE TypeOK'
  <2>1. FlagsOK'
    BY <1>12 DEF FlagsOK, session, ApplySucceeds
  <2>2. WorldOK'
    <3>1. host' \in Docs /\ owned' \subseteq Resources
      BY <1>12, ToolTyped DEF WorldOK, SessionOK, ApplySucceeds, ToolMayHaveRun
    <3> QED
      BY <1>12, <3>1 DEF WorldOK, SessionOK, files, state, ended, ghosts, Exits, ApplySucceeds
  <2>3. SessionOK'
    BY <1>12 DEF WorldOK, SessionOK, session, Phases, ApplySucceeds
  <2> QED
    BY <2>1, <2>2, <2>3
<1>13. ASSUME ToolFails PROVE TypeOK'
  <2>1. FlagsOK'
    BY <1>13 DEF FlagsOK, session, ToolFails
  <2>2. WorldOK'
    <3>1. host' \in Docs /\ owned' \subseteq Resources
      BY <1>13, ToolTyped DEF WorldOK, SessionOK, ToolFails
    <3> QED
      BY <1>13, <3>1 DEF WorldOK, SessionOK, files, state, ended, ghosts, Exits, ToolFails, Happens
  <2>3. SessionOK'
    <3>1. mem' \in StateFiles
      BY <1>13, SetResourceTyped DEF SessionOK, Statuses, ToolFails
    <3>2. todo' \in Plans
      BY <1>13, ActionFinished DEF SessionOK, ToolFails, Finish
    <3> QED
      BY <1>13, <3>1, <3>2 DEF SessionOK, Phases, ToolFails
  <2> QED
    BY <2>1, <2>2, <2>3
<1>14. ASSUME PostHooksPass PROVE TypeOK'
  <2>1. FlagsOK'
    BY <1>14 DEF FlagsOK, session, PostHooksPass
  <2>2. WorldOK'
    BY <1>14 DEF WorldOK, files, state, session, ended, ghosts, Exits, PostHooksPass
  <2>3. SessionOK'
    <3>1. mem' \in StateFiles
      BY <1>14, SetResourceTyped DEF SessionOK, Statuses, PostHooksPass
    <3>2. todo' \in Plans
      BY <1>14, ActionFinished DEF SessionOK, PostHooksPass, Finish
    <3> QED
      BY <1>14, <3>1, <3>2 DEF SessionOK, Phases, PostHooksPass
  <2> QED
    BY <2>1, <2>2, <2>3
<1>15. ASSUME PostHookFails PROVE TypeOK'
  <2>1. FlagsOK'
    BY <1>15 DEF FlagsOK, session, PostHookFails
  <2>2. WorldOK'
    BY <1>15 DEF WorldOK, SessionOK, files, state, ended, Exits, PostHookFails, Happens
  <2>3. SessionOK'
    <3>1. mem' \in StateFiles
      BY <1>15, SetResourceTyped DEF SessionOK, Statuses, PostHookFails
    <3>2. todo' \in Plans
      BY <1>15, ActionFinished DEF SessionOK, PostHookFails, Finish
    <3> QED
      BY <1>15, <3>1, <3>2 DEF SessionOK, Phases, PostHookFails
  <2> QED
    BY <2>1, <2>2, <2>3
<1>16. ASSUME ExecuteReturns PROVE TypeOK'
  <2>1. FlagsOK'
    BY <1>16 DEF FlagsOK, session, ExecuteReturns
  <2>2. WorldOK'
    BY <1>16 DEF WorldOK, files, state, session, ended, ghosts, Exits, ExecuteReturns
  <2>3. SessionOK'
    BY <1>16 DEF WorldOK, SessionOK, session, Phases, ExecuteReturns
  <2> QED
    BY <2>1, <2>2, <2>3
<1>17. ASSUME SaveState PROVE TypeOK'
  <2>1. FlagsOK'
    BY <1>17 DEF FlagsOK, session, SaveState, End
  <2>2. WorldOK'
    <3>1. Stamped \in StateFiles
      BY StampTyped DEF Stamped, SessionOK
    <3> QED
      BY <1>17, <3>1 DEF WorldOK, files, ended, ghosts, Exits, SaveState, Save, End, Worst
  <2>3. SessionOK'
    BY <1>17 DEF WorldOK, SessionOK, session, Phases, SaveState, End, Worst
  <2> QED
    BY <2>1, <2>2, <2>3
<1>18. ASSUME SaveFails PROVE TypeOK'
  <2>1. FlagsOK'
    BY <1>18 DEF FlagsOK, session, SaveFails, End
  <2>2. WorldOK'
    BY <1>18 DEF WorldOK, files, state, session, ended, ghosts, Exits, SaveFails, End, Worst, Happens
  <2>3. SessionOK'
    BY <1>18 DEF WorldOK, SessionOK, session, Phases, SaveFails, End, Worst
  <2> QED
    BY <2>1, <2>2, <2>3
<1>19. ASSUME Panic PROVE TypeOK'
  <2>1. FlagsOK'
    BY <1>19 DEF FlagsOK, session, Panic, End
  <2>2. WorldOK'
    <3>1. host' \in Docs /\ owned' \subseteq Resources
      BY <1>19, ToolTyped DEF WorldOK, SessionOK, Panic
    <3> QED
      BY <1>19, <3>1 DEF WorldOK, SessionOK, files, state, ended, ghosts, Exits, Panic, Save, End, Worst, Happens
  <2>3. SessionOK'
    BY <1>19 DEF WorldOK, SessionOK, session, Phases, Panic, End, Worst
  <2> QED
    BY <2>1, <2>2, <2>3
<1>20. ASSUME Kill PROVE TypeOK'
  <2>1. FlagsOK'
    BY <1>20 DEF FlagsOK, session, Kill, End
  <2>2. WorldOK'
    <3>1. host' \in Docs /\ owned' \subseteq Resources
      BY <1>20, ToolTyped DEF WorldOK, SessionOK, Kill
    <3> QED
      BY <1>20, <3>1 DEF WorldOK, SessionOK, files, state, ended, ghosts, Exits, Kill, End, Worst, Happens
  <2>3. SessionOK'
    BY <1>20 DEF WorldOK, SessionOK, session, Phases, Kill, End, Worst
  <2> QED
    BY <2>1, <2>2, <2>3
<1>21. ASSUME Cancel PROVE TypeOK'
  <2>1. FlagsOK'
    BY <1>21 DEF FlagsOK, session, Cancel
  <2>2. WorldOK'
    BY <1>21 DEF WorldOK, files, state, session, ended, ghosts, Exits, Cancel, Happens
  <2>3. SessionOK'
    BY <1>21 DEF WorldOK, SessionOK, session, Phases, Cancel
  <2> QED
    BY <2>1, <2>2, <2>3
<1>22. ASSUME NEW r \in Resources, NEW c \in Contents \cup {"absent"}, EditEntry(r, c) PROVE TypeOK'
  <2>1. FlagsOK'
    BY <1>22 DEF FlagsOK, session, EditEntry
  <2>2. WorldOK'
    <3>1. hamsfile' \in Docs
      BY <1>22, DocUpdated DEF WorldOK, EditEntry
    <3> QED
      BY <1>22, <3>1 DEF WorldOK, state, ended, ghosts, EditEntry, Happens
  <2>3. SessionOK'
    BY <1>22 DEF WorldOK, SessionOK, session, Phases, EditEntry
  <2> QED
    BY <2>1, <2>2, <2>3
<1>23. ASSUME NEW s \in {"present", "missing", "broken"}, FileBecomes(s) PROVE TypeOK'
  <2>1. FlagsOK'
    BY <1>23 DEF FlagsOK, session, FileBecomes
  <2>2. WorldOK'
    BY <1>23 DEF WorldOK, files, state, session, ended, ghosts, Exits, FileBecomes, Happens
  <2>3. SessionOK'
    BY <1>23 DEF WorldOK, SessionOK, session, Phases, FileBecomes
  <2> QED
    BY <2>1, <2>2, <2>3
<1>24. ASSUME NEW r \in Resources, UninstallByHand(r) PROVE TypeOK'
  <2>1. FlagsOK'
    BY <1>24 DEF FlagsOK, session, UninstallByHand
  <2>2. WorldOK'
    <3>1. host' \in Docs
      BY <1>24, DocUpdated DEF WorldOK, UninstallByHand
    <3> QED
      BY <1>24, <3>1 DEF WorldOK, files, state, ended, UninstallByHand, Happens
  <2>3. SessionOK'
    BY <1>24 DEF WorldOK, SessionOK, session, Phases, UninstallByHand
  <2> QED
    BY <2>1, <2>2, <2>3
<1>25. ASSUME NEW s \in {"corrupt", "missing"}, StateBecomes(s) PROVE TypeOK'
  <2>1. FlagsOK'
    BY <1>25 DEF FlagsOK, session, StateBecomes
  <2>2. WorldOK'
    BY <1>25 DEF WorldOK, files, state, session, ended, ghosts, Exits, StateBecomes, Happens
  <2>3. SessionOK'
    BY <1>25 DEF WorldOK, SessionOK, session, Phases, StateBecomes
  <2> QED
    BY <2>1, <2>2, <2>3
<1>26. CASE UNCHANGED vars
  BY <1>26 DEF vars, files, state, session, ended, ghosts, WorldOK, SessionOK, FlagsOK
<1> QED
  BY <1>1, <1>2, <1>3, <1>4, <1>5, <1>6, <1>7, <1>8, <1>9, <1>10, <1>11, <1>12, <1>13, <1>14, <1>15, <1>16, <1>17, <1>18, <1>19, <1>20, <1>21, <1>22, <1>23, <1>24, <1>25, <1>26
  DEF Next, Start, SessionStep, ProbeStep, ActionStep, World

(* Every variable keeps its type, and a session has a current resource     *)
(* exactly while it applies one or runs its post-hooks.                    *)
THEOREM Typing == Spec => []TypeOK
BY TypeInit, TypeStep, PTL DEF Spec

-----------------------------------------------------------------------------
(* The inductive invariant of a session.  Its parts relate what is still   *)
(* to do to what the host has and the state file says.                     *)
Reconciling == phase \in {"exec", "apply", "post", "save"}

(* An apply was selected with a hamsfile, unless orphans are to be pruned. *)
Selected ==
  phase \notin {"idle", "refresh"} => prune \/ found # "none"

(* Once a probe has reached the state file, what it says is ok is on the   *)
(* host, for as long as the session has not begun to act.                  *)
ProbeKnown ==
  /\ phase \in {"idle", "refresh", "probe"} => ~probed
  /\ phase = "load" /\ probed =>
       \A r \in Resources : disk.st[r] = "ok" => host[r] # "absent"

PlanFitsDoc ==
  Reconciling => \A r \in Resources :
    /\ doc[r] = "absent" => todo[r] \in {"none", "remove"}
    /\ todo[r] = "remove" => doc[r] = "absent"

CurrentPlanned ==
  /\ phase \in {"apply", "post"} => todo[cur] \notin {"none", "skip"}
  /\ phase = "post" => todo[cur] # "remove" /\ host[cur] = doc[cur]

InstallsPlanned ==
  Reconciling /\ probed /\ ~failed /\ ~cancelled =>
    \A r \in Resources : doc[r] # "absent" =>
      host[r] # "absent" \/ todo[r] \in {"install", "update"}

RemovalsPlanned ==
  Reconciling => \A r \in Resources : doc[r] = "absent" /\ todo[r] # "none" =>
    Tracked(disk, r) /\ (disk.hash # NoHash \/ prune)

PrunesPlanned ==
  Reconciling /\ ~failed /\ ~cancelled /\ disk.hash # NoHash =>
    \A r \in Resources : doc[r] = "absent" => todo[r] = "remove" \/ ~Tracked(mem, r)

DoneIsRecorded ==
  Reconciling /\ ~failed =>
    \A r \in Resources : doc[r] # "absent" /\ todo[r] \in {"none", "skip"} =>
      mem.st[r] \in {"ok", "hook-failed"}

BaselineKept ==
  Reconciling => mem.hash = disk.hash \/ (mem.hash = doc /\ doc = EmptyDoc)

NothingLeft == phase = "save" => todo = NoPlan \/ cancelled

StateReadable == Reconciling => stateStatus # "corrupt"

SessionInv ==
  /\ Selected /\ ProbeKnown /\ PlanFitsDoc /\ CurrentPlanned
  /\ InstallsPlanned /\ RemovalsPlanned /\ PrunesPlanned
  /\ DoneIsRecorded /\ BaselineKept /\ NothingLeft /\ StateReadable

(* Seen from the invariant there are six kinds of steps: those that end a  *)
(* session, those that begin or probe, the plan, the actions, their end,   *)
(* and those that leave a session as it is.                                *)
Ends == phase' = "idle" /\ ~probed'

Prepares ==
  /\ phase' \in {"refresh", "probe", "load"}
  /\ phase' # "refresh" => prune' \/ found' # "none"
  /\ probed' => phase' = "load" /\ disk' = Probe(disk, host) /\ host' = host

Stays ==
  /\ UNCHANGED <<phase, prune, found, doc, mem, todo, cur, failed, probed>>
  /\ cancelled => cancelled'
  /\ phase # "idle" => UNCHANGED <<host, state>>

LEMMA StepKinds ==
  ASSUME TypeOK, Selected, ProbeKnown, [Next]_vars
  PROVE  Ends \/ Prepares \/ LoadAndPlan \/ ActionStep \/ ExecuteReturns \/ Stays
<1> USE DEF Ends, Prepares, Stays, files, state, session, ended, ghosts
<1>1. ASSUME NEW refresh \in BOOLEAN, NEW withPrune \in BOOLEAN,
             StartApply(refresh, withPrune)
      PROVE  Prepares
  BY <1>1 DEF StartApply, IsStateOnly, ProbeKnown
<1>2. ASSUME StartRefresh PROVE Prepares
  BY <1>2 DEF StartRefresh, ProbeKnown
<1>3. ASSUME ProbeStep PROVE Ends \/ Prepares
  BY <1>3 DEF ProbeStep, ProbeOmitted, ProbeSaveFails, ProbeSaved, ProbeLost,
              Save, End, ProbeKnown, Selected
<1>4. ASSUME SkipProvider \/ SaveState \/ SaveFails \/ Panic \/ Kill PROVE Ends
  BY <1>4 DEF SkipProvider, SaveState, SaveFails, Panic, Kill, End
<1>5. ASSUME Cancel PROVE Stays
  BY <1>5 DEF Cancel
<1>6. ASSUME NEW r \in Resources, NEW c \in Contents \cup {"absent"}, EditEntry(r, c)
      PROVE  Stays
  BY <1>6 DEF EditEntry
<1>7. ASSUME NEW s \in {"present", "missing", "broken"}, FileBecomes(s) PROVE Stays
  BY <1>7 DEF FileBecomes
<1>8. ASSUME NEW r \in Resources, UninstallByHand(r) PROVE Stays
  BY <1>8 DEF UninstallByHand
<1>9. ASSUME NEW s \in {"corrupt", "missing"}, StateBecomes(s) PROVE Stays
  BY <1>9 DEF StateBecomes
<1>10. CASE UNCHANGED vars
  BY <1>10 DEF vars
<1> QED
  BY <1>1, <1>2, <1>3, <1>4, <1>5, <1>6, <1>7, <1>8, <1>9, <1>10
  DEF Next, Start, SessionStep, World

LEMMA SessionInvInductive ==
  ASSUME TypeOK, SessionInv, [Next]_vars
  PROVE  SessionInv'
<1> USE AbsentAssumption, NoneAssumption
    DEF TypeOK, SessionOK, SessionInv, Selected, ProbeKnown, PlanFitsDoc, CurrentPlanned,
        InstallsPlanned, RemovalsPlanned, PrunesPlanned, DoneIsRecorded,
        BaselineKept, NothingLeft, StateReadable, Reconciling
<1>1. CASE Ends
  BY <1>1 DEF Ends
<1>2. CASE Prepares
  BY <1>2, ProbeIsTruthful DEF Prepares, WorldOK
<1>3. CASE Stays
  BY <1>3 DEF Stays, state
<1>4. CASE LoadAndPlan
  <2> DEFINE plan == PlanOf(doc', mem')
  <2>1. /\ doc' \in Docs /\ mem' \in StateFiles /\ todo' = plan
        /\ phase' = "exec" /\ UNCHANGED <<host, state, probed, failed, cancelled, prune, cur>>
        /\ prune' \/ found' # "none"
    BY <1>4, StatesTyped, StampTyped DEF WorldOK, LoadAndPlan, PlanOf
  <2>2. mem'.st = disk.st
    BY <1>4 DEF WorldOK, StateFiles, LoadAndPlan
  <2>3. \/ mem'.hash = disk.hash
        \/ mem'.hash = doc' /\ doc' = EmptyDoc /\ prune /\ disk.hash = NoHash
    BY <1>4, StatesTyped DEF WorldOK, StateFiles, LoadAndPlan
  <2>4. \A r \in Resources : doc'[r] # "absent" =>
          plan[r] \in {"install", "update"} \/ (plan[r] = "skip" /\ disk.st[r] = "ok")
    BY <2>1, <2>2, PlanInstalls
  <2>5. \A r \in Resources : doc'[r] = "absent" =>
          plan[r] = IF mem'.hash # NoHash /\ Tracked(mem', r) THEN "remove" ELSE "none"
    BY <2>1, PlanRemoves
  <2>6. \A r \in Resources : Tracked(mem', r) <=> Tracked(disk, r)
    BY <2>2 DEF Tracked
  <2>7. Selected' /\ PlanFitsDoc' /\ CurrentPlanned' /\ ProbeKnown' /\ NothingLeft'
    BY <2>1, <2>4, <2>5
  <2>8. InstallsPlanned'
    BY <1>4, <2>1, <2>4 DEF LoadAndPlan, state
  <2>9. RemovalsPlanned'
    BY <2>1, <2>3, <2>5, <2>6 DEF state
  <2>10. PrunesPlanned'
    BY <2>1, <2>3, <2>5, <2>6 DEF state
  <2>11. DoneIsRecorded'
    BY <2>1, <2>2, <2>4
  <2>12. BaselineKept' /\ StateReadable'
    BY <1>4, <2>1, <2>3 DEF LoadAndPlan, state
  <2> QED
    BY <2>7, <2>8, <2>9, <2>10, <2>11, <2>12
<1>5. ASSUME NEW r \in Resources, TakeSkip(r) PROVE SessionInv'
  BY <1>5 DEF TakeSkip, MayTake, Finish, state
<1>6. ASSUME NEW r \in Resources, BeginAction(r) PROVE SessionInv'
  <2>1. /\ mem'.hash = mem.hash
        /\ mem'.st = IF todo[r] = "install" THEN [mem.st EXCEPT ![r] = "pending"]
                     ELSE mem.st
    BY <1>6, SetResourceSets DEF BeginAction, Statuses
  <2>2. \A q \in Resources : mem'.st[q] # mem.st[q] => q = r /\ todo[r] = "install"
    BY <2>1 DEF StateFiles
  <2>3. /\ UNCHANGED <<doc, todo, host, disk, stateStatus, prune, found, probed,
                       failed, cancelled>>
        /\ phase = "exec" /\ phase' = "apply" /\ cur' = r /\ todo[r] \notin {"none", "skip"}
    BY <1>6 DEF BeginAction, MayTake, state
  <2>4. PrunesPlanned' /\ DoneIsRecorded' /\ BaselineKept'
    BY <2>1, <2>2, <2>3 DEF Tracked
  <2>5. Selected' /\ ProbeKnown' /\ PlanFitsDoc' /\ CurrentPlanned' /\ InstallsPlanned'
        /\ RemovalsPlanned' /\ NothingLeft' /\ StateReadable'
    BY <2>3
  <2> QED
    BY <2>4, <2>5
<1>7. ASSUME NEW r \in Resources, PreHookFails(r) PROVE SessionInv'
  BY <1>7 DEF PreHookFails, MayTake, Finish, SetResource, state
<1>8. CASE RemoveSucceeds
  <2>1. mem'.hash = mem.hash /\ mem'.st = [mem.st EXCEPT ![cur] = "removed"]
    BY <1>8, SetResourceSets DEF RemoveSucceeds, Statuses
  <2>2. /\ todo' = [todo EXCEPT ![cur] = "none"] /\ cur \in Resources
        /\ host' = [host EXCEPT ![cur] = doc[cur]] /\ todo[cur] = "remove"
        /\ phase = "apply" /\ phase' = "exec"
        /\ UNCHANGED <<doc, disk, stateStatus, prune, found, probed, failed, cancelled>>
    BY <1>8 DEF RemoveSucceeds, ToolRuns, Finish, state
  <2>3. InstallsPlanned'
    BY <2>2 DEF WorldOK, Docs, Plans
  <2>4. PrunesPlanned' /\ DoneIsRecorded'
    BY <2>1, <2>2 DEF Tracked, StateFiles, Plans
  <2>5. Selected' /\ ProbeKnown' /\ PlanFitsDoc' /\ CurrentPlanned' /\ RemovalsPlanned'
        /\ BaselineKept' /\ NothingLeft' /\ StateReadable'
    BY <2>1, <2>2 DEF Plans
  <2> QED
    BY <2>3, <2>4, <2>5
<1>9. CASE ApplySucceeds
  <2>1. /\ host' = [host EXCEPT ![cur] = doc[cur]] /\ cur \in Resources
        /\ todo[cur] # "remove" /\ phase = "apply" /\ phase' = "post"
        /\ UNCHANGED <<doc, mem, todo, cur, disk, stateStatus, prune, found, probed, failed, cancelled>>
    BY <1>9 DEF ApplySucceeds, ToolRuns, state
  <2>2. InstallsPlanned' /\ CurrentPlanned'
    BY <2>1 DEF WorldOK, Docs
  <2>3. Selected' /\ ProbeKnown' /\ PlanFitsDoc' /\ RemovalsPlanned' /\ PrunesPlanned'
        /\ DoneIsRecorded' /\ BaselineKept' /\ NothingLeft' /\ StateReadable'
    BY <2>1
  <2> QED
    BY <2>2, <2>3
<1>10. CASE ToolFails
  BY <1>10 DEF ToolFails, Finish, SetResource, state
<1>11. CASE PostHooksPass
  <2>1. mem'.hash = mem.hash /\ mem'.st = [mem.st EXCEPT ![cur] = "ok"]
    BY <1>11, SetResourceSets DEF PostHooksPass, Statuses
  <2>2. /\ todo' = [todo EXCEPT ![cur] = "none"] /\ cur \in Resources
        /\ host[cur] = doc[cur] /\ todo[cur] \notin {"none", "skip", "remove"}
        /\ phase = "post" /\ phase' = "exec"
        /\ UNCHANGED <<host, doc, disk, stateStatus, prune, found, probed, failed, cancelled>>
    BY <1>11 DEF PostHooksPass, Finish, state
  <2>3. doc[cur] # "absent"
    BY <2>2
  <2>4. InstallsPlanned'
    BY <2>2 DEF Plans
  <2>5. PrunesPlanned' /\ DoneIsRecorded'
    BY <2>1, <2>2, <2>3 DEF Tracked, StateFiles, Plans
  <2>6. Selected' /\ ProbeKnown' /\ PlanFitsDoc' /\ CurrentPlanned' /\ RemovalsPlanned'
        /\ BaselineKept' /\ NothingLeft' /\ StateReadable'
    BY <2>1, <2>2 DEF Plans
  <2> QED
    BY <2>4, <2>5, <2>6
<1>12. CASE PostHookFails
  <2>1. mem'.hash = mem.hash /\ mem'.st = [mem.st EXCEPT ![cur] = "hook-failed"]
    BY <1>12, SetResourceSets DEF PostHookFails, Statuses
  <2>2. /\ todo' = [todo EXCEPT ![cur] = "none"] /\ cur \in Resources
        /\ host[cur] = doc[cur] /\ todo[cur] \notin {"none", "skip", "remove"}
        /\ phase = "post" /\ phase' = "exec"
        /\ UNCHANGED <<host, doc, disk, stateStatus, prune, found, probed, failed, cancelled>>
    BY <1>12 DEF PostHookFails, Finish, state
  <2>3. doc[cur] # "absent"
    BY <2>2
  <2>4. InstallsPlanned'
    BY <2>2 DEF Plans
  <2>5. PrunesPlanned' /\ DoneIsRecorded'
    BY <2>1, <2>2, <2>3 DEF Tracked, StateFiles, Plans
  <2>6. Selected' /\ ProbeKnown' /\ PlanFitsDoc' /\ CurrentPlanned' /\ RemovalsPlanned'
        /\ BaselineKept' /\ NothingLeft' /\ StateReadable'
    BY <2>1, <2>2 DEF Plans
  <2> QED
    BY <2>4, <2>5, <2>6
<1>13. CASE ExecuteReturns
  BY <1>13 DEF ExecuteReturns, state
<1> QED
  BY <1>1, <1>2, <1>3, <1>4, <1>5, <1>6, <1>7, <1>8, <1>9, <1>10, <1>11,
     <1>12, <1>13, StepKinds DEF ActionStep

LEMMA SessionInvInit == Init => SessionInv
BY DEF Init, SessionInv, Selected, ProbeKnown, PlanFitsDoc, CurrentPlanned,
       InstallsPlanned, RemovalsPlanned, PrunesPlanned, DoneIsRecorded,
       BaselineKept, NothingLeft, StateReadable, Reconciling

LEMMA SessionInvAlways == Spec => []SessionInv
BY SessionInvInit, SessionInvInductive, Typing, PTL DEF Spec

-----------------------------------------------------------------------------
(* The only steps from "save" to "idle" that report success are SaveStates *)
(* of a session without failures.                                          *)
LEMMA SuccessIsASave ==
  ASSUME TypeOK, [Next]_vars, Succeeds
  PROVE  SaveState /\ ~failed /\ ~cancelled
<1>1. ASSUME TypeOK, [Next]_vars, Succeeds PROVE SaveState \/ SaveFails \/ Kill
  BY <1>1
  DEF Succeeds, Next, Start, SessionStep, ProbeStep, ActionStep, World,
      StartApply, StartRefresh, ProbeOmitted, ProbeSaveFails, ProbeSaved,
      SkipProvider, LoadAndPlan, TakeSkip, BeginAction, PreHookFails, MayTake,
      RemoveSucceeds, ApplySucceeds, ToolFails, PostHooksPass, PostHookFails,
      ExecuteReturns, Panic, Cancel, EditEntry, FileBecomes, UninstallByHand,
      StateBecomes, vars, session
<1>2. SaveState
  BY <1>1 DEF SaveFails, Kill, End, Succeeds
<1> QED
  BY <1>2 DEF SaveState, End, Succeeds

LEMMA SaveInstalls ==
  ASSUME TypeOK, SessionInv, [Next]_vars, Succeeds, probed,
         NEW r \in Resources, doc[r] # "absent"
  PROVE  host[r] # "absent"
BY SuccessIsASave
DEF SaveState, SessionInv, InstallsPlanned, NothingLeft, Reconciling, NoPlan

(* A successful apply that probed leaves every declared resource on the    *)
(* host.                                                                   *)
THEOREM SuccessInstalls == Spec => SuccessMeansPresent
<1>1. TypeOK /\ SessionInv /\ [Next]_vars =>
        (Succeeds /\ probed =>
           \A r \in Resources : doc[r] # "absent" => host[r] # "absent")
  BY SaveInstalls
<1> QED
  BY <1>1, Typing, SessionInvAlways, PTL DEF Spec, SuccessMeansPresent

LEMMA SavePrunes ==
  ASSUME TypeOK, SessionInv, [Next]_vars, Succeeds, disk.hash # NoHash,
         NEW r \in Resources, doc[r] = "absent"
  PROVE  ~Tracked(disk', r)
<1>1. ~Tracked(mem, r)
  BY SuccessIsASave
  DEF SaveState, SessionInv, PrunesPlanned, NothingLeft, Reconciling, NoPlan
<1>2. disk'.st = mem.st
  BY SuccessIsASave DEF SaveState, Save, Stamped, TypeOK, SessionOK, StateFiles
<1> QED
  BY <1>1, <1>2 DEF Tracked

(* A successful apply over a baseline leaves no record of an undeclared    *)
(* resource but tombstones.                                                *)
THEOREM SuccessPrunes == Spec => SuccessMeansPruned
<1>1. TypeOK /\ SessionInv /\ [Next]_vars =>
        (Succeeds /\ disk.hash # NoHash =>
           \A r \in Resources : doc[r] = "absent" => ~Tracked(disk', r))
  BY SavePrunes
<1> QED
  BY <1>1, Typing, SessionInvAlways, PTL DEF Spec, SuccessMeansPruned

(* A session changes the host only where its current action is, and to     *)
(* what its document says.                                                 *)
LEMMA HostChanges ==
  ASSUME TypeOK, [Next]_vars, phase # "idle",
         NEW r \in Resources, host'[r] # host[r]
  PROVE  phase = "apply" /\ r = cur /\ host'[r] = doc[r]
<1>1. UNCHANGED host \/ (phase = "apply" /\ ToolMayHaveRun)
  BY DEF Next, Start, SessionStep, ProbeStep, ActionStep, World, StartApply,
         StartRefresh, ProbeOmitted, ProbeSaveFails, ProbeSaved, ProbeLost,
         SkipProvider, LoadAndPlan, TakeSkip, BeginAction, PreHookFails,
         RemoveSucceeds, ApplySucceeds, ToolFails, PostHooksPass, PostHookFails,
         ExecuteReturns, SaveState, SaveFails, Panic, Kill, Cancel, EditEntry,
         FileBecomes, UninstallByHand, StateBecomes, ToolMayHaveRun, vars
<1> QED
  BY <1>1 DEF ToolMayHaveRun, ToolRuns, TypeOK, WorldOK, Docs

LEMMA RemovalPlanned ==
  ASSUME TypeOK, SessionInv, [Next]_vars, NEW r \in Resources, Removes(r)
  PROVE  /\ doc[r] = "absent" /\ Tracked(disk, r)
         /\ prune \/ (disk.hash # NoHash /\ found \in {"file", "vanished"})
<1>1. phase = "apply" /\ r = cur /\ doc[r] = "absent"
  BY HostChanges DEF Removes
<1>2. todo[r] # "none"
  BY <1>1 DEF SessionInv, CurrentPlanned
<1>3. prune \/ found \in {"file", "vanished"}
  BY <1>1 DEF SessionInv, Selected, TypeOK, FlagsOK
<1> QED
  BY <1>1, <1>2, <1>3 DEF SessionInv, RemovalsPlanned, Reconciling

(* A session uninstalls only what its document does not name and the state *)
(* file tracks, and unless orphans are to be pruned, only over a baseline  *)
(* and for a hamsfile that was there when the provider was selected.       *)
THEOREM RemovesOnlyWarranted == Spec => RemovalIsWarranted
<1>1. TypeOK /\ SessionInv /\ [Next]_vars =>
        (\A r \in Resources : Removes(r) =>
           /\ doc[r] = "absent" /\ Tracked(disk, r)
           /\ prune \/ (disk.hash # NoHash /\ found \in {"file", "vanished"}))
  BY RemovalPlanned
<1> QED
  BY <1>1, Typing, SessionInvAlways, PTL DEF Spec, RemovalIsWarranted

LEMMA StateNotReplaced ==
  ASSUME TypeOK, SessionInv, [Next]_vars, stateStatus = "corrupt"
  PROVE  stateStatus' # "valid"
<1>1. ~SaveState /\ ~Panic /\ ~ProbeSaved
  BY DEF SessionInv, StateReadable, Reconciling, SaveState, Panic, ProbeSaved
<1> QED
  BY <1>1
  DEF Next, Start, SessionStep, ProbeStep, ActionStep, World, StartApply,
      StartRefresh, ProbeOmitted, ProbeSaveFails, ProbeLost, SkipProvider,
      LoadAndPlan, TakeSkip, BeginAction, PreHookFails, RemoveSucceeds,
      ApplySucceeds, ToolFails, PostHooksPass, PostHookFails, ExecuteReturns,
      SaveFails, Kill, Cancel, EditEntry, FileBecomes, UninstallByHand,
      StateBecomes, vars, state

(* hams never replaces a state file it could not read.                     *)
THEOREM UnreadableIsKept == Spec => UnreadableStateIsKept
<1>1. TypeOK /\ SessionInv /\ [Next]_vars =>
        (stateStatus = "corrupt" => stateStatus' # "valid")
  BY StateNotReplaced
<1> QED
  BY <1>1, Typing, SessionInvAlways, PTL DEF Spec, UnreadableStateIsKept

LEMMA SaveStamps ==
  ASSUME TypeOK, SessionInv, ~cancelled, [Next]_vars,
         phase = "save", disk'.hash # disk.hash,
         NEW r \in Resources, disk'.hash[r] # "absent"
  PROVE  disk'.st[r] \in {"ok", "hook-failed"}
<1>1. SaveState
  BY DEF Next, Start, SessionStep, ProbeStep, ActionStep, World, StartApply,
         StartRefresh, ProbeOmitted, ProbeSaveFails, ProbeSaved, SkipProvider,
         LoadAndPlan, TakeSkip, BeginAction, PreHookFails, MayTake,
         RemoveSucceeds, ApplySucceeds, ToolFails, PostHooksPass, PostHookFails,
         ExecuteReturns, SaveFails, Panic, Kill, Cancel, EditEntry, FileBecomes,
         UninstallByHand, StateBecomes, vars, state
<1>2. todo = NoPlan
  BY DEF SessionInv, NothingLeft
<1>3. disk' = Stamped
  BY <1>1 DEF SaveState, Save
<1>4. CASE failed
  <2>1. disk'.hash = EmptyDoc
    BY <1>3, <1>4 DEF Stamped, SessionInv, BaselineKept, Reconciling
  <2> QED
    BY <2>1 DEF EmptyDoc
<1>5. CASE ~failed
  <2>1. disk'.hash = doc /\ disk'.st = mem.st
    BY <1>3, <1>5 DEF Stamped, TypeOK, SessionOK, StateFiles
  <2> QED
    BY <1>2, <1>5, <2>1 DEF SessionInv, DoneIsRecorded, Reconciling, NoPlan
<1> QED
  BY <1>4, <1>5

(* A session that was not cancelled stamps a document as applied only when *)
(* every resource it names was; run apply_cancelled shows why cancelled    *)
(* sessions are excepted.                                                  *)
THEOREM StampsHonestly == Spec => UncancelledStampIsHonest
<1>1. TypeOK /\ SessionInv /\ [Next]_vars =>
        (phase = "save" /\ disk'.hash # disk.hash /\ ~cancelled =>
           \A r \in Resources : disk'.hash[r] # "absent"
                                  => disk'.st[r] \in {"ok", "hook-failed"})
  BY SaveStamps
<1> QED
  BY <1>1, Typing, SessionInvAlways, PTL DEF Spec, UncancelledStampIsHonest

-----------------------------------------------------------------------------
(* What hams installed is tracked: by the state file between sessions, by  *)
(* the session's copy of it while the session reconciles.                  *)
Remembered == IF Reconciling THEN mem ELSE disk

OwnedTracked == past # "lost" => \A r \in owned : Tracked(Remembered, r)

(* An action that installs or updates is of a tracked resource by the time *)
(* its tool runs: an install has been recorded as pending.                 *)
UpdatesTracked ==
  Reconciling => \A r \in Resources : todo[r] = "update" => Tracked(mem, r)

CurrentTracked ==
  phase \in {"apply", "post"} /\ todo[cur] # "remove" => Tracked(mem, cur)

RecordInv == OwnedTracked /\ UpdatesTracked /\ CurrentTracked

LEMMA RecordInvInductive ==
  ASSUME TypeOK, SessionInv, RecordInv, [Next]_vars
  PROVE  RecordInv'
<1> USE NoneAssumption
    DEF TypeOK, SessionOK, RecordInv, OwnedTracked, UpdatesTracked,
        CurrentTracked, Remembered, Reconciling, ended, ghosts, state
<1>1. ASSUME NEW refresh \in BOOLEAN, NEW withPrune \in BOOLEAN,
             StartApply(refresh, withPrune)
      PROVE  RecordInv'
  BY <1>1 DEF StartApply
<1>2. ASSUME StartRefresh PROVE RecordInv'
  BY <1>2 DEF StartRefresh
<1>3. ASSUME ProbeOmitted \/ ProbeSaveFails PROVE RecordInv'
  BY <1>3 DEF ProbeOmitted, ProbeSaveFails, ProbeLost, End, Worst
<1>4. ASSUME ProbeSaved PROVE RecordInv'
  <2>1. \A r \in Resources : Tracked(disk, r) => Tracked(Probe(disk, host), r)
    BY ProbeIsTruthful DEF WorldOK
  <2> QED
    BY <1>4, <2>1 DEF WorldOK, ProbeSaved, Save, End, Worst
<1>5. ASSUME SkipProvider PROVE RecordInv'
  BY <1>5 DEF SkipProvider, End, Worst
<1>6. ASSUME LoadAndPlan PROVE RecordInv'
  <2>1. /\ mem'.st = disk.st /\ phase' = "exec" /\ phase = "load"
        /\ UNCHANGED <<owned, past, cur>>
    BY <1>6 DEF WorldOK, StateFiles, LoadAndPlan
  <2>2. doc' \in Docs /\ mem' \in StateFiles /\ todo' = PlanOf(doc', mem')
    BY <1>6, StatesTyped, StampTyped DEF WorldOK, LoadAndPlan, PlanOf
  <2>3. \A r \in Resources : todo'[r] = "update" => mem'.st[r] = "ok"
    BY <2>2, PlanUpdatesOk
  <2> QED
    BY <2>1, <2>3 DEF Tracked
<1>7. ASSUME NEW r \in Resources, TakeSkip(r) PROVE RecordInv'
  BY <1>7 DEF TakeSkip, MayTake, Finish, Plans
<1>8. ASSUME NEW r \in Resources, BeginAction(r) PROVE RecordInv'
  <2>1. mem'.st = IF todo[r] = "install" THEN [mem.st EXCEPT ![r] = "pending"]
                  ELSE mem.st
    BY <1>8, SetResourceSets DEF BeginAction, Statuses
  <2>2. /\ phase = "exec" /\ phase' = "apply" /\ cur' = r
        /\ todo[r] \in {"install", "update", "remove"}
        /\ UNCHANGED <<todo, owned, past>>
    BY <1>8 DEF BeginAction, MayTake, Plans, Actions
  <2> QED
    BY <2>1, <2>2 DEF Tracked, StateFiles, WorldOK
<1>9. ASSUME NEW r \in Resources, PreHookFails(r) PROVE RecordInv'
  <2>1. mem'.st = [mem.st EXCEPT ![r] = "failed"]
    BY <1>9, SetResourceSets DEF PreHookFails, Statuses
  <2>2. /\ phase = "exec" /\ UNCHANGED <<phase, cur, owned, past>>
        /\ todo' = [todo EXCEPT ![r] = "none"]
    BY <1>9 DEF PreHookFails, MayTake, Finish
  <2> QED
    BY <2>1, <2>2 DEF Tracked, StateFiles, WorldOK, Plans
<1>10. ASSUME RemoveSucceeds PROVE RecordInv'
  <2>1. mem'.st = [mem.st EXCEPT ![cur] = "removed"] /\ doc[cur] = "absent"
    BY <1>10, SetResourceSets DEF RemoveSucceeds, Statuses, SessionInv, PlanFitsDoc
  <2>2. /\ phase = "apply" /\ phase' = "exec" /\ owned' = owned \ {cur}
        /\ todo' = [todo EXCEPT ![cur] = "none"] /\ UNCHANGED past
    BY <1>10, <2>1 DEF RemoveSucceeds, ToolRuns, Finish
  <2> QED
    BY <2>1, <2>2 DEF Tracked, StateFiles, WorldOK, Plans
<1>11. ASSUME ApplySucceeds PROVE RecordInv'
  BY <1>11 DEF ApplySucceeds, ToolRuns
<1>12. ASSUME ToolFails PROVE RecordInv'
  <2>1. mem'.st = [mem.st EXCEPT ![cur] = "failed"] /\ cur \in Resources
    BY <1>12, SetResourceSets DEF ToolFails, Statuses
  <2>2. /\ phase = "apply" /\ phase' = "exec" /\ owned' \subseteq owned \cup {cur}
        /\ todo' = [todo EXCEPT ![cur] = "none"] /\ UNCHANGED past
    BY <1>12 DEF ToolFails, ToolMayHaveRun, ToolRuns, Finish
  <2> QED
    BY <2>1, <2>2 DEF Tracked, StateFiles, WorldOK, Plans
<1>13. ASSUME PostHooksPass PROVE RecordInv'
  <2>1. mem'.st = [mem.st EXCEPT ![cur] = "ok"] /\ cur \in Resources
    BY <1>13, SetResourceSets DEF PostHooksPass, Statuses
  <2>2. /\ phase = "post" /\ phase' = "exec"
        /\ todo' = [todo EXCEPT ![cur] = "none"] /\ UNCHANGED <<owned, past>>
    BY <1>13 DEF PostHooksPass, Finish
  <2> QED
    BY <2>1, <2>2 DEF Tracked, StateFiles, WorldOK, Plans
<1>14. ASSUME PostHookFails PROVE RecordInv'
  <2>1. mem'.st = [mem.st EXCEPT ![cur] = "hook-failed"] /\ cur \in Resources
    BY <1>14, SetResourceSets DEF PostHookFails, Statuses
  <2>2. /\ phase = "post" /\ phase' = "exec"
        /\ todo' = [todo EXCEPT ![cur] = "none"] /\ UNCHANGED <<owned, past>>
    BY <1>14 DEF PostHookFails, Finish
  <2> QED
    BY <2>1, <2>2 DEF Tracked, StateFiles, WorldOK, Plans
<1>15. ASSUME ExecuteReturns PROVE RecordInv'
  BY <1>15 DEF ExecuteReturns
<1>16. ASSUME SaveState PROVE RecordInv'
  <2>1. disk'.st = mem.st
    BY <1>16 DEF SaveState, Save, Stamped, StateFiles
  <2> QED
    BY <1>16, <2>1 DEF SaveState, End, Worst, Tracked
<1>17. ASSUME SaveFails PROVE RecordInv'
  BY <1>17 DEF SaveFails, End, Worst
<1>18. ASSUME Panic PROVE RecordInv'
  <2>1. owned' \subseteq owned \cup (IF doc[cur] = "absent" THEN {} ELSE {cur})
    BY <1>18 DEF Panic, ToolMayHaveRun, ToolRuns
  <2>2. doc[cur] # "absent" => Tracked(mem, cur)
    BY <1>18 DEF Panic, SessionInv, PlanFitsDoc
  <2> QED
    BY <1>18, <2>1, <2>2 DEF Panic, Save, End, Worst, Tracked
<1>19. ASSUME Kill PROVE RecordInv'
  BY <1>19 DEF Kill, End, Worst
<1>20. ASSUME Cancel PROVE RecordInv'
  BY <1>20 DEF Cancel
<1>21. ASSUME NEW r \in Resources, NEW c \in Contents \cup {"absent"}, EditEntry(r, c)
       PROVE  RecordInv'
  BY <1>21 DEF EditEntry, session
<1>22. ASSUME NEW s \in {"present", "missing", "broken"}, FileBecomes(s)
       PROVE  RecordInv'
  BY <1>22 DEF FileBecomes, session
<1>23. ASSUME NEW r \in Resources, UninstallByHand(r) PROVE RecordInv'
  BY <1>23 DEF UninstallByHand, session
<1>24. ASSUME NEW s \in {"corrupt", "missing"}, StateBecomes(s) PROVE RecordInv'
  BY <1>24 DEF StateBecomes, session
<1>25. CASE UNCHANGED vars
  BY <1>25 DEF vars, session
<1> QED
  BY <1>1, <1>2, <1>3, <1>4, <1>5, <1>6, <1>7, <1>8, <1>9, <1>10, <1>11, <1>12,
     <1>13, <1>14, <1>15, <1>16, <1>17, <1>18, <1>19, <1>20, <1>21, <1>22,
     <1>23, <1>24, <1>25
  DEF Next, Start, SessionStep, ProbeStep, ActionStep, World

LEMMA RecordInvAlways == Spec => []RecordInv
<1>1. Init => RecordInv
  BY DEF Init, RecordInv, OwnedTracked, UpdatesTracked, CurrentTracked, Remembered,
         Reconciling
<1> QED
  BY <1>1, RecordInvInductive, Typing, SessionInvAlways, PTL DEF Spec

(* What hams installed stays tracked, through tool failures, failed hooks, *)
(* panics and Ctrl+C: a later apply can still update or remove it.         *)
THEOREM KeepsRecords == Spec => []InstalledIsRecorded
<1>1. RecordInv => InstalledIsRecorded
  BY DEF RecordInv, OwnedTracked, Remembered, Reconciling, InstalledIsRecorded
<1> QED
  BY <1>1, RecordInvAlways, PTL

-----------------------------------------------------------------------------
(* What is on the host is what hams put there: the tools of a session are  *)
(* the only ones that install.                                             *)
OwnedIsHost == \A r \in Resources : host[r] # "absent" <=> r \in owned

(* As long as no session has failed or died: between sessions, what is on  *)
(* the host has the content the stamped document gives it; and while a     *)
(* session reconciles, so has what it is done with, or has left alone, the *)
(* content of its own document.                                            *)
HostAsStamped ==
  past = "ok" /\ ~Reconciling =>
    \A r \in Resources : host[r] # "absent" =>
      disk.hash # NoHash /\ host[r] = disk.hash[r]

HostAsPlanned ==
  past = "ok" /\ Reconciling /\ ~failed /\ ~cancelled =>
    \A r \in Resources : todo[r] \in {"none", "skip"} => host[r] \in {"absent", doc[r]}

ContentInv == OwnedIsHost /\ HostAsStamped /\ HostAsPlanned

LEMMA ContentInvInductive ==
  ASSUME TypeOK, SessionInv, RecordInv, ContentInv, [Next]_vars
  PROVE  ContentInv'
<1> USE AbsentAssumption, NoneAssumption, NoHashAssumption
    DEF TypeOK, SessionOK, ContentInv, OwnedIsHost, HostAsStamped, HostAsPlanned,
        Reconciling, ended, ghosts, state
<1>1. ASSUME NEW refresh \in BOOLEAN, NEW withPrune \in BOOLEAN,
             StartApply(refresh, withPrune)
      PROVE  ContentInv'
  BY <1>1 DEF StartApply
<1>2. ASSUME StartRefresh PROVE ContentInv'
  BY <1>2 DEF StartRefresh
<1>3. ASSUME ProbeOmitted \/ ProbeSaveFails PROVE ContentInv'
  BY <1>3 DEF ProbeOmitted, ProbeSaveFails, ProbeLost, End, Worst
<1>4. ASSUME ProbeSaved PROVE ContentInv'
  <2>1. disk'.hash = disk.hash
    BY <1>4 DEF ProbeSaved, Save, WorldOK, StateFiles, Probe
  <2>2. ~Reconciling /\ UNCHANGED <<host, owned>> /\ phase' \in {"idle", "load"}
    BY <1>4 DEF ProbeSaved, End
  <2>3. past' = "ok" => past = "ok"
    BY <1>4 DEF ProbeSaved, End, Worst
  <2> QED
    BY <2>1, <2>2, <2>3
<1>5. ASSUME SkipProvider PROVE ContentInv'
  BY <1>5 DEF SkipProvider, End, Worst
<1>6. ASSUME LoadAndPlan PROVE ContentInv'
  <2>1. /\ doc' \in Docs /\ mem' \in StateFiles /\ todo' = PlanOf(doc', mem')
        /\ phase = "load" /\ phase' = "exec"
        /\ UNCHANGED <<host, owned, past, failed, cancelled>>
    BY <1>6, StatesTyped, StampTyped DEF WorldOK, LoadAndPlan, PlanOf
  <2>2. mem'.st = disk.st
    BY <1>6 DEF WorldOK, StateFiles, LoadAndPlan
  <2>3. mem'.hash = disk.hash \/ (mem'.hash = EmptyDoc /\ doc' = EmptyDoc /\ disk.hash = NoHash)
    BY <1>6 DEF WorldOK, StateFiles, LoadAndPlan
  <2>4. ASSUME past = "ok", NEW r \in Resources, todo'[r] \in {"none", "skip"},
               host[r] # "absent"
        PROVE  host[r] = doc'[r]
    <3>1. disk.hash # NoHash /\ host[r] = disk.hash[r] /\ mem'.hash = disk.hash
      BY <2>1, <2>3, <2>4
    <3>2. Tracked(mem', r)
      <4>1. r \in owned
        BY <2>4
      <4>2. Tracked(disk, r)
        BY <2>1, <2>4, <4>1 DEF RecordInv, OwnedTracked, Remembered
      <4> QED
        BY <2>2, <4>2 DEF Tracked
    <3>3. doc'[r] # "absent"
      BY <2>1, <2>4, <3>1, <3>2, PlanRemoves
    <3>4. todo'[r] = "skip"
      BY <2>1, <2>4, <3>3, PlanInstalls
    <3>5. mem'.hash = doc'
      BY <2>1, <3>1, <3>4, PlanSkipsUnchanged
    <3> QED
      BY <3>1, <3>5
  <2> QED
    BY <2>1, <2>4
<1>7. ASSUME NEW r \in Resources, TakeSkip(r) PROVE ContentInv'
  BY <1>7 DEF TakeSkip, MayTake, Finish, Plans
<1>8. ASSUME NEW r \in Resources, BeginAction(r) PROVE ContentInv'
  BY <1>8 DEF BeginAction, MayTake
<1>9. ASSUME NEW r \in Resources, PreHookFails(r) PROVE ContentInv'
  BY <1>9 DEF PreHookFails, MayTake
<1>10. ASSUME ToolMayHaveRun, cur \in Resources PROVE OwnedIsHost'
  BY <1>10 DEF ToolMayHaveRun, ToolRuns, WorldOK, Docs
<1>11. ASSUME RemoveSucceeds PROVE ContentInv'
  <2>1. OwnedIsHost'
    BY <1>10, <1>11 DEF RemoveSucceeds, ToolMayHaveRun
  <2>2. /\ todo' = [todo EXCEPT ![cur] = "none"] /\ cur \in Resources
        /\ host' = [host EXCEPT ![cur] = doc[cur]]
        /\ phase = "apply" /\ phase' = "exec"
        /\ UNCHANGED <<doc, past, failed, cancelled>>
    BY <1>11 DEF RemoveSucceeds, ToolRuns, Finish
  <2>3. HostAsPlanned'
    BY <2>2 DEF WorldOK, Docs, Plans
  <2> QED
    BY <2>1, <2>2, <2>3
<1>12. ASSUME ApplySucceeds PROVE ContentInv'
  <2>1. OwnedIsHost'
    BY <1>10, <1>12 DEF ApplySucceeds, ToolMayHaveRun
  <2>2. /\ UNCHANGED todo /\ cur \in Resources
        /\ host' = [host EXCEPT ![cur] = doc[cur]]
        /\ phase = "apply" /\ phase' = "post"
        /\ UNCHANGED <<doc, past, failed, cancelled>>
    BY <1>12 DEF ApplySucceeds, ToolRuns
  <2>3. HostAsPlanned'
    BY <2>2 DEF WorldOK, Docs
  <2> QED
    BY <2>1, <2>2, <2>3
<1>13. ASSUME ToolFails PROVE ContentInv'
  <2>1. OwnedIsHost'
    BY <1>10, <1>13 DEF ToolFails
  <2> QED
    BY <1>13, <2>1 DEF ToolFails
<1>14. ASSUME PostHooksPass \/ PostHookFails PROVE ContentInv'
  <2>1. /\ todo' = [todo EXCEPT ![cur] = "none"] /\ cur \in Resources
        /\ phase = "post" /\ phase' = "exec"
        /\ UNCHANGED <<host, owned, doc, past, failed, cancelled>>
    BY <1>14 DEF PostHooksPass, PostHookFails, Finish
  <2>2. host[cur] = doc[cur]
    BY <2>1 DEF SessionInv, CurrentPlanned
  <2> QED
    BY <2>1, <2>2 DEF Plans
<1>15. ASSUME ExecuteReturns PROVE ContentInv'
  BY <1>15 DEF ExecuteReturns
<1>16. ASSUME SaveState PROVE ContentInv'
  <2>1. UNCHANGED <<host, owned>> /\ phase = "save" /\ phase' = "idle" /\ disk' = Stamped
    BY <1>16 DEF SaveState, Save, End
  <2>2. ASSUME past' = "ok", NEW r \in Resources, host[r] # "absent"
        PROVE  disk'.hash # NoHash /\ host[r] = disk'.hash[r]
    <3>1. past = "ok" /\ ~failed /\ ~cancelled
      BY <1>16, <2>2 DEF SaveState, End, Worst
    <3>2. todo[r] = "none"
      BY <2>1, <3>1 DEF SessionInv, NothingLeft, NoPlan
    <3>3. disk'.hash = doc /\ doc \in Docs
      BY <2>1, <3>1 DEF Stamped, StateFiles
    <3> QED
      BY <2>1, <2>2, <3>1, <3>2, <3>3
  <2> QED
    BY <2>1, <2>2
<1>17. ASSUME SaveFails PROVE ContentInv'
  BY <1>17 DEF SaveFails, End, Worst
<1>18. ASSUME Panic PROVE ContentInv'
  <2>1. OwnedIsHost'
    BY <1>10, <1>18 DEF Panic
  <2> QED
    BY <1>18, <2>1 DEF Panic, End, Worst
<1>19. ASSUME Kill PROVE ContentInv'
  <2>1. OwnedIsHost'
    BY <1>10, <1>19 DEF Kill
  <2> QED
    BY <1>19, <2>1 DEF Kill, End, Worst
<1>20. ASSUME Cancel PROVE ContentInv'
  BY <1>20 DEF Cancel
<1>21. ASSUME NEW r \in Resources, NEW c \in Contents \cup {"absent"}, EditEntry(r, c)
       PROVE  ContentInv'
  BY <1>21 DEF EditEntry, session
<1>22. ASSUME NEW s \in {"present", "missing", "broken"}, FileBecomes(s)
       PROVE  ContentInv'
  BY <1>22 DEF FileBecomes, session
<1>23. ASSUME NEW r \in Resources, UninstallByHand(r) PROVE ContentInv'
  BY <1>23 DEF UninstallByHand, session, WorldOK, Docs
<1>24. ASSUME NEW s \in {"corrupt", "missing"}, StateBecomes(s) PROVE ContentInv'
  BY <1>24 DEF StateBecomes, session
<1>25. CASE UNCHANGED vars
  BY <1>25 DEF vars, session
<1> QED
  BY <1>1, <1>2, <1>3, <1>4, <1>5, <1>6, <1>7, <1>8, <1>9, <1>11, <1>12,
     <1>13, <1>14, <1>15, <1>16, <1>17, <1>18, <1>19, <1>20, <1>21, <1>22,
     <1>23, <1>24, <1>25
  DEF Next, Start, SessionStep, ProbeStep, ActionStep, World

(* An apply that probed and exits 0 has given every declared resource the  *)
(* content of the document, as long as no session before it failed: an     *)
(* edit is not skipped over, whatever was reverted or uninstalled by hand. *)
THEOREM EditsArrive == Spec => EditsReachHostUnlessFailed
<1>1. Init => ContentInv
  BY AbsentAssumption
  DEF Init, ContentInv, OwnedIsHost, HostAsStamped, HostAsPlanned, Reconciling, EmptyDoc
<1>2. ASSUME TypeOK, SessionInv, ContentInv, [Next]_vars, Succeeds, probed, past = "ok",
             NEW r \in Resources, doc[r] # "absent"
      PROVE  host[r] = doc[r]
  <2>1. phase = "save" /\ ~failed /\ ~cancelled
    BY <1>2, SuccessIsASave DEF SaveState
  <2>2. todo[r] = "none"
    BY <2>1, <1>2 DEF SessionInv, NothingLeft, NoPlan
  <2>3. host[r] # "absent"
    BY <1>2, <2>1, <2>2 DEF SessionInv, InstallsPlanned, Reconciling
  <2> QED
    BY <1>2, <2>1, <2>2, <2>3 DEF ContentInv, HostAsPlanned, Reconciling
<1>3. TypeOK /\ SessionInv /\ ContentInv /\ [Next]_vars =>
        (Succeeds /\ probed /\ past = "ok" =>
           \A r \in Resources : doc[r] # "absent" => host[r] = doc[r])
  BY <1>2
<1> QED
  BY <1>1, <1>3, ContentInvInductive, RecordInvAlways, Typing, SessionInvAlways, PTL
  DEF Spec, EditsReachHostUnlessFailed
=============================================================================

--------------------------- MODULE AutoRecord_proof ---------------------------
(***************************************************************************)
(* Commands that record next to sessions: for any resources, contents and  *)
(* outside events, the state file tracks only what was declared once or    *)
(* what a command had nowhere to enter, and sessions keep the promises     *)
(* they keep alone.                                                        *)
(***************************************************************************)
EXTENDS AutoRecord, ApplySession_proof

(* Commands keep their variables in shape.                                 *)
CommandOK ==
  /\ step \in {"idle", "tool", "write", "save"}
  /\ verb \in {"install", "remove"}
  /\ pkgs \subseteq Resources /\ left \subseteq pkgs
  /\ cdoc \in Docs /\ csf \in StateFiles

(* What may be tracked.                                                    *)
Accounted == declared \cup unlisted

Known(sf) == \A r \in Resources : Tracked(sf, r) => r \in Accounted
Named(d) == \A r \in Resources : d[r] # "absent" => r \in Accounted

(* Whatever may become a record: every document and state file, on disk    *)
(* and in memory, and every action that is planned.                        *)
SessionKnown ==
  /\ Named(hamsfile) /\ Named(doc)
  /\ Known(disk) /\ Known(mem)
  /\ \A r \in Resources : todo[r] # "none" => r \in Accounted
  /\ cur # None => cur \in Accounted

(* What a command is about to save is declared by what it writes first, or *)
(* had nowhere to be entered.                                              *)
CommandKnown ==
  /\ step = "write" => \A r \in Resources : Tracked(csf, r) => r \in Accounted \/ cdoc[r] # "absent"
  /\ step = "save" => Known(csf)

IInv == TypeOK /\ CommandOK /\ SessionKnown /\ CommandKnown

LEMMA NothingKnown ==
  /\ EmptyDoc \in Docs /\ NewState \in StateFiles
  /\ Named(EmptyDoc) /\ Known(NewState)
  /\ \A r \in Resources : NoPlan[r] = "none"
BY StatesTyped DEF Named, Known, Tracked, EmptyDoc, NewState, NoPlan

(* What was declared once stays so, and what could not be entered remains  *)
(* accounted for.                                                          *)
LEMMA DeclaredGrows ==
  ASSUME History
  PROVE  /\ Accounted \subseteq Accounted'
         /\ Named(hamsfile)'
         /\ \A d \in Docs : Named(d) => \A r \in Resources : d[r] # "absent" => r \in Accounted'
         /\ \A sf \in StateFiles : Known(sf) => \A r \in Resources : Tracked(sf, r) => r \in Accounted'
BY DEF History, Named, Known, Accounted

(* A record that is set is that of a resource that is accounted for.       *)
LEMMA SetKnown ==
  ASSUME NEW sf \in StateFiles, NEW r \in Resources, NEW s \in Statuses, Known(sf), r \in Accounted
  PROVE  Known(SetResource(sf, r, s))
<1> SUFFICES ASSUME NEW q \in Resources, Tracked(SetResource(sf, r, s), q) PROVE q \in Accounted
  BY DEF Known
<1>1. sf.st \in [Resources -> Statuses]
  BY DEF StateFiles
<1>2. SetResource(sf, r, s).st = [sf.st EXCEPT ![r] = s]
  BY SetResourceSets
<1>3. SetResource(sf, r, s).st[q] = IF q = r THEN s ELSE sf.st[q]
  BY <1>1, <1>2
<1> QED
  BY <1>3 DEF Known, Tracked

(* A plan acts on what is named and on what is tracked.                    *)
LEMMA PlanKnown ==
  ASSUME NEW d \in Docs, NEW sf \in StateFiles, Named(d), Known(sf), NEW r \in Resources,
         PlanOf(d, sf)[r] # "none"
  PROVE  r \in Accounted
BY PlanRemoves DEF Named, Known

-----------------------------------------------------------------------------
LEMMA InitEstablishes == CliInit => IInv
<1> SUFFICES ASSUME CliInit PROVE IInv
  OBVIOUS
<1>1. TypeOK
  BY TypeInit DEF CliInit
<1>2. CommandOK
  BY NothingKnown DEF CliInit, CommandOK
<1>3. SessionKnown
  BY NothingKnown DEF CliInit, Init, SessionKnown, Named, Accounted
<1>4. CommandKnown
  BY DEF CliInit, CommandKnown
<1> QED
  BY <1>1, <1>2, <1>3, <1>4 DEF IInv

-----------------------------------------------------------------------------
(* Steps of sessions and of the world.                                     *)

SessionStays == UNCHANGED <<doc, mem, todo, cur>>
SessionEnds == doc' = EmptyDoc /\ mem' = NewState /\ todo' = NoPlan /\ cur' = None

(* The state file is as it was, a new one, or one the session knew.        *)
DiskStays == disk' = disk \/ disk' = NewState

LEMMA SomeSessionKnown ==
  ASSUME IInv, History, SessionStays \/ SessionEnds,
         \A r \in Resources : Tracked(disk', r) => r \in Accounted
  PROVE  SessionKnown'
<1> USE DeclaredGrows DEF IInv, TypeOK, SessionOK, SessionKnown
<1>1. Named(hamsfile)' /\ Known(disk)'
  BY DEF Known
<1>2. CASE SessionStays
  <2>1. Named(doc)' /\ Known(mem)'
    BY <1>2 DEF SessionStays, Named, Known
  <2> QED
    BY <1>1, <1>2, <2>1 DEF SessionStays
<1>3. CASE SessionEnds
  <2>1. Named(doc)' /\ Known(mem)'
    BY <1>3, NothingKnown DEF SessionEnds, Named, Known
  <2> QED
    BY <1>1, <1>3, <2>1, NothingKnown DEF SessionEnds
<1> QED
  BY <1>2, <1>3

(* An action in progress changes the record and the plan of one resource.  *)
LEMMA ActionKnown ==
  ASSUME IInv, History, UNCHANGED <<disk, doc>>, Known(mem'),
         cur' \in {None} \cup Accounted,
         NEW r \in Resources, todo' = todo \/ todo' = [todo EXCEPT ![r] = "none"]
  PROVE  SessionKnown'
<1> USE DeclaredGrows DEF IInv, TypeOK, SessionOK, SessionKnown
<1>1. Named(hamsfile)' /\ Named(doc)' /\ Known(disk)' /\ Known(mem)'
  BY DEF Known, Named
<1>2. \A q \in Resources : todo'[q] # "none" => q \in Accounted'
  BY DEF Plans
<1> QED
  BY <1>1, <1>2

LEMMA StepIsKnown ==
  ASSUME IInv, History, [Next]_vars
  PROVE  SessionKnown'
<1> USE DEF IInv, TypeOK
<1>1. Known(disk) /\ Known(mem)
  BY DEF SessionKnown
<1>2. ASSUME Start \/ World \/ Cancel \/ ExecuteReturns \/ ApplySucceeds \/ UNCHANGED vars
      PROVE  SessionKnown'
  <2>1. SessionStays /\ DiskStays
    <3>1. CASE Start
      BY <3>1 DEF Start, StartApply, StartRefresh, SessionStays, DiskStays, state
    <3>2. CASE World
      BY <3>2 DEF World, EditEntry, FileBecomes, UninstallByHand, StateBecomes,
                  SessionStays, DiskStays, state, session
    <3>3. CASE Cancel \/ ExecuteReturns \/ ApplySucceeds \/ UNCHANGED vars
      BY <3>3 DEF Cancel, ExecuteReturns, ApplySucceeds, vars, SessionStays, DiskStays, state, session
    <3> QED
      BY <1>2, <3>1, <3>2, <3>3
  <2> QED
    BY <1>1, <2>1, SomeSessionKnown, NothingKnown DEF DiskStays, Known
<1>3. ASSUME ProbeOmitted \/ ProbeSaveFails \/ SkipProvider \/ SaveFails \/ Kill
      PROVE  SessionKnown'
  <2>1. (SessionStays \/ SessionEnds) /\ disk' = disk
    BY <1>3 DEF ProbeOmitted, ProbeSaveFails, SkipProvider, SaveFails, Kill, ProbeLost, End,
                SessionStays, SessionEnds, state
  <2> QED
    BY <1>1, <2>1, SomeSessionKnown DEF Known
<1>4. ASSUME ProbeSaved PROVE SessionKnown'
  <2>1. (SessionStays \/ SessionEnds) /\ disk' = Probe(disk, host)
    BY <1>4 DEF ProbeSaved, Save, End, SessionStays, SessionEnds
  <2>2. \A r \in Resources : Tracked(disk', r) => r \in Accounted
    BY <1>1, <2>1, ProbeIsTruthful DEF WorldOK, Known
  <2> QED
    BY <2>1, <2>2, SomeSessionKnown
<1>5. ASSUME SaveState PROVE SessionKnown'
  <2>1. SessionEnds /\ disk' = Stamped
    BY <1>5 DEF SaveState, Save, End, SessionEnds
  <2>2. \A r \in Resources : Tracked(disk', r) => r \in Accounted
    <3>1. Stamped.st = mem.st
      BY DEF Stamped, SessionOK, StateFiles
    <3> QED
      BY <1>1, <2>1, <3>1 DEF Known, Tracked
  <2> QED
    BY <2>1, <2>2, SomeSessionKnown
<1>6. ASSUME Panic PROVE SessionKnown'
  <2>1. SessionEnds /\ disk' = mem
    BY <1>6 DEF Panic, Save, End, SessionEnds
  <2> QED
    BY <1>1, <2>1, SomeSessionKnown DEF Known
<1>7. ASSUME LoadAndPlan PROVE SessionKnown'
  <2>1. doc' \in Docs /\ Named(doc')
    BY <1>7, NothingKnown DEF LoadAndPlan, SessionKnown, WorldOK
  <2>2. mem' \in StateFiles /\ Known(mem')
    <3>1. CASE mem' = disk
      BY <1>1, <3>1 DEF WorldOK
    <3>2. CASE mem' = [disk EXCEPT !.hash = doc']
      <4>1. mem' \in StateFiles /\ mem'.st = disk.st
        BY <2>1, <3>2, StampTyped DEF WorldOK, StateFiles
      <4> QED
        BY <1>1, <4>1 DEF Known, Tracked
    <3> QED
      BY <1>7, <3>1, <3>2 DEF LoadAndPlan
  <2>3. \A r \in Resources : todo'[r] # "none" => r \in Accounted
    BY <1>7, <2>1, <2>2, PlanKnown DEF LoadAndPlan, PlanOf
  <2>4. Named(hamsfile)' /\ Named(doc)' /\ Known(disk)' /\ Known(mem)'
    BY <1>1, <1>7, <2>1, <2>2, DeclaredGrows DEF LoadAndPlan, state, Named, Known
  <2> QED
    BY <1>7, <2>3, <2>4, DeclaredGrows DEF LoadAndPlan, SessionKnown
<1>8. ASSUME NEW r \in Resources, TakeSkip(r) \/ BeginAction(r) \/ PreHookFails(r)
      PROVE  SessionKnown'
  <2>1. r \in Accounted /\ cur \in {None} \cup Accounted
    BY <1>8 DEF TakeSkip, BeginAction, PreHookFails, MayTake, SessionKnown
  <2>2. Known(mem')
    BY <1>1, <1>8, <2>1, SetKnown DEF TakeSkip, BeginAction, PreHookFails, SessionOK, Statuses
  <2>3. /\ UNCHANGED <<disk, doc>> /\ cur' \in {None} \cup Accounted
        /\ todo' = todo \/ todo' = [todo EXCEPT ![r] = "none"]
    BY <1>8, <2>1 DEF TakeSkip, BeginAction, PreHookFails, Finish, state
  <2> QED
    BY <2>2, <2>3, ActionKnown
<1>9. ASSUME RemoveSucceeds \/ ToolFails \/ PostHooksPass \/ PostHookFails
      PROVE  SessionKnown'
  <2>1. cur \in Resources /\ cur \in Accounted
    BY <1>9 DEF RemoveSucceeds, ToolFails, PostHooksPass, PostHookFails, SessionOK, SessionKnown
  <2>2. Known(mem')
    <3>1. \E s \in Statuses : mem' = SetResource(mem, cur, s)
      BY <1>9 DEF RemoveSucceeds, ToolFails, PostHooksPass, PostHookFails, Statuses
    <3> QED
      BY <1>1, <2>1, <3>1, SetKnown DEF SessionOK
  <2>3. /\ UNCHANGED <<disk, doc>> /\ cur' = None
        /\ todo' = [todo EXCEPT ![cur] = "none"]
    BY <1>9 DEF RemoveSucceeds, ToolFails, PostHooksPass, PostHookFails, Finish, state
  <2> QED
    BY <2>1, <2>2, <2>3, ActionKnown
<1> QED
  BY <1>2, <1>3, <1>4, <1>5, <1>6, <1>7, <1>8, <1>9
  DEF Next, SessionStep, ProbeStep, ActionStep

-----------------------------------------------------------------------------
(* Steps of commands.                                                      *)

(* A command leaves the session alone, and writes the state file only when *)
(* it saves.                                                               *)
LEMMA CommandShape ==
  ASSUME Command
  PROVE  /\ SessionStays /\ Untouched
         /\ disk' = disk \/ (step = "save" /\ disk' = csf)
<1>1. ASSUME NEW v \in {"install", "remove"}, NEW P \in SUBSET Resources, StartCommand(v, P)
      PROVE  Untouched /\ disk' = disk
  BY <1>1 DEF StartCommand, state
<1>2. ASSUME NEW p \in Resources, ToolHandles(p) PROVE Untouched /\ disk' = disk
  BY <1>2 DEF ToolHandles, state
<1>3. ASSUME NEW p \in Resources, ToolGivesUp(p) PROVE Untouched /\ disk' = disk
  BY <1>3 DEF ToolGivesUp, state
<1>4. ASSUME Record PROVE Untouched /\ disk' = disk
  BY <1>4 DEF Record, state
<1>5. ASSUME CannotRecord PROVE Untouched /\ disk' = disk
  BY <1>5 DEF CannotRecord, state
<1>6. ASSUME WriteHamsfile PROVE Untouched /\ disk' = disk
  BY <1>6 DEF WriteHamsfile, state
<1>7. ASSUME SaveRecord PROVE Untouched /\ step = "save" /\ disk' = csf
  BY <1>7 DEF SaveRecord, Save
<1>8. ASSUME WriteOrSaveFails PROVE Untouched /\ disk' = disk
  BY <1>8 DEF WriteOrSaveFails, state
<1>9. ASSUME KillCommand PROVE Untouched /\ disk' = disk
  BY <1>9 DEF KillCommand, state
<1>10. Untouched /\ (disk' = disk \/ (step = "save" /\ disk' = csf))
  BY <1>1, <1>2, <1>3, <1>4, <1>5, <1>6, <1>7, <1>8, <1>9 DEF Command
<1> QED
  BY <1>10 DEF Untouched, session, SessionStays

LEMMA CommandTyped ==
  ASSUME IInv, Command
  PROVE  TypeOK' /\ CommandOK'
<1> USE BareAssumption, AbsentAssumption DEF IInv, TypeOK
<1>1. session' = session /\ ended' = ended /\ ghosts' = ghosts
  BY CommandShape DEF Untouched
<1>2. SessionOK' /\ FlagsOK'
  BY <1>1 DEF session, SessionOK, FlagsOK
<1>3. exit' \in Exits /\ past' \in {"ok", "partial", "lost"}
      /\ owned' \subseteq Resources /\ hookOwed' \subseteq Resources
  BY <1>1 DEF ended, ghosts, WorldOK
<1>4. CommandOK' /\ WorldOK'
  <2>1. ASSUME NEW v \in {"install", "remove"}, NEW P \in SUBSET Resources, StartCommand(v, P)
        PROVE  CommandOK' /\ WorldOK'
    BY <1>3, <2>1 DEF StartCommand, CommandOK, WorldOK, files, state
  <2>2. ASSUME NEW p \in Resources, ToolHandles(p) \/ ToolGivesUp(p)
        PROVE  CommandOK' /\ WorldOK'
    <3>1. host' \in Docs
      BY <2>2 DEF ToolHandles, ToolGivesUp, ToolEffect, WorldOK, Docs
    <3>2. CASE ToolHandles(p)
      BY <1>3, <3>1, <3>2 DEF ToolHandles, CommandOK, WorldOK, files, state
    <3>3. CASE ToolGivesUp(p)
      BY <1>3, <3>1, <3>3, StatesTyped
      DEF ToolGivesUp, Happens, EndCommand, CommandOK, WorldOK, files, state
    <3> QED
      BY <2>2, <3>2, <3>3
  <2>3. ASSUME Record PROVE CommandOK' /\ WorldOK'
    <3>1. cdoc' \in Docs
      <4>1. Loaded \in Docs
        BY StatesTyped DEF WorldOK, Loaded
      <4>2. \A r \in Resources : AddApp(r) \in Contents \cup {"absent"}
        BY <4>1 DEF AddApp, Docs
      <4> QED
        BY <2>3, <4>1, <4>2 DEF Record, Docs
    <3>2. csf' \in StateFiles
      <4>1. \E sf \in StateFiles : csf' = [sf EXCEPT !.st = [r \in Resources |->
              IF r \notin pkgs THEN sf.st[r] ELSE IF verb = "remove" THEN "removed" ELSE "ok"]]
        <5>1. disk \in StateFiles /\ NewState \in StateFiles
          BY StatesTyped DEF WorldOK
        <5>2. CASE stateStatus = "valid"
          BY <2>3, <5>1, <5>2 DEF Record
        <5>3. CASE stateStatus # "valid"
          BY <2>3, <5>1, <5>3 DEF Record
        <5> QED
          BY <5>2, <5>3
      <4> QED
        BY <4>1 DEF StateFiles, Statuses
    <3> QED
      BY <1>3, <2>3, <3>1, <3>2 DEF Record, CommandOK, WorldOK, files, state
  <2>4. ASSUME CannotRecord \/ WriteOrSaveFails \/ KillCommand PROVE CommandOK' /\ WorldOK'
    BY <1>3, <2>4, StatesTyped
    DEF CannotRecord, WriteOrSaveFails, KillCommand, Happens, EndCommand, CommandOK, WorldOK, files, state
  <2>5. ASSUME WriteHamsfile PROVE CommandOK' /\ WorldOK'
    BY <1>3, <2>5 DEF WriteHamsfile, CommandOK, WorldOK, state
  <2>6. ASSUME SaveRecord PROVE CommandOK' /\ WorldOK'
    BY <1>3, <2>6, StatesTyped DEF SaveRecord, Save, EndCommand, CommandOK, WorldOK, files
  <2> QED
    BY <2>1, <2>2, <2>3, <2>4, <2>5, <2>6 DEF Command
<1> QED
  BY <1>2, <1>4

LEMMA CommandKeepsKnown ==
  ASSUME IInv, Command, History
  PROVE  SessionKnown' /\ CommandKnown'
<1> USE DEF IInv, TypeOK
<1>1. SessionStays
  BY CommandShape
<1>2. Known(disk)
  BY DEF SessionKnown
<1>3. \A r \in Resources : Tracked(disk', r) => r \in Accounted
  BY <1>2, CommandShape DEF CommandKnown, Known
<1>4. SessionKnown'
  BY <1>1, <1>3, SomeSessionKnown
<1>5. CommandKnown'
  <2>1. CASE Record
    <3>1. ASSUME NEW r \in Resources, Tracked(csf', r) PROVE r \in Accounted' \/ cdoc'[r] # "absent"
      <4>1. CASE r \in pkgs
        <5>1. verb # "remove"
          BY <2>1, <3>1, <4>1, StatesTyped DEF Record, Tracked, WorldOK, StateFiles
        <5>2. cdoc'[r] = AddApp(r) /\ verb \in {"install", "remove"}
          BY <2>1, <4>1, <5>1 DEF Record, CommandOK
        <5>3. CASE Loaded[r] # "absent" \/ Lists
          BY <5>2, <5>3, BareAssumption, AbsentAssumption DEF AddApp
        <5>4. CASE Loaded[r] = "absent" /\ ~Lists
          BY <2>1, <4>1, <5>1, <5>2, <5>4 DEF Record, History, Missed, Accounted
        <5> QED
          BY <5>3, <5>4
      <4>2. CASE r \notin pkgs
        <5>1. csf'.st[r] = disk.st[r] \/ csf'.st[r] = NewState.st[r]
          <6>1. disk \in StateFiles /\ NewState \in StateFiles
            BY StatesTyped DEF WorldOK
          <6>2. \E sf \in {disk, NewState} : csf' = [sf EXCEPT !.st = [q \in Resources |->
                     IF q \notin pkgs THEN sf.st[q]
                     ELSE IF verb = "remove" THEN "removed" ELSE "ok"]]
            BY <2>1 DEF Record
          <6> QED
            BY <4>2, <6>1, <6>2 DEF StateFiles
        <5> QED
          BY <1>2, <3>1, <5>1, NothingKnown, DeclaredGrows DEF Tracked, Known
      <4> QED
        BY <4>1, <4>2
    <3> QED
      BY <2>1, <3>1, DeclaredGrows DEF Record, CommandKnown
  <2>2. CASE WriteHamsfile
    <3>1. Named(hamsfile)'
      BY DeclaredGrows
    <3>2. step = "write" /\ hamsfile' = cdoc /\ step' = "save" /\ csf' = csf
      BY <2>2 DEF WriteHamsfile
    <3>3. ASSUME NEW r \in Resources, Tracked(csf, r) PROVE r \in Accounted'
      <4>1. r \in Accounted \/ hamsfile'[r] # "absent"
        BY <3>2, <3>3 DEF CommandKnown
      <4> QED
        BY <3>1, <4>1, DeclaredGrows DEF Named
    <3> QED
      BY <3>2, <3>3 DEF CommandKnown, Known
  <2>3. CASE ~Record /\ ~WriteHamsfile
    <3>1. step' \in {"idle", "tool"}
      <4>1. ASSUME NEW v \in {"install", "remove"}, NEW P \in SUBSET Resources, StartCommand(v, P)
            PROVE  step' = "tool"
        BY <4>1 DEF StartCommand
      <4>2. ASSUME NEW p \in Resources, ToolHandles(p) PROVE step' = "tool"
        BY <4>2 DEF ToolHandles
      <4>3. ASSUME NEW p \in Resources, ToolGivesUp(p) PROVE step' = "idle"
        BY <4>3 DEF ToolGivesUp, EndCommand
      <4>4. ASSUME CannotRecord \/ SaveRecord \/ WriteOrSaveFails \/ KillCommand PROVE step' = "idle"
        BY <4>4 DEF CannotRecord, SaveRecord, WriteOrSaveFails, KillCommand, EndCommand
      <4> QED
        BY <2>3, <4>1, <4>2, <4>3, <4>4 DEF Command
    <3> QED
      BY <3>1 DEF CommandKnown
  <2> QED
    BY <2>1, <2>2, <2>3
<1> QED
  BY <1>4, <1>5

-----------------------------------------------------------------------------
LEMMA StillKnown == ASSUME IInv, UNCHANGED all PROVE IInv'
BY DEF all, vars, files, state, session, ended, ghosts, cli, IInv, TypeOK, WorldOK,
       SessionOK, FlagsOK, CommandOK, SessionKnown, CommandKnown, Named, Known, Accounted

(* A step is a command's, or one that no command takes part in.            *)
LEMMA OneActs ==
  ASSUME [CliNext]_all
  PROVE  \/ Command /\ History
         \/ [Next]_vars /\ UNCHANGED cli /\ History
         \/ EditSection /\ History
         \/ UNCHANGED all
BY DEF CliNext, SessionTurn, Next

(* The user's edit of a section is seen by the next command only.          *)
LEMMA EditSeen ==
  ASSUME IInv, EditSection, History
  PROVE  IInv'
<1> USE DEF EditSection, files, state, session, ended, ghosts, cli, Happens
<1>1. TypeOK' /\ CommandOK'
  BY DEF IInv, TypeOK, WorldOK, SessionOK, FlagsOK, CommandOK
<1>2. SessionKnown'
  BY SomeSessionKnown DEF IInv, SessionKnown, SessionStays, Known
<1>3. CommandKnown'
  BY DeclaredGrows DEF IInv, CommandOK, CommandKnown, Known
<1> QED
  BY <1>1, <1>2, <1>3 DEF IInv

LEMMA KnownAlways == CliSpec => []IInv
<1>1. IInv /\ [CliNext]_all => IInv'
  <2> SUFFICES ASSUME IInv, [CliNext]_all PROVE IInv'
    OBVIOUS
  <2>1. CASE Command /\ History
    BY <2>1, CommandTyped, CommandKeepsKnown DEF IInv
  <2>2. CASE [Next]_vars /\ UNCHANGED cli /\ History
    <3>1. TypeOK'
      BY <2>2, TypeStep DEF IInv
    <3>2. SessionKnown'
      BY <2>2, StepIsKnown
    <3>3. CommandOK' /\ CommandKnown'
      BY <2>2, DeclaredGrows DEF IInv, cli, CommandOK, CommandKnown, Known
    <3> QED
      BY <3>1, <3>2, <3>3 DEF IInv
  <2>3. CASE UNCHANGED all
    BY <2>3, StillKnown
  <2>4. CASE EditSection /\ History
    BY <2>4, EditSeen
  <2> QED
    BY <2>1, <2>2, <2>3, <2>4, OneActs
<1> QED
  BY InitEstablishes, <1>1, PTL DEF CliSpec

(* The state file tracks no resource that no hamsfile ever declared, for   *)
(* the next apply would uninstall it, whatever a command or a session      *)
(* leaves undone; what a command had no list to enter in is the exception. *)
THEOREM Declared == CliSpec => []TrackedWasDeclared
<1>1. IInv => TrackedWasDeclared
  BY DEF IInv, SessionKnown, Known, Accounted, TrackedWasDeclared
<1> QED
  BY KnownAlways, <1>1, PTL

-----------------------------------------------------------------------------
(* Sessions next to commands.                                              *)

(* The lock keeps commands and sessions apart.                             *)
OneAtATime == step # "idle" => phase = "idle"

LEMMA CommandsAlone ==
  ASSUME OneAtATime, Command
  PROVE  phase = "idle"
BY DEF OneAtATime, Command, StartCommand, ToolHandles, ToolGivesUp, Record, CannotRecord,
       WriteHamsfile, SaveRecord, WriteOrSaveFails, KillCommand

(* What a session relies on is untouched by commands, though they change   *)
(* the host and both files: none runs while it relies on it.               *)
LEMMA SessionsUndisturbed == CliSpec => [](SessionInv /\ OneAtATime)
<1>1. CliInit => SessionInv /\ OneAtATime
  BY SessionInvInit DEF CliInit, OneAtATime
<1>2. ASSUME IInv, SessionInv, OneAtATime, [CliNext]_all
      PROVE  SessionInv' /\ OneAtATime'
  <2>1. CASE Command
    <3>1. UNCHANGED session /\ phase = "idle"
      BY <1>2, <2>1, CommandShape, CommandsAlone DEF Untouched
    <3> QED
      BY <1>2, <3>1
      DEF session, OneAtATime, SessionInv, Selected, ProbeKnown, PlanFitsDoc, CurrentPlanned,
          InstallsPlanned, RemovalsPlanned, PrunesPlanned, DoneIsRecorded,
          BaselineKept, NothingLeft, StateReadable, Reconciling
  <2>2. CASE [Next]_vars /\ UNCHANGED cli
    <3>1. SessionInv'
      BY <1>2, <2>2, SessionInvInductive DEF IInv
    <3>2. OneAtATime'
      <4>1. CASE SessionTurn
        BY <2>2, <4>1 DEF SessionTurn, OneAtATime, cli
      <4>2. CASE World \/ UNCHANGED all
        BY <1>2, <2>2, <4>2
        DEF World, EditEntry, FileBecomes, UninstallByHand, StateBecomes, all, vars,
            session, cli, OneAtATime
      <4>3. CASE EditSection
        BY <1>2, <4>3 DEF EditSection, session, cli, OneAtATime
      <4>4. CASE Command
        BY <1>2, <4>4, CommandsAlone, CommandShape DEF Untouched, session, OneAtATime
      <4> QED
        BY <1>2, <4>1, <4>2, <4>3, <4>4 DEF CliNext
    <3> QED
      BY <3>1, <3>2
  <2>3. CASE UNCHANGED all
    BY <2>3, <2>2 DEF all
  <2>4. CASE EditSection
    BY <1>2, <2>4
    DEF EditSection, cli, state, session, OneAtATime, SessionInv, Selected, ProbeKnown,
        PlanFitsDoc, CurrentPlanned, InstallsPlanned, RemovalsPlanned, PrunesPlanned,
        DoneIsRecorded, BaselineKept, NothingLeft, StateReadable, Reconciling
  <2> QED
    BY <1>2, <2>1, <2>2, <2>3, <2>4, OneActs
<1> QED
  BY <1>1, <1>2, KnownAlways, PTL DEF CliSpec

(* Whatever commands install, remove, record or leave half recorded before *)
(* it, a session keeps its promises: success means present and pruned,     *)
(* only what is tracked and undeclared is uninstalled, and a document is   *)
(* stamped only when it was applied.                                       *)
THEOREM SessionsKeepPromises ==
  CliSpec => /\ SuccessMeansPresent /\ SuccessMeansPruned
             /\ RemovalIsWarranted /\ UncancelledStampIsHonest
<1> DEFINE Promises ==
             /\ Succeeds /\ probed =>
                  \A r \in Resources : doc[r] # "absent" => host[r] # "absent"
             /\ Succeeds /\ disk.hash # NoHash =>
                  \A r \in Resources : doc[r] = "absent" => ~Tracked(disk', r)
             /\ \A r \in Resources : Removes(r) =>
                  /\ doc[r] = "absent" /\ Tracked(disk, r)
                  /\ prune \/ (disk.hash # NoHash /\ found \in {"file", "vanished"})
             /\ phase = "save" /\ disk'.hash # disk.hash /\ ~cancelled =>
                  \A r \in Resources : disk'.hash[r] # "absent"
                                         => disk'.st[r] \in {"ok", "hook-failed"}
<1>1. ASSUME IInv, SessionInv, OneAtATime, [CliNext]_all PROVE Promises
  <2>1. CASE Command
    <3>1. phase = "idle"
      BY <1>1, <2>1, CommandsAlone
    <3> QED
      BY <3>1 DEF Succeeds, Removes
  <2>2. CASE [Next]_vars
    BY <1>1, <2>2, SaveInstalls, SavePrunes, RemovalPlanned, SaveStamps DEF IInv
  <2>3. CASE EditSection
    BY <2>3 DEF EditSection, session, state, Succeeds, Removes
  <2> QED
    BY <1>1, <2>1, <2>2, <2>3, OneActs DEF all
<1> QED
  BY <1>1, KnownAlways, SessionsUndisturbed, PTL
  DEF CliSpec, SuccessMeansPresent, SuccessMeansPruned, RemovalIsWarranted,
      UncancelledStampIsHonest

(* Where apply refuses, a command does not: only the save of a command     *)
(* that records replaces a state file that cannot be read.                 *)
THEOREM OnlyRecordsReplace ==
  CliSpec => [][stateStatus = "corrupt" /\ stateStatus' = "valid" => step = "save"]_vars
<1>1. ASSUME IInv, SessionInv, [CliNext]_all, stateStatus = "corrupt", stateStatus' = "valid"
      PROVE  step = "save"
  <2>1. CASE Command
    BY <1>1, <2>1
    DEF Command, StartCommand, ToolHandles, ToolGivesUp, Record, CannotRecord,
        WriteHamsfile, SaveRecord, WriteOrSaveFails, KillCommand, state
  <2>2. CASE [Next]_vars
    BY <1>1, <2>2, StateNotReplaced DEF IInv
  <2>3. CASE EditSection
    BY <1>1, <2>3 DEF EditSection, state
  <2> QED
    BY <1>1, <2>1, <2>2, <2>3, OneActs DEF all
<1>2. IInv /\ SessionInv /\ [CliNext]_all =>
        (stateStatus = "corrupt" /\ stateStatus' = "valid" => step = "save")
  BY <1>1
<1> QED
  BY <1>2, KnownAlways, SessionsUndisturbed, PTL DEF CliSpec
=============================================================================

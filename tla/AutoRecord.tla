----------------------------- MODULE AutoRecord ------------------------------
(***************************************************************************)
(* `hams <provider> install` and `remove` of a package-class provider      *)
(* (internal/provider/package_dispatcher.go) next to `hams apply` and      *)
(* `hams refresh`: run the tool for each package, then record the packages *)
(* in the hamsfile, then in the state file.                                *)
(*                                                                         *)
(* The state lock lets one command or session run at a time; the user and  *)
(* the outside events of ApplySession do not wait for it.                  *)
(***************************************************************************)
EXTENDS ApplySession

CONSTANTS
  Bare,       \* the content of an entry that only names its package
  RunsCli     \* TRUE: the user runs install and remove commands

ASSUME BareAssumption == Bare \in Contents
ASSUME RunsCliAssumption == RunsCli \in BOOLEAN

VARIABLES
  listed,     \* the hamsfile has, or can be given, a list of packages
  step,       \* where the command is, "idle" when there is none
  verb,       \* "install" or "remove"
  pkgs,       \* the packages of its command line
  left,       \* those the tool has not handled yet
  cdoc,       \* the hamsfile it is about to write
  clisted,    \* ... and whether that has a list
  csf,        \* the state file it is about to save
  declared,   \* history: resources that were in the hamsfile at some time
  unlisted    \* history: the others, that a command could not enter in it

cli  == <<step, verb, pkgs, left, cdoc, clisted, csf>>
all  == <<vars, listed, cli, declared, unlisted>>

CliInit ==
  /\ Init
  /\ listed \in BOOLEAN
  /\ step = "idle" /\ verb = "install" /\ pkgs = {} /\ left = {}
  /\ cdoc = EmptyDoc /\ clisted = TRUE /\ csf = NewState
  /\ declared = {r \in Resources : hamsfile[r] # "absent"} /\ unlisted = {}

(* What a command leaves alone: the session variables, idle under the lock.*)
Untouched == UNCHANGED <<session, ended, ghosts>>

EndCommand ==
  /\ step' = "idle" /\ verb' = "install" /\ pkgs' = {} /\ left' = {}
  /\ cdoc' = EmptyDoc /\ clisted' = TRUE /\ csf' = NewState

StartCommand(v, P) ==
  /\ RunsCli
  /\ phase = "idle" /\ step = "idle"
  /\ P # {}
  /\ step' = "tool" /\ verb' = v /\ pkgs' = P /\ left' = P
  /\ UNCHANGED <<files, listed, host, state, events, cdoc, clisted, csf>> /\ Untouched

ToolEffect(p) ==
  host' = [host EXCEPT ![p] = IF verb = "remove" THEN "absent"
                              ELSE IF host[p] = "absent" THEN Bare ELSE host[p]]

ToolHandles(p) ==
  /\ step = "tool" /\ p \in left
  /\ ToolEffect(p)
  /\ left' = left \ {p}
  /\ UNCHANGED <<files, listed, state, events, step, verb, pkgs, cdoc, clisted, csf>>
  /\ Untouched

(* The first failure ends the command: what the tool did before stays on   *)
(* the host, unrecorded.                                                   *)
ToolGivesUp(p) ==
  /\ step = "tool" /\ p \in left
  /\ Happens("tool")
  /\ ToolEffect(p) \/ UNCHANGED host
  /\ EndCommand
  /\ UNCHANGED <<files, listed, state>> /\ Untouched

(* The hamsfile as a command loads it, or creates it when there is none.   *)
Loaded == IF fileStatus = "missing" THEN EmptyDoc ELSE hamsfile
Lists  == fileStatus = "missing" \/ listed

(* An entry that is there stays as it is.  A new one is added to the list  *)
(* under the provider's tag; when the document is no mapping, or the tag   *)
(* has something else than a list, nothing is added and nothing said.      *)
AddApp(r) == IF Loaded[r] = "absent" /\ Lists THEN Bare ELSE Loaded[r]

Missed == {r \in pkgs : verb = "install" /\ Loaded[r] = "absent" /\ ~Lists}

(* The hamsfile is loaded or created, the state loaded or, whatever the    *)
(* reason it cannot be, replaced by a new one; both are brought up to date *)
(* in memory: the state says ok of every package, entered or not.          *)
Record ==
  /\ step = "tool" /\ left = {}
  /\ fileStatus # "broken"
  /\ cdoc' = [r \in Resources |-> IF r \notin pkgs THEN Loaded[r]
                                  ELSE IF verb = "remove" THEN "absent" ELSE AddApp(r)]
  /\ clisted' = Lists
  /\ LET sf == IF stateStatus = "valid" THEN disk ELSE NewState
     IN csf' = [sf EXCEPT !.st = [r \in Resources |->
                  IF r \notin pkgs THEN sf.st[r]
                  ELSE IF verb = "remove" THEN "removed" ELSE "ok"]]
  /\ step' = "write"
  /\ UNCHANGED <<files, listed, host, state, events, verb, pkgs, left>> /\ Untouched

CannotRecord ==
  /\ step = "tool" /\ left = {}
  /\ fileStatus = "broken"
  /\ EndCommand
  /\ UNCHANGED <<files, listed, host, state, events>> /\ Untouched

(* A wrong write: the hamsfile is never written.                           *)
WriteNothing ==
  /\ step = "write"
  /\ step' = "save"
  /\ UNCHANGED <<files, listed, host, state, events, verb, pkgs, left, cdoc, clisted, csf>>
  /\ Untouched

WriteHamsfile ==
  /\ step = "write"
  /\ hamsfile' = cdoc /\ listed' = clisted /\ fileStatus' = "present"
  /\ step' = "save"
  /\ UNCHANGED <<host, state, events, verb, pkgs, left, cdoc, clisted, csf>> /\ Untouched

SaveRecord ==
  /\ step = "save"
  /\ Save(csf)
  /\ EndCommand
  /\ UNCHANGED <<files, listed, host, events>> /\ Untouched

WriteOrSaveFails ==
  /\ step \in {"write", "save"}
  /\ Happens("save")
  /\ EndCommand
  /\ UNCHANGED <<files, listed, host, state>> /\ Untouched

KillCommand ==
  /\ step # "idle"
  /\ Happens("kill")
  /\ EndCommand
  /\ UNCHANGED <<files, listed, host, state>> /\ Untouched

Command ==
  \/ \E v \in {"install", "remove"}, P \in SUBSET Resources : StartCommand(v, P)
  \/ \E p \in Resources : ToolHandles(p) \/ ToolGivesUp(p)
  \/ Record \/ CannotRecord \/ WriteHamsfile \/ SaveRecord
  \/ WriteOrSaveFails \/ KillCommand

(* The lock: a session starts only when no command runs.                   *)
SessionTurn == step = "idle" /\ (Start \/ SessionStep \/ Panic \/ Kill \/ Cancel)

(* The user makes a list of the tag's value, or something else.            *)
EditSection ==
  /\ fileStatus = "present"
  /\ Happens("edit")
  /\ listed' = ~listed
  /\ UNCHANGED <<files, host, state, session, ended, ghosts, cli>>

History ==
  /\ declared' = declared \cup {r \in Resources : hamsfile'[r] # "absent"}
  /\ unlisted' = (unlisted \cup IF step = "tool" /\ step' = "write" THEN Missed ELSE {})
                    \ declared'

CliNext ==
  /\ \/ Command
     \/ (SessionTurn \/ World) /\ UNCHANGED <<listed, cli>>
     \/ EditSection
  /\ History

CliSpec == CliInit /\ [][CliNext]_all

CommandStep ==
  \/ \E p \in Resources : ToolHandles(p)
  \/ Record \/ CannotRecord \/ WriteHamsfile \/ SaveRecord

(* Sessions and commands go on by themselves: Go schedules the goroutine,  *)
(* and every tool and hook it starts returns.  And the user runs `hams     *)
(* apply` again and again, as its messages advise.                         *)
RerunCliSpec ==
  /\ CliSpec
  /\ WF_all(SessionStep /\ UNCHANGED <<listed, cli>> /\ History)
  /\ WF_all(CommandStep /\ History)
  /\ SF_all(step = "idle" /\ StartApply(TRUE, FALSE)
            /\ UNCHANGED <<listed, cli>> /\ History)

-----------------------------------------------------------------------------
(* The state file tracks nothing that no hamsfile ever declared, although  *)
(* a command may die or fail between its two files: a later apply would    *)
(* uninstall such a resource.  But a command whose hamsfile has no list    *)
(* for its tag does leave records of what it could not enter, and these    *)
(* are the only others.                                                    *)
TrackedWasDeclared ==
  \A r \in Resources : Tracked(disk, r) => r \in declared \cup unlisted

(* Sessions end, and so do commands: the lock is free again.               *)
TurnEnds == (phase # "idle" \/ step # "idle") ~> (phase = "idle" /\ step = "idle")

Settled ==
  \A r \in Resources : hamsfile[r] # "absent" => host[r] # "absent" /\ disk.st[r] = "ok"

(* If the files stay readable and the user stops giving commands,          *)
(* re-running apply heals everything, whatever commands left half done: in *)
(* the end every declared resource is on the host and recorded ok.         *)
RerunsHealCommands ==
  <>[](fileStatus = "present" /\ stateStatus # "corrupt" /\ step = "idle") => <>[]Settled
=============================================================================

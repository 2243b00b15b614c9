---------------------------- MODULE ApplySession -----------------------------
(***************************************************************************)
(* `hams apply` and `hams refresh` for one package-class provider          *)
(* (internal/cli/apply.go, internal/provider/executor.go, probe.go), and   *)
(* the world around them: the user edits, deletes or breaks the hamsfile,  *)
(* uninstalls by hand, presses Ctrl+C; tools, hooks and saves fail; the    *)
(* process panics or is killed.                                            *)
(*                                                                         *)
(* Sessions are serialised by the state lock (module StateLock); the user  *)
(* and the hamsfile are not.  Everything of a session but the files dies   *)
(* with it.  Of the outside events, the kinds in Allowed happen, and at    *)
(* most MaxEvents events in all.                                           *)
(***************************************************************************)
EXTENDS ProviderState, Naturals

CONSTANTS
  Allowed,    \* the kinds of outside events that happen
  MaxEvents,  \* how many of them happen
  Probing,    \* FALSE: only `hams apply --no-refresh` is ever run
  None        \* no resource

Faults == {"edit",      \* the user changes one entry of the hamsfile
           "file",      \* ... removes, breaks or restores it between sessions
           "race",      \* ... does so while a session runs
           "drift",     \* the user uninstalls a resource by hand
           "corrupt",   \* the state file becomes unreadable, or is deleted then
           "tool",      \* an install, removal, pre-hook or probe fails
           "hook",      \* a post-hook fails
           "save",      \* saving the state file fails
           "cancel",    \* SIGINT or SIGTERM cancels the context
           "panic",     \* a provider panics
           "kill"}      \* the process is killed

ASSUME AllowedAssumption == Allowed \subseteq Faults
ASSUME MaxEventsAssumption == MaxEvents \in Nat
ASSUME ProbingAssumption == Probing \in BOOLEAN
ASSUME NoneAssumption == None \notin Resources

VARIABLES
  hamsfile,    \* the merged document on disk
  fileStatus,  \* whether it can be read: "present", "missing" or "broken"
  host,        \* what the tools have installed
  stateStatus, \* the state file: "valid", "missing" or "corrupt"
  disk,        \* the contents of a valid state file, NewState otherwise
  phase,       \* where the session is, "idle" when there is none
  prune,       \* --prune-orphans
  found,       \* history: the hamsfile, as the session saw it last: "file", "none"
               \* since it started, or "vanished" since then
  doc,         \* the document the session reconciles against
  mem,         \* the session's state.File
  todo,        \* the actions it has not finished
  cur,         \* the resource of the action being executed
  failed,      \* result.Failed > 0
  trouble,     \* a provider was skipped or a probed state was not saved
  probed,      \* this session's probe reached the state file
  cancelled,   \* ctx.Done()
  exit,        \* how the last session ended
  past,        \* history: the worst that happened to a session or its record
  events,      \* how many outside events have happened
  owned,       \* history: what hams installed and neither it nor the user removed
  hookOwed     \* history: resources whose last post-hook failed

files   == <<hamsfile, fileStatus>>
state   == <<stateStatus, disk>>
session == <<phase, prune, found, doc, mem, todo, cur, failed, trouble,
             probed, cancelled>>
ended   == <<exit, past>>
ghosts  == <<owned, hookOwed>>
vars    == <<files, host, state, session, ended, events, ghosts>>

Phases == {"idle", "refresh", "probe", "load", "exec", "apply", "post", "save"}
Exits  == {"none", "ok", "partial", "dead", "lost"}

Happens(f) ==
  /\ f \in Allowed
  /\ events < MaxEvents
  /\ events' = events + 1

Init ==
  /\ hamsfile \in Docs
  /\ fileStatus = "present"
  /\ host = EmptyDoc
  /\ stateStatus = "missing" /\ disk = NewState
  /\ phase = "idle"
  /\ prune = FALSE /\ found = "none"
  /\ doc = EmptyDoc /\ mem = NewState /\ todo = NoPlan /\ cur = None
  /\ failed = FALSE /\ trouble = FALSE /\ probed = FALSE /\ cancelled = FALSE
  /\ exit = "none"
  /\ events = 0
  /\ past = "ok" /\ owned = {} /\ hookOwed = {}

-----------------------------------------------------------------------------
(* The session.                                                            *)

(* All went well; something failed; or the record of a session was lost,   *)
(* since it was killed, could not save, or its state file was damaged.     *)
Worst(a, b) ==
  IF "lost" \in {a, b} THEN "lost" ELSE IF {a, b} = {"ok"} THEN "ok" ELSE "partial"

(* The session is over, however it ends: the lock is released or stale.    *)
End(outcome) ==
  /\ phase' = "idle" /\ exit' = outcome /\ past' = Worst(past, outcome)
  /\ prune' = FALSE /\ found' = "none"
  /\ doc' = EmptyDoc /\ mem' = NewState /\ todo' = NoPlan /\ cur' = None
  /\ failed' = FALSE /\ trouble' = FALSE /\ probed' = FALSE /\ cancelled' = FALSE

(* Saves go through AtomicWrite: the file is the old one or the new one.   *)
Save(sf) == disk' = sf /\ stateStatus' = "valid"

HasArtifacts == fileStatus # "missing" \/ stateStatus # "missing"
IsStateOnly  == fileStatus = "missing" /\ stateStatus # "missing"

(* A wrong selection, that keeps providers of which only the state is left.*)
StartAnyApply(refresh, withPrune) ==
  /\ phase = "idle"
  /\ HasArtifacts
  /\ refresh => Probing
  /\ phase' = IF refresh THEN "probe" ELSE "load"
  /\ prune' = withPrune
  /\ found' = IF IsStateOnly THEN "none" ELSE "file"
  /\ UNCHANGED <<files, host, state, doc, mem, todo, cur, failed,
                 trouble, probed, cancelled, ended, events, ghosts>>

(* `hams apply [--no-refresh] [--prune-orphans]` selects the provider when *)
(* it has an artifact, and drops it again when only the state file is left *)
(* and orphans are not to be pruned.                                       *)
StartApply(refresh, withPrune) ==
  /\ phase = "idle"
  /\ HasArtifacts
  /\ ~IsStateOnly \/ withPrune
  /\ refresh => Probing
  /\ phase' = IF refresh THEN "probe" ELSE "load"
  /\ prune' = withPrune
  /\ found' = IF IsStateOnly THEN "none" ELSE "file"
  /\ UNCHANGED <<files, host, state, doc, mem, todo, cur, failed,
                 trouble, probed, cancelled, ended, events, ghosts>>

(* `hams refresh` probes whatever has an artifact.                         *)
StartRefresh ==
  /\ phase = "idle"
  /\ HasArtifacts
  /\ Probing
  /\ phase' = "refresh"
  /\ UNCHANGED <<files, host, state, prune, found, doc, mem, todo, cur,
                 failed, trouble, probed, cancelled, ended, events, ghosts>>

(* A probe that left the state file as it was: apply goes on with it.      *)
ProbeLost(isTrouble) ==
  /\ IF phase = "refresh"
     THEN End("partial")
     ELSE /\ phase' = "load" /\ trouble' = isTrouble
          /\ UNCHANGED <<prune, found, doc, mem, todo, cur, failed, probed,
                         cancelled, ended>>
  /\ UNCHANGED <<files, host, state, ghosts>>

ProbeOmitted ==
  /\ phase \in {"refresh", "probe"}
  /\ \/ stateStatus = "corrupt" /\ UNCHANGED events
     \/ cancelled /\ UNCHANGED events
     \/ Happens("tool")
  /\ ProbeLost(FALSE)

ProbeSaveFails ==
  /\ phase \in {"refresh", "probe"}
  /\ stateStatus # "corrupt"
  /\ Happens("save")
  /\ ProbeLost(TRUE)

(* A wrong probe, that starts from an empty state when it can read none.   *)
ProbeAnything ==
  /\ phase \in {"refresh", "probe"}
  /\ Save(Probe(disk, host))
  /\ phase' = "load" /\ probed' = TRUE
  /\ UNCHANGED <<prune, found, doc, mem, todo, cur, failed, trouble,
                 cancelled, ended>>
  /\ UNCHANGED <<files, host, events, ghosts>>

ProbeSaved ==
  /\ phase \in {"refresh", "probe"}
  /\ stateStatus # "corrupt"
  /\ Save(Probe(disk, host))
  /\ IF phase = "refresh"
     THEN End(IF cancelled THEN "partial" ELSE "ok")
     ELSE /\ phase' = "load" /\ probed' = TRUE
          /\ UNCHANGED <<prune, found, doc, mem, todo, cur, failed, trouble,
                         cancelled, ended>>
  /\ UNCHANGED <<files, host, events, ghosts>>

(* A hamsfile or a state file that cannot be read: the provider is skipped *)
(* and the session exits with a partial failure.                           *)
SkipProvider ==
  /\ phase = "load"
  /\ fileStatus = "broken" \/ stateStatus = "corrupt"
  /\ End("partial")
  /\ UNCHANGED <<files, host, state, events, ghosts>>

(* The hamsfile as it is now: no file means an empty desired state, also   *)
(* without --prune-orphans when it was there at the selection; with the    *)
(* flag, it means an empty baseline when there was none.                   *)
LoadAndPlan ==
  /\ phase = "load"
  /\ fileStatus # "broken" /\ stateStatus # "corrupt"
  /\ doc' = IF fileStatus = "missing" THEN EmptyDoc ELSE hamsfile
  /\ mem' = IF fileStatus = "missing" /\ prune /\ disk.hash = NoHash
            THEN [disk EXCEPT !.hash = doc'] ELSE disk
  /\ todo' = Promote(ComputePlan(doc', mem'), doc', mem')
  /\ found' = IF fileStatus # "missing" THEN "file"
              ELSE IF found = "none" THEN "none" ELSE "vanished"
  /\ phase' = "exec"
  /\ UNCHANGED <<files, host, state, prune, cur, failed, trouble, probed,
                 cancelled, ended, events, ghosts>>

Finish(r) == todo' = [todo EXCEPT ![r] = "none"]

(* Execute takes the actions one by one: those of the document first, in   *)
(* its order, then the removals; before each it looks at the context.      *)
MayTake(r) ==
  /\ phase = "exec" /\ ~cancelled
  /\ todo[r] # "none"
  /\ todo[r] = "remove" => \A q \in Resources : todo[q] \in {"none", "remove"}

(* A wrong skip, that does not advance.                                    *)
SkipForever(r) ==
  /\ MayTake(r) /\ todo[r] = "skip"
  /\ UNCHANGED vars

TakeSkip(r) ==
  /\ MayTake(r) /\ todo[r] = "skip"
  /\ Finish(r)
  /\ UNCHANGED <<files, host, state, phase, prune, found, doc, mem, cur,
                 failed, trouble, probed, cancelled, ended, events, ghosts>>

(* An install is recorded as pending first; then the pre-hooks pass.       *)
BeginAction(r) ==
  /\ MayTake(r) /\ todo[r] # "skip"
  /\ mem' = IF todo[r] = "install" THEN SetResource(mem, r, "pending") ELSE mem
  /\ cur' = r
  /\ phase' = "apply"
  /\ UNCHANGED <<files, host, state, prune, found, doc, todo, failed,
                 trouble, probed, cancelled, ended, events, ghosts>>

PreHookFails(r) ==
  /\ MayTake(r) /\ todo[r] \in {"install", "update"}
  /\ Happens("tool")
  /\ mem' = SetResource(mem, r, "failed")
  /\ failed' = TRUE
  /\ Finish(r)
  /\ UNCHANGED <<files, host, state, phase, prune, found, doc, cur,
                 trouble, probed, cancelled, ended, ghosts>>

(* What the tool of the current action does to the host: an action gives   *)
(* the resource the content of the document, which is none for a removal.  *)
ToolRuns ==
  /\ host' = [host EXCEPT ![cur] = doc[cur]]
  /\ owned' = IF doc[cur] = "absent" THEN owned \ {cur}
              ELSE IF host[cur] = "absent" THEN owned \cup {cur} ELSE owned

ToolMayHaveRun == ToolRuns \/ UNCHANGED <<host, owned>>

RemoveSucceeds ==
  /\ phase = "apply" /\ todo[cur] = "remove"
  /\ ToolRuns
  /\ mem' = SetResource(mem, cur, "removed")
  /\ hookOwed' = hookOwed \ {cur}
  /\ Finish(cur)
  /\ phase' = "exec" /\ cur' = None
  /\ UNCHANGED <<files, state, prune, found, doc, failed, trouble, probed,
                 cancelled, ended, events>>

ApplySucceeds ==
  /\ phase = "apply" /\ todo[cur] # "remove"
  /\ ToolRuns
  /\ phase' = "post"
  /\ UNCHANGED <<files, state, prune, found, doc, mem, todo, cur, failed,
                 trouble, probed, cancelled, ended, events, hookOwed>>

(* A tool that fails, or that the cancelled context kills, may have done   *)
(* its work.                                                               *)
ToolFails ==
  /\ phase = "apply"
  /\ (cancelled /\ UNCHANGED events) \/ Happens("tool")
  /\ ToolMayHaveRun
  /\ mem' = SetResource(mem, cur, "failed")
  /\ failed' = TRUE
  /\ Finish(cur)
  /\ phase' = "exec" /\ cur' = None
  /\ UNCHANGED <<files, state, prune, found, doc, trouble, probed,
                 cancelled, ended, hookOwed>>

PostHooksPass ==
  /\ phase = "post"
  /\ mem' = SetResource(mem, cur, "ok")
  /\ hookOwed' = hookOwed \ {cur}
  /\ Finish(cur)
  /\ phase' = "exec" /\ cur' = None
  /\ UNCHANGED <<files, host, state, prune, found, doc, failed, trouble,
                 probed, cancelled, ended, events, owned>>

(* A wrong failure, that leaves the action current.                        *)
PostHookLingers ==
  /\ phase = "post"
  /\ (cancelled /\ UNCHANGED events) \/ Happens("hook")
  /\ mem' = SetResource(mem, cur, "hook-failed")
  /\ hookOwed' = hookOwed \cup {cur}
  /\ Finish(cur)
  /\ phase' = "exec"
  /\ UNCHANGED <<files, host, state, prune, found, doc, cur, failed, trouble,
                 probed, cancelled, ended, owned>>

(* A failed post-hook does not count as a failed action.                   *)
PostHookFails ==
  /\ phase = "post"
  /\ (cancelled /\ UNCHANGED events) \/ Happens("hook")
  /\ mem' = SetResource(mem, cur, "hook-failed")
  /\ hookOwed' = hookOwed \cup {cur}
  /\ Finish(cur)
  /\ phase' = "exec" /\ cur' = None
  /\ UNCHANGED <<files, host, state, prune, found, doc, failed, trouble,
                 probed, cancelled, ended, owned>>

(* Execute returns: nothing is left, or the context is done before the     *)
(* next action.                                                            *)
ExecuteReturns ==
  /\ phase = "exec"
  /\ todo = NoPlan \/ cancelled
  /\ phase' = "save"
  /\ UNCHANGED <<files, host, state, prune, found, doc, mem, todo, cur,
                 failed, trouble, probed, cancelled, ended, events, ghosts>>

(* A wrong stamp, whatever failed.                                         *)
StampedAlways == [mem EXCEPT !.hash = doc]

(* The config hash is stamped when no action failed, and the file saved.   *)
Stamped == IF failed THEN mem ELSE [mem EXCEPT !.hash = doc]

SaveState ==
  /\ phase = "save"
  /\ Save(Stamped)
  /\ End(IF failed \/ trouble \/ cancelled THEN "partial" ELSE "ok")
  /\ UNCHANGED <<files, host, events, ghosts>>

SaveFails ==
  /\ phase = "save"
  /\ Happens("save")
  /\ End("lost")
  /\ UNCHANGED <<files, host, state, ghosts>>

(* A wrong panic, that takes the session's state with it.                  *)
PanicWithoutFlush ==
  /\ phase = "apply"
  /\ Happens("panic")
  /\ ToolMayHaveRun
  /\ End("dead")
  /\ UNCHANGED <<files, state, hookOwed>>

(* A panic in the provider: the state of the session is flushed first.     *)
Panic ==
  /\ phase = "apply"
  /\ Happens("panic")
  /\ ToolMayHaveRun
  /\ Save(mem)
  /\ End("dead")
  /\ UNCHANGED <<files, hookOwed>>

Kill ==
  /\ phase # "idle"
  /\ Happens("kill")
  /\ IF phase = "apply" THEN ToolMayHaveRun ELSE UNCHANGED <<host, owned>>
  /\ End("lost")
  /\ UNCHANGED <<files, state, hookOwed>>

Cancel ==
  /\ phase # "idle" /\ ~cancelled
  /\ Happens("cancel")
  /\ cancelled' = TRUE
  /\ UNCHANGED <<files, host, state, phase, prune, found, doc, mem, todo,
                 cur, failed, trouble, probed, ended, ghosts>>

-----------------------------------------------------------------------------
(* The world.                                                              *)

EditEntry(r, c) ==
  /\ hamsfile[r] # c
  /\ Happens("edit")
  /\ hamsfile' = [hamsfile EXCEPT ![r] = c]
  /\ UNCHANGED <<fileStatus, host, state, session, ended, ghosts>>

(* The hamsfile disappears, is left with a merge conflict, or is back.     *)
FileBecomes(s) ==
  /\ fileStatus # s
  /\ Happens(IF phase = "idle" THEN "file" ELSE "race")
  /\ fileStatus' = s
  /\ UNCHANGED <<hamsfile, host, state, session, ended, ghosts>>

UninstallByHand(r) ==
  /\ phase = "idle"
  /\ host[r] # "absent"
  /\ Happens("drift")
  /\ host' = [host EXCEPT ![r] = "absent"]
  /\ owned' = owned \ {r}
  /\ UNCHANGED <<files, state, session, ended, hookOwed>>

(* A merge conflict or an editor crash in the state file, and the user's   *)
(* deleting it as the error message suggests.                              *)
StateBecomes(s) ==
  /\ phase = "idle"
  /\ \/ s = "corrupt" /\ stateStatus = "valid"
     \/ s = "missing" /\ stateStatus = "corrupt"
  /\ Happens("corrupt")
  /\ stateStatus' = s
  /\ disk' = NewState
  /\ past' = "lost"
  /\ UNCHANGED <<files, host, session, exit, ghosts>>

-----------------------------------------------------------------------------
ProbeStep == ProbeOmitted \/ ProbeSaveFails \/ ProbeSaved

ActionStep ==
  \/ \E r \in Resources : TakeSkip(r) \/ BeginAction(r) \/ PreHookFails(r)
  \/ RemoveSucceeds \/ ApplySucceeds \/ ToolFails
  \/ PostHooksPass \/ PostHookFails

SessionStep ==
  \/ ProbeStep \/ SkipProvider \/ LoadAndPlan \/ ActionStep
  \/ ExecuteReturns \/ SaveState \/ SaveFails

Start ==
  \/ \E refresh, withPrune \in BOOLEAN : StartApply(refresh, withPrune)
  \/ StartRefresh

World ==
  \/ \E r \in Resources, c \in Contents \cup {"absent"} : EditEntry(r, c)
  \/ \E s \in {"present", "missing", "broken"} : FileBecomes(s)
  \/ \E r \in Resources : UninstallByHand(r)
  \/ \E s \in {"corrupt", "missing"} : StateBecomes(s)

Next == Start \/ SessionStep \/ Panic \/ Kill \/ Cancel \/ World

Spec == Init /\ [][Next]_vars

-----------------------------------------------------------------------------
WorldOK ==
  /\ hamsfile \in Docs /\ fileStatus \in {"present", "missing", "broken"}
  /\ host \in Docs
  /\ stateStatus \in {"valid", "missing", "corrupt"} /\ disk \in StateFiles
  /\ exit \in Exits /\ past \in {"ok", "partial", "lost"} /\ events \in Nat
  /\ owned \subseteq Resources /\ hookOwed \subseteq Resources

SessionOK ==
  /\ phase \in Phases
  /\ doc \in Docs /\ mem \in StateFiles /\ todo \in Plans
  /\ cur \in Resources \cup {None}
  /\ phase \in {"apply", "post"} <=> cur # None

FlagsOK ==
  /\ prune \in BOOLEAN /\ found \in {"none", "file", "vanished"}
  /\ failed \in BOOLEAN /\ trouble \in BOOLEAN
  /\ probed \in BOOLEAN /\ cancelled \in BOOLEAN

TypeOK == WorldOK /\ SessionOK /\ FlagsOK

Succeeds == phase = "save" /\ phase' = "idle" /\ exit' = "ok"

(* An apply that probed the host and exits 0 leaves every resource of the  *)
(* document it read on the host, whatever failed, crashed, was cancelled   *)
(* or was uninstalled by hand in earlier sessions.                         *)
SuccessMeansPresent ==
  [][Succeeds /\ probed =>
       \A r \in Resources : doc[r] # "absent" => host[r] # "absent"]_vars

(* An apply over an earlier baseline that exits 0 leaves no record of a    *)
(* resource the document does not name, except tombstones.                 *)
SuccessMeansPruned ==
  [][Succeeds /\ disk.hash # NoHash =>
       \A r \in Resources : doc[r] = "absent" => ~Tracked(disk', r)]_vars

(* The hash of a document is stamped, as that of the last successful apply,*)
(* only when every resource it names was applied.                          *)
HashIsOfAppliedDocument ==
  [][phase = "save" /\ disk'.hash # disk.hash =>
       \A r \in Resources : disk'.hash[r] # "absent"
                              => disk'.st[r] \in {"ok", "hook-failed"}]_vars

(* So it is by every session that was not cancelled, whatever else failed, *)
(* in this session or before it.                                           *)
UncancelledStampIsHonest ==
  [][phase = "save" /\ disk'.hash # disk.hash /\ ~cancelled =>
       \A r \in Resources : disk'.hash[r] # "absent"
                              => disk'.st[r] \in {"ok", "hook-failed"}]_vars

(* An apply that probed the host and exits 0 has given every resource of   *)
(* the document the content the document gives it, as long as no session   *)
(* before it has failed or died: after such a session, an edit that is     *)
(* reverted may be lost.                                                   *)
EditsReachHostUnlessFailed ==
  [][Succeeds /\ probed /\ past = "ok" =>
       \A r \in Resources : doc[r] # "absent" => host[r] = doc[r]]_vars

(* Unless a session is killed or cannot save, or the state file is         *)
(* damaged, what hams installed stays in the state file, so that a later   *)
(* session can update or remove it: tool failures, panics and Ctrl+C lose  *)
(* nothing.                                                                *)
InstalledIsRecorded ==
  phase = "idle" /\ past # "lost" => \A r \in owned : Tracked(disk, r)

Removes(r) == phase # "idle" /\ host[r] # "absent" /\ host'[r] = "absent"

(* A session uninstalls only what the document it read does not name and   *)
(* the state file tracks; nothing on a machine where no apply has set a    *)
(* baseline, and nothing when only the state file is left, unless orphans  *)
(* are to be pruned.  A hamsfile that vanishes after the selection counts  *)
(* as one that is there: what it tracked is removed, flag or no flag.      *)
RemovalIsWarranted ==
  [][\A r \in Resources : Removes(r) =>
       /\ doc[r] = "absent" /\ Tracked(disk, r)
       /\ prune \/ (disk.hash # NoHash /\ found \in {"file", "vanished"})]_vars

(* A state file that cannot be read is for the user to repair or delete:   *)
(* hams never replaces it, for that would forget every tracked resource.   *)
UnreadableStateIsKept == [][stateStatus = "corrupt" => stateStatus' # "valid"]_vars

(* A resource whose post-hook failed is not reported ok before the hook    *)
(* has run again and passed.                                               *)
HookFailureIsKept ==
  phase = "idle" /\ stateStatus = "valid" =>
    \A r \in hookOwed : disk.st[r] # "ok"

=============================================================================

---------------------------- MODULE ApplyPipeline ----------------------------
(***************************************************************************)
(* One run of `hams apply` over several providers (runApply in             *)
(* internal/cli/apply.go): the store, the identity of the machine, the     *)
(* state lock, the selection and order of the providers, their bootstrap   *)
(* and the consent to it, the skips it causes, the probe, sudo and its     *)
(* heartbeat, and the reconciliation of each provider in turn.  What reconciling does to one provider's files and    *)
(* host over many runs is module ApplySession; here it is one step with an *)
(* outcome.                                                                *)
(***************************************************************************)
EXTENDS ProviderDag, SequencesExt

CONSTANTS
  Priorities,  \* values of provider_priority: sequences of names
  Graphs,      \* sets of declarations <<p, d>> that match this platform
  Elsewhere    \* declarations of another platform

(* Registry.Ordered: the priority list first, the others alphabetically.   *)
Ordered(priority) == priority \o SetToSortSeq(Names \ ToSet(priority), <)

(* The artifact filter and --only or --except leave any part of them.      *)
Selections ==
  {SelectSeq(Ordered(pr), LAMBDA n : n \in S) : pr \in Priorities, S \in SUBSET Names}

(* Ordered passes over a listed name that is not registered, so the lists  *)
(* have none; a part of a sequence of names is a sequence of names.        *)
ASSUME SelectionsAssumption == Selections \subseteq Seq(Names)

VARIABLES
  phase,     \* where runApply is
  dryRun,    \* --dry-run
  configured,\* the profile tag and the machine ID are known
  dropped,   \* the selected providers that the state-only filter dropped
  line,      \* the providers of the run, which are handled in order
  left,      \* those that the current loop has not handled
  declined,  \* the user chose to skip them when asked
  skipped,   \* skipProviders: the declined and their dependents
  failed,    \* bootstrapFailed
  executed,  \* the providers whose actions were executed, in order
  finished,  \* of those, the ones that did all their work and were saved
  bad,       \* providers skipped, with failed actions or with a failed save
  unsaved,   \* a probed state could not be saved
  touched,   \* history: what the run changed last
  locked,    \* it holds the state lock
  heartbeat, \* sudo's goroutine: "off", "beating" or "stopped"
  cancelled, \* ctx.Done()
  exit       \* how it ends

setup   == <<dryRun, configured, dropped>>
skips   == <<declined, skipped, failed>>
work    == <<executed, finished, bad, unsaved>>
own     == <<locked, heartbeat>>
pipeVars == <<phase, setup, line, left, skips, work, touched, own, cancelled, exit>>
vars    == <<dag, pipeVars>>

Init ==
  /\ DagInit(Selections, Graphs)
  /\ phase = "start"
  /\ dryRun \in BOOLEAN /\ configured \in BOOLEAN
  /\ dropped = {} /\ line = {} /\ left = {}
  /\ declined = {} /\ skipped = {} /\ failed = {}
  /\ executed = <<>> /\ finished = {} /\ bad = {} /\ unsaved = FALSE /\ touched = "nothing"
  /\ locked = FALSE /\ heartbeat = "off" /\ cancelled = FALSE
  /\ exit = "none"

-----------------------------------------------------------------------------
(* The function returns, or a panic unwinds it: the deferred calls follow. *)
Return(code) == exit' = code /\ phase' = "stop"

(* The store is where a flag or the configuration says, or is cloned or    *)
(* pulled first; a dry run that would have to clone stops, content.  There *)
(* may be no store, or it or its configuration cannot be read.             *)
Locate ==
  /\ phase = "start"
  /\ \/ phase' = "identify" /\ UNCHANGED <<touched, exit>>
     \/ ~dryRun /\ phase' = "identify" /\ touched' = "store" /\ UNCHANGED exit
     \/ dryRun /\ Return("ok") /\ UNCHANGED touched
     \/ Return("usage") /\ UNCHANGED touched
     \/ ~dryRun /\ Return("usage") /\ touched' = "store"
  /\ UNCHANGED <<dag, setup, line, left, skips, work, own, cancelled>>

(* A machine without profile tag or ID is given them, from --tag or by the *)
(* user, and they are written to the configuration, in a dry run as well;  *)
(* a failed write is only a warning.  Or there is nobody to ask.           *)
Identify ==
  /\ phase = "identify"
  /\ \/ phase' = "lock" /\ UNCHANGED <<touched, exit>>
     \/ ~configured /\ phase' = "lock" /\ touched' = "identity" /\ UNCHANGED exit
     \/ ~configured /\ Return("usage") /\ UNCHANGED touched
  /\ UNCHANGED <<dag, setup, line, left, skips, work, own, cancelled>>

(* A mutating run takes the state lock or is refused it; a dry run does    *)
(* not take it.                                                            *)
Lock ==
  /\ phase = "lock"
  /\ \/ dryRun /\ phase' = "order" /\ UNCHANGED <<locked, exit>>
     \/ ~dryRun /\ phase' = "order" /\ locked' = TRUE /\ UNCHANGED exit
     \/ ~dryRun /\ Return("refused") /\ UNCHANGED locked
  /\ UNCHANGED <<dag, setup, line, left, skips, work, touched, heartbeat, cancelled>>

NextInOrder ==
  /\ phase = "order"
  /\ \E n \in queue : Visit(n)
  /\ UNCHANGED pipeVars

CycleFound ==
  /\ phase = "order" /\ Resolved /\ Cyclic
  /\ Return("error")
  /\ UNCHANGED <<dag, setup, line, left, skips, work, touched, own, cancelled>>

(* Unless --prune-orphans is given, providers of which only the state file *)
(* is left are dropped.  A run without providers succeeds at once.         *)
Enter ==
  /\ phase = "order" /\ Resolved /\ ~Cyclic
  /\ dropped' \in SUBSET Selected
  /\ line' = Selected \ dropped'
  /\ left' = line'
  /\ IF line' = {} THEN Return("ok") ELSE phase' = "bootstrap" /\ UNCHANGED exit
  /\ UNCHANGED <<dag, dryRun, configured, skips, work, touched, own, cancelled>>

-----------------------------------------------------------------------------
(* A loop over the line takes the first provider that is left.             *)
IsNext(p) == p \in left /\ \A q \in left \ {p} : Before(p, q)

(* The bootstrap loop, one provider at a time.                             *)
AtBootstrap(p) == phase = "bootstrap" /\ IsNext(p)

(* It passes, or fails for a provider that has only a state file.          *)
BootstrapPasses(p) ==
  /\ AtBootstrap(p)
  /\ left' = left \ {p}
  /\ UNCHANGED <<dag, phase, setup, line, skips, work, touched, own, cancelled, exit>>

(* An error of a provider that has a hamsfile is fatal.                    *)
BootstrapFails(p) ==
  /\ AtBootstrap(p)
  /\ left' = left \ {p}
  /\ failed' = failed \cup {p}
  /\ UNCHANGED <<dag, phase, setup, line, declined, skipped, work, touched, own, cancelled, exit>>

(* The prerequisite is missing: resolveBootstrapConsent runs its script,   *)
(* skips the provider or denies.  --bootstrap always runs, --no-bootstrap  *)
(* or the lack of a terminal always denies, and a user who is asked may do *)
(* any of the three each time, so that every run is one of these.  A       *)
(* denied bootstrap fails as every other error does (BootstrapFails).      *)
Declines(p) ==
  /\ AtBootstrap(p)
  /\ left' = left \ {p}
  /\ declined' = declined \cup {p} /\ skipped' = skipped \cup {p}
  /\ UNCHANGED <<dag, phase, setup, line, failed, work, touched, own, cancelled, exit>>

(* A wrong consent, under which a dry run has effects.                     *)
ScriptRunsDry(p, passes) ==
  /\ AtBootstrap(p)
  /\ left' = left \ {p}
  /\ touched' = "tools"
  /\ failed' = IF passes THEN failed ELSE failed \cup {p}
  /\ UNCHANGED <<dag, phase, setup, line, declined, skipped, work, own, cancelled, exit>>

(* RunBootstrap and the second Bootstrap call; a dry run only says so.     *)
ScriptRuns(p, passes) ==
  /\ AtBootstrap(p)
  /\ left' = left \ {p}
  /\ touched' = IF dryRun THEN touched ELSE "tools"
  /\ failed' = IF passes \/ dryRun THEN failed ELSE failed \cup {p}
  /\ UNCHANGED <<dag, phase, setup, line, declined, skipped, work, own, cancelled, exit>>

BootstrapStep ==
  \E p \in Names :
    \/ BootstrapPasses(p) \/ BootstrapFails(p) \/ Declines(p)
    \/ \E passes \in BOOLEAN : ScriptRuns(p, passes)

(* A wrong cascade, that stops after the direct dependents.                *)
CascadesOnce(p) == p \in line \ skipped /\ \E d \in declined : <<p, d>> \in depends \cup Elsewhere

(* A skip goes on to the dependents, whatever platform they declare the    *)
(* dependency for.                                                         *)
Cascades(p) == p \in line \ skipped /\ \E d \in skipped : <<p, d>> \in depends \cup Elsewhere

Cascade ==
  /\ phase = "bootstrap" /\ left = {}
  /\ \E p \in Names : Cascades(p) /\ skipped' = skipped \cup {p}
  /\ UNCHANGED <<dag, phase, setup, line, left, declined, failed, work, touched, own, cancelled, exit>>

(* A wrong end of the loop, that goes on without what failed.              *)
BootstrappedAnyway ==
  /\ phase = "bootstrap" /\ left = {}
  /\ ~\E p \in Names : Cascades(p)
  /\ line' = line \ (skipped \cup failed)
  /\ phase' = "probe"
  /\ UNCHANGED <<dag, setup, left, skips, work, touched, own, cancelled, exit>>

(* When nothing is left to skip, a failed bootstrap ends the run before    *)
(* anything is probed; the skipped are taken out.                          *)
Bootstrapped ==
  /\ phase = "bootstrap" /\ left = {}
  /\ ~\E p \in Names : Cascades(p)
  /\ line' = line \ skipped
  /\ IF failed # {} THEN Return("partial") ELSE phase' = "probe" /\ UNCHANGED exit
  /\ UNCHANGED <<dag, setup, left, skips, work, touched, own, cancelled>>

-----------------------------------------------------------------------------
(* The refresh of the whole line, unless --no-refresh; some saves may      *)
(* fail, and a dry run saves nothing.                                      *)
Probe ==
  /\ phase = "probe"
  /\ \/ UNCHANGED <<touched, unsaved>>
     \/ /\ ~dryRun
        /\ touched' = "state"
        /\ unsaved' \in BOOLEAN
  /\ phase' = "sudo"
  /\ UNCHANGED <<dag, setup, line, left, skips, executed, finished, bad, own, cancelled, exit>>

(* Credentials, when a provider needs them: none are asked of root, a      *)
(* heartbeat keeps the others fresh, and without them the run ends.        *)
Sudo ==
  /\ phase = "sudo"
  /\ \/ phase' = "reconcile" /\ left' = line /\ UNCHANGED <<heartbeat, exit>>
     \/ /\ ~dryRun /\ line # {}
        /\ phase' = "reconcile" /\ left' = line /\ heartbeat' = "beating" /\ UNCHANGED exit
     \/ ~dryRun /\ line # {} /\ Return("sudo") /\ UNCHANGED <<left, heartbeat>>
  /\ UNCHANGED <<dag, setup, line, skips, work, touched, locked, cancelled>>

AtReconcile(p) == phase = "reconcile" /\ IsNext(p)

(* A file that cannot be read, duplicate apps, a failed plan.              *)
SkipsProvider(p) ==
  /\ AtReconcile(p)
  /\ left' = left \ {p}
  /\ bad' = bad \cup {p}
  /\ UNCHANGED <<dag, phase, setup, line, skips, executed, finished, unsaved, touched, own, cancelled, exit>>

PrintsPlan(p) ==
  /\ AtReconcile(p) /\ dryRun
  /\ left' = left \ {p}
  /\ UNCHANGED <<dag, phase, setup, line, skips, work, touched, own, cancelled, exit>>

(* Execute and the save.  Once the context is cancelled Execute may return *)
(* early, with no failure to report.                                       *)
Executes(p) ==
  /\ AtReconcile(p) /\ ~dryRun
  /\ left' = left \ {p}
  /\ executed' = Append(executed, p)
  /\ touched' = "state"
  /\ \/ finished' = finished \cup {p} /\ UNCHANGED bad
     \/ bad' = bad \cup {p} /\ UNCHANGED finished
     \/ cancelled /\ UNCHANGED <<finished, bad>>
  /\ UNCHANGED <<dag, phase, setup, line, skips, unsaved, own, cancelled, exit>>

(* A panic in Execute is thrown again after the flush.                     *)
Panics(p) ==
  /\ AtReconcile(p) /\ ~dryRun
  /\ touched' = "state"
  /\ Return("panic")
  /\ UNCHANGED <<dag, setup, line, left, skips, work, own, cancelled>>

(* A wrong end, that does not look at the context.                         *)
SummaryForgiving ==
  /\ phase = "reconcile" /\ left = {}
  /\ Return(IF bad # {} \/ unsaved THEN "partial" ELSE "ok")
  /\ UNCHANGED <<dag, setup, line, left, skips, work, touched, own, cancelled>>

(* An interrupted run is a partial failure, and so is one with trouble.    *)
Summary ==
  /\ phase = "reconcile" /\ left = {}
  /\ Return(IF bad # {} \/ unsaved \/ (cancelled /\ ~dryRun) THEN "partial" ELSE "ok")
  /\ UNCHANGED <<dag, setup, line, left, skips, work, touched, own, cancelled>>

ReconcileStep ==
  \/ \E p \in Names : SkipsProvider(p) \/ PrintsPlan(p) \/ Executes(p) \/ Panics(p)
  \/ Summary

-----------------------------------------------------------------------------
(* A wrong Stop, that does not wait.                                       *)
StopWithoutWait ==
  /\ phase = "stop"
  /\ phase' = "release"
  /\ UNCHANGED <<dag, setup, line, left, skips, work, touched, own, cancelled, exit>>

(* The deferred calls, last first: Stop cancels the heartbeat and waits    *)
(* for it, then the lock is released.                                      *)
StopSudo ==
  /\ phase = "stop"
  /\ heartbeat # "beating"
  /\ phase' = "release"
  /\ UNCHANGED <<dag, setup, line, left, skips, work, touched, own, cancelled, exit>>

ReleaseLock ==
  /\ phase = "release"
  /\ phase' = "end"
  /\ locked' = FALSE
  /\ UNCHANGED <<dag, setup, line, left, skips, work, touched, heartbeat, cancelled, exit>>

(* A wrong goroutine, that Stop does not reach.                            *)
HeartbeatDeaf ==
  /\ heartbeat = "beating" /\ cancelled
  /\ heartbeat' = "stopped"
  /\ UNCHANGED <<dag, phase, setup, line, left, skips, work, touched, locked, cancelled, exit>>

(* The goroutine sees that its context, a child of the run's, is done.     *)
HeartbeatEnds ==
  /\ heartbeat = "beating"
  /\ phase = "stop" \/ cancelled
  /\ heartbeat' = "stopped"
  /\ UNCHANGED <<dag, phase, setup, line, left, skips, work, touched, locked, cancelled, exit>>

(* SIGINT or SIGTERM, while what it can cancel is running.                 *)
Cancel ==
  /\ phase = "reconcile" /\ ~cancelled
  /\ cancelled' = TRUE
  /\ UNCHANGED <<dag, phase, setup, line, left, skips, work, touched, own, exit>>

Step ==
  \/ Locate \/ Identify \/ Lock \/ NextInOrder \/ CycleFound \/ Enter
  \/ BootstrapStep \/ Cascade \/ Bootstrapped
  \/ Probe \/ Sudo \/ ReconcileStep \/ StopSudo \/ ReleaseLock

Next == Step \/ HeartbeatEnds \/ Cancel

(* The run goes on: its tools return, its user answers what it asks; and a *)
(* goroutine whose context is done comes to see it.                        *)
Spec == Init /\ [][Next]_vars /\ WF_vars(Step) /\ WF_vars(HeartbeatEnds)

-----------------------------------------------------------------------------
(* When a provider is executed, every selected one it depends on has been  *)
(* executed before it, unless that one could not be read or planned (and   *)
(* the run will say so) or is an orphan this run does not touch: not when  *)
(* the user chose to skip it, however long the chain of dependencies.      *)
DependenciesHandled ==
  \A i \in DOMAIN executed : \A d \in Needs(executed[i]) \cap Selected :
    (\E j \in 1..(i - 1) : executed[j] = d) \/ d \in bad \/ d \in dropped

(* A bootstrap failure ends the run before it reads or writes anything.    *)
FailedBootstrapStops ==
  failed # {} => executed = <<>> /\ touched # "state" /\ heartbeat = "off" /\ exit # "ok"

(* A dry run takes neither the lock nor credentials, and changes nothing   *)
(* of the store, the state or the host; but on a machine that has no       *)
(* profile tag or ID yet it writes them, as a real run does.               *)
DryRunIsDry ==
  dryRun => /\ touched = "nothing" \/ (touched = "identity" /\ ~configured)
            /\ ~locked /\ heartbeat = "off"

(* Exit 0 of a real run: every selected provider did all its work and was  *)
(* saved, except those skipped by the user's choice and orphans left alone.*)
OkMeansAllFinished ==
  exit = "ok" /\ ~dryRun =>
    /\ bad = {} /\ ~unsaved
    /\ \A p \in Selected \ finished : p \in skipped \/ p \in dropped

(* Nothing of a run outlives it: no lock, on whatever path it returned,    *)
(* and no heartbeat after the lock is given back.                          *)
NothingOutlivesRun ==
  /\ phase = "end" => ~locked /\ heartbeat # "beating"
  /\ heartbeat = "beating" => locked

(* Every run ends, also one interrupted while sudo's heartbeat beats.      *)
RunEnds == <>(phase = "end")
=============================================================================

------------------------------- MODULE Providers ------------------------------
(***************************************************************************)
(* The built-in providers (internal/provider/builtin): how each of them    *)
(* names, probes, installs and removes what its tool manages, and what its *)
(* commands do to the hamsfile and the state file.                         *)
(*                                                                         *)
(* A resource ID is a thing (a package, a key, a path) with a pin: the     *)
(* version or value the ID names, or Bare.  The host gives each thing the  *)
(* version or value it has, Bare when the tool chose it, or "absent".      *)
(*                                                                         *)
(* Apply sessions of one provider alternate with its commands under the    *)
(* state lock; the user's editor, other programs, failing tools and kills  *)
(* come in between.                                                        *)
(***************************************************************************)
EXTENDS Hamsfile, TLC

CONSTANTS
  Things, Values,
  NoHash,        \* last_apply_config_hash is empty
  CliTag,        \* the tag under which commands record
  Used,          \* the providers whose behaviour is explored
  ByHand,        \* which sections the user edits: <<"main" or "local", tag>>
  MaxChanges,    \* bound on the commands and edits of the user
  MaxTroubles    \* bound on drifts, failing tools and kills

ASSUME TagAssumption == CliTag \in Tags
ASSUME BareAssumption == Bare \notin Values /\ "absent" \notin Values \cup {Bare}
ASSUME ByHandAssumption == ByHand \subseteq {"main", "local"} \X Tags
ASSUME BoundAssumption == MaxChanges \in Nat /\ MaxTroubles \in Nat

Ids == Things \X (Values \cup {Bare})
Thing(id) == id[1]
Pin(id) == id[2]

ASSUME NoHashAssumption == NoHash \notin [Tags -> Seq([id : Ids, pin : Values \cup {Bare}]) \cup {NoList}]
ASSUME ListAssumption == NoList \notin Seq([id : Ids, pin : Values \cup {Bare}])

(***************************************************************************)
(* What distinguishes the providers.                                       *)
(*                                                                         *)
(*   form      what IDs look like: "name" a thing, "pinned" a thing with   *)
(*             or without a pin, "value" a thing and its value, "fields" a *)
(*             thing whose pin stands in a field of the entry              *)
(*   probe     what a record is ok by: the "thing" is there in any         *)
(*             version; the ID is listed "bare"; the "check" stored with   *)
(*             the record, if any; the "record" itself; or "nothing" at    *)
(*             all is asked                                                *)
(*   reuse     an install leaves alone what is there                       *)
(*   shuffled  installs are planned in random order                        *)
(*   spared    no removal is planned of a thing that is still declared     *)
(*   remove    what is uninstalled: the "thing" in any version, only what  *)
(*             "match"es the ID, or "nothing"                              *)
(*   override  the local hamsfile overrides the main one, entry by entry   *)
(*   add       a command records its ID "beside" others or "instead" of    *)
(*             those of the same thing; "none" there is no such command    *)
(*   drop      a command takes out its "id", every ID of the "thing", or   *)
(*             the "entry", without touching the host                      *)
(***************************************************************************)
Kinds == [form : {"name", "pinned", "value", "fields"},
          probe : {"thing", "bare", "check", "record", "nothing"},
          reuse : BOOLEAN, shuffled : BOOLEAN, spared : BOOLEAN, override : BOOLEAN,
          remove : {"thing", "match", "nothing"},
          add : {"beside", "instead", "none"}, drop : {"id", "thing", "entry", "none"}]

ASSUME UsedAssumption == Used \subseteq Kinds

Names == [form |-> "name", probe |-> "thing", reuse |-> FALSE, shuffled |-> FALSE,
          spared |-> FALSE, remove |-> "thing", override |-> FALSE]
PinnedNames == [Names EXCEPT !.form = "pinned", !.spared = TRUE]
KeyValues == [Names EXCEPT !.form = "value", !.override = TRUE]

Npm == PinnedNames
Pnpm == PinnedNames
Uv == PinnedNames
Code == PinnedNames
Cargo == [PinnedNames EXCEPT !.spared = FALSE, !.probe = "bare", !.remove = "match"]
GoInstall == [PinnedNames EXCEPT !.spared = FALSE, !.remove = "nothing"]
Mas == Names
Brew == Names
Apt == [Names EXCEPT !.form = "fields"]
GitConfig == KeyValues
Defaults == KeyValues
Duti == [KeyValues EXCEPT !.remove = "nothing"]
GitClone == [KeyValues EXCEPT !.reuse = TRUE, !.shuffled = TRUE, !.remove = "nothing"]
Bash == [Names EXCEPT !.override = TRUE, !.probe = "check", !.reuse = TRUE, !.remove = "nothing"]
BashUnchecked == [Bash EXCEPT !.probe = "nothing", !.reuse = FALSE]
Ansible == [BashUnchecked EXCEPT !.probe = "record"]

Recording == [add |-> "beside", drop |-> "id"]
Setting == [add |-> "instead", drop |-> "thing"]
Nothing == [add |-> "none", drop |-> "none"]

NpmCommands == Recording
PnpmCommands == Recording
UvCommands == Recording
CodeCommands == Recording
CargoCommands == Recording
GoInstallCommands == [Recording EXCEPT !.drop = "none"]
MasCommands == Recording
BrewCommands == Recording
AptCommands == Recording
GitConfigCommands == Setting
DefaultsCommands == Setting
DutiCommands == [Setting EXCEPT !.drop = "none"]
GitCloneCommands == [Recording EXCEPT !.drop = "entry"]

(* Providers that behave alike are one and the same.                       *)
Packages == {Npm @@ NpmCommands, Pnpm @@ PnpmCommands, Uv @@ UvCommands, Code @@ CodeCommands,
             Cargo @@ CargoCommands, GoInstall @@ GoInstallCommands, Mas @@ MasCommands,
             Brew @@ BrewCommands, Apt @@ AptCommands}
Settings == {GitConfig @@ GitConfigCommands, Defaults @@ DefaultsCommands}
Others == {Duti @@ DutiCommands, GitClone @@ GitCloneCommands,
           Bash @@ Nothing, BashUnchecked @@ Nothing, Ansible @@ Nothing}

VARIABLES
  tool,              \* the provider
  main, local,       \* its two hamsfiles
  host,              \* what there is of each thing
  disk,              \* its state file: the config hash, the status of each ID, and
                     \* the IDs whose check command is stored
  phase,             \* "idle", "act" in an apply, "write" and "save" in a command
  todo, doomed,      \* the IDs to install, and those to remove
  doc, mem, ok,      \* the session's document, its statuses, and whether all went well
  stored,            \* the check commands it is about to save
  cmd,               \* the command that runs
  changes, troubles, \* spent so far
  quiet, calm,       \* history: nothing came between; successful applies in a row, up to 2
  done,              \* history: things this session has installed
  unsettled,         \* history: things changed since an apply last brought them about
  asked              \* history: things the user's last word on which was a recorded add

files   == <<main, local>>
session == <<todo, doomed, doc, mem, ok, stored>>
history == <<quiet, calm, done, unsettled, asked>>
vars    == <<tool, files, host, disk, phase, session, cmd, changes, troubles, history>>

(* "failed" stands for pending and hook-failed as well: the plans treat    *)
(* them alike.                                                             *)
Statuses == {"untracked", "ok", "failed", "removed"}
Untracked == [id \in Ids |-> "untracked"]
Tracked(st) == {id \in Ids : st[id] \in {"ok", "failed"}}

(* The entries a user may write for a provider.                            *)
Writable(p) ==
  CASE p.form = "name"   -> {Entry(<<t, Bare>>, Bare) : t \in Things}
    [] p.form = "pinned" -> {Entry(id, Bare) : id \in Ids}
    [] p.form = "value"  -> {Entry(id, Bare) : id \in Things \X Values}
    [] p.form = "fields" -> {Entry(<<id[1], Bare>>, id[2]) : id \in Ids}

Documents == [Tags -> Seq(Writable(tool)) \cup {NoList}]

Sections == {NoList} \cup {<<e>> : e \in Writable(tool)}

(* The document of an apply.                                               *)
Document == IF tool.override THEN MergeOverride(main, local) ELSE MergeAppend(main, local)

Declared(d) == ListApps(d)
DeclaredThings(d) == {Thing(id) : id \in Declared(d)}

Present(t) == host[t] # "absent"

(* What an entry asks of its thing: a version or value, or Bare for any.   *)
Want(d, id) == IF tool.form = "fields" THEN AppFields(d, id) ELSE Pin(id)

-----------------------------------------------------------------------------
(* What the tools do to the host.                                          *)

Installed(id, want) ==
  LET t == Thing(id)
  IN IF Present(t) /\ (tool.reuse \/ want = Bare) THEN host
     ELSE [host EXCEPT ![t] = want]

Gone(t) == [host EXCEPT ![t] = "absent"]

(* The outcomes of uninstalling an ID: the host after it, and whether the  *)
(* tool reports success.  Some tools fail when there is nothing to remove. *)
Removals(id) ==
  LET t == Thing(id)
  IN CASE tool.remove = "nothing" -> {<<host, TRUE>>}
       [] tool.remove = "thing" /\ Present(t) -> {<<Gone(t), TRUE>>}
       [] tool.remove = "thing" /\ ~Present(t) -> {<<host, TRUE>>, <<host, FALSE>>}
       [] tool.remove = "match" ->
            {IF Present(t) /\ Pin(id) \in {Bare, host[t]} THEN <<Gone(t), TRUE>> ELSE <<host, FALSE>>}

(* Things whose state on the host no longer is what an apply made it.      *)
Touched(h) == {t \in Things : h[t] # host[t]}

-----------------------------------------------------------------------------
(* Apply.                                                                  *)

Listed(id) == CASE tool.probe = "thing"   -> Present(Thing(id))
                [] tool.probe = "bare"    -> Present(Thing(id)) /\ Pin(id) = Bare
                [] tool.probe = "check"   -> id \in disk.checks => Present(Thing(id))
                [] tool.probe = "record"  -> disk.st[id] = "ok"
                [] tool.probe = "nothing" -> TRUE

Probed == [id \in Ids |-> IF id \notin Tracked(disk.st) THEN disk.st[id]
                          ELSE IF Listed(id) THEN "ok" ELSE "failed"]

(* apt compares the pin of an installed package with its version.          *)
Outdated(d, id) == tool.form = "fields" /\ Want(d, id) \notin {Bare, host[Thing(id)]}

(* Wrong plans: what failed is not tried again; what failed is forgotten   *)
(* when its entry goes.                                                    *)
InstallsWithoutRetry(d, st) ==
  {id \in Declared(d) : st[id] \in {"untracked", "removed"} \/ Outdated(d, id)}

RemovesOk(d, st) == IF disk.hash = NoHash THEN {} ELSE {id \in Ids : st[id] = "ok"} \ Declared(d)

(* A wrong plan, that removes the declared things as well.                 *)
RemovesAll(d, st) == IF disk.hash = NoHash THEN {} ELSE Tracked(st)

(* ComputePlan and the promotion of skips: what is to be installed or      *)
(* updated, and what is to be removed.                                     *)
Installs(d, st) ==
  {id \in Declared(d) : st[id] # "ok" \/ Outdated(d, id) \/ disk.hash \notin {NoHash, d}}

Removes(d, st) == IF disk.hash = NoHash THEN {} ELSE Tracked(st) \ Declared(d)

(* A wrong plan, that removes the old pin of what has just been installed. *)
SparesNothing(d, ids) == {}

(* suppressRedundantVersionRemoves: the other pins of a declared thing are *)
(* marked removed, and not removed.                                        *)
Spared(d, ids) == IF tool.spared THEN {id \in ids : Thing(id) \in DeclaredThings(d)} ELSE {}

(* Installs are tried in the order of the document.                        *)
IsNext(id) ==
  /\ id \in todo
  /\ tool.shuffled \/ \A other \in todo \ {id} : ListedBefore(doc, id, other)

StartApply ==
  /\ phase = "idle" /\ phase' = "act"
  /\ \E d \in {Document}, st \in {Probed} :
       LET removes == Removes(d, st)
           spared == Spared(d, removes)
       IN /\ ~HasDuplicateApps(d)
          /\ doc' = d
          /\ todo' = Installs(d, st)
          /\ doomed' = removes \ spared
          /\ mem' = [id \in Ids |-> IF id \in spared THEN "removed" ELSE st[id]]
          /\ disk' = [disk EXCEPT !.st = st]
  /\ stored' = disk.checks
  /\ ok' = TRUE /\ quiet' = TRUE /\ done' = {}
  /\ UNCHANGED <<tool, files, host, cmd, changes, troubles, calm, unsettled, asked>>

(* The same entry under two tags: the provider is probed, and skipped.     *)
RefuseApply ==
  /\ phase = "idle"
  /\ HasDuplicateApps(Document)
  /\ disk' = [disk EXCEPT !.st = Probed]
  /\ calm' = 0
  /\ UNCHANGED <<tool, files, host, phase, session, cmd, changes, troubles, quiet, done, unsettled, asked>>

DoInstall(id) ==
  /\ phase = "act" /\ IsNext(id)
  /\ host' = Installed(id, Want(doc, id))
  /\ mem' = [mem EXCEPT ![id] = "ok"]
  /\ stored' = IF tool.probe = "check" THEN stored \cup {id} ELSE stored
  /\ unsettled' = unsettled \cup {Thing(id)}
  /\ done' = done \cup {Thing(id)}
  /\ todo' = todo \ {id}
  /\ UNCHANGED <<tool, files, disk, phase, doomed, doc, ok, cmd, changes, troubles, quiet, calm, asked>>

DoRemove(id) ==
  /\ phase = "act" /\ todo = {} /\ id \in doomed
  /\ \E out \in Removals(id) :
       /\ host' = out[1] /\ ok' = (ok /\ out[2])
       /\ mem' = [mem EXCEPT ![id] = IF out[2] THEN "removed" ELSE "failed"]
       /\ unsettled' = unsettled \cup Touched(out[1])
       /\ done' = done \ Touched(out[1])
  /\ doomed' = doomed \ {id}
  /\ UNCHANGED <<tool, files, disk, phase, todo, doc, stored, cmd, changes, troubles, quiet, calm, asked>>

(* Something that the code does not decide goes wrong.                     *)
Trouble == troubles < MaxTroubles /\ troubles' = troubles + 1
Disturbed == quiet' = FALSE /\ calm' = 0

(* What fails is recorded failed, without the options of its record.       *)
ActFails(id) ==
  /\ phase = "act" /\ Trouble
  /\ \/ IsNext(id) /\ host' \in {host, Installed(id, Want(doc, id))}
     \/ todo = {} /\ id \in doomed /\ host' \in {host} \cup {out[1] : out \in Removals(id)}
  /\ mem' = [mem EXCEPT ![id] = "failed"]
  /\ unsettled' = unsettled \cup {Thing(id)}
  /\ todo' = todo \ {id} /\ doomed' = doomed \ {id}
  /\ ok' = FALSE
  /\ UNCHANGED <<tool, files, disk, phase, doc, stored, cmd, changes, quiet, calm, done, asked>>

(* The hash of the document is stamped only when everything succeeded; the *)
(* state file is saved in any case.                                        *)
EndApply ==
  /\ phase = "act" /\ todo = {} /\ doomed = {}
  /\ disk' = [hash |-> IF ok THEN doc ELSE disk.hash, st |-> mem, checks |-> stored]
  /\ phase' = "idle"
  /\ calm' = IF ok /\ quiet /\ disk.hash # NoHash THEN IF calm = 2 THEN 2 ELSE calm + 1 ELSE 0
  /\ unsettled' = IF ok THEN unsettled \ done ELSE unsettled
  /\ UNCHANGED <<tool, files, host, session, cmd, changes, troubles, quiet, done, asked>>

-----------------------------------------------------------------------------
(* Commands: the tool, then the hamsfile the user chose, then the state.   *)

NoCommand == [verb |-> "none", id |-> <<>>, pin |-> Bare, local |-> FALSE]

(* What a command line may say: what to add, or what to take out, a thing  *)
(* or an ID.                                                               *)
Adds == IF tool.add = "none" THEN {}
        ELSE {[verb |-> "add", id |-> e.id, pin |-> e.pin, local |-> b] :
                e \in Writable(tool), b \in BOOLEAN}
Drops == CASE tool.drop = "none"  -> {}
           [] tool.drop = "thing" -> {[verb |-> "drop", id |-> <<t, Bare>>, pin |-> Bare, local |-> b] :
                                        t \in Things, b \in BOOLEAN}
           [] OTHER -> {[verb |-> "drop", id |-> e.id, pin |-> Bare, local |-> b] :
                          e \in Writable(tool), b \in BOOLEAN}

File(c) == IF c.local THEN local ELSE main

(* git-clone remove wants an ID that the hamsfile or the state file has.   *)
Allowed(c) == tool.drop = "entry" /\ c.verb = "drop"
                => c.id \in Declared(File(c)) \/ disk.st[c.id] # "untracked"

ToolOutcomes(c) ==
  IF c.verb = "add" THEN {<<Installed(c.id, IF tool.form = "fields" THEN c.pin ELSE Pin(c.id)), TRUE>>}
  ELSE IF tool.drop = "entry" THEN {<<host, TRUE>>}
  ELSE Removals(c.id)

StartCommand(c) ==
  /\ phase = "idle" /\ changes < MaxChanges
  /\ Allowed(c)
  /\ \E out \in ToolOutcomes(c) :
       /\ host' = out[1]
       /\ phase' = IF out[2] THEN "write" ELSE "idle"
       /\ cmd' = IF out[2] THEN c ELSE NoCommand
       /\ unsettled' = unsettled \cup Touched(out[1])
  /\ changes' = changes + 1
  /\ asked' = asked \ {Thing(c.id)}
  /\ Disturbed
  /\ UNCHANGED <<tool, files, disk, session, troubles, done>>

CommandFails(c) ==
  /\ phase = "idle" /\ changes < MaxChanges /\ Trouble
  /\ Allowed(c)
  /\ host' \in {out[1] : out \in ToolOutcomes(c)}
  /\ unsettled' = unsettled \cup Touched(host')
  /\ changes' = changes + 1
  /\ asked' = asked \ {Thing(c.id)}
  /\ Disturbed
  /\ UNCHANGED <<tool, files, disk, phase, session, cmd, done>>

(* The IDs a command takes out of its file: other values of a key that is  *)
(* set, everything of a key that is unset, or the ID that is removed.      *)
Displaced(c) ==
  CASE c.verb = "drop" /\ tool.drop # "thing" -> {c.id}
    [] c.verb = "drop" /\ tool.drop = "thing" ->
         {id \in Declared(File(c)) : Thing(id) = Thing(c.id)}
    [] c.verb = "add" /\ tool.add = "instead" ->
         {id \in Declared(File(c)) : Thing(id) = Thing(c.id) /\ id # c.id}
    [] OTHER -> {}

Edited(c) ==
  LET rest == RemoveApps(File(c), Displaced(c))
      kept == IF c.verb = "add" THEN AddAppWithFields(rest, CliTag, c.id, c.pin) ELSE rest
  IN IF c.verb = "add" /\ tool.form = "fields" /\ c.pin = Bare THEN RemoveAppField(kept, c.id) ELSE kept

Recorded(c) ==
  [id \in Ids |-> IF c.verb = "add" /\ id = c.id THEN "ok"
                  ELSE IF id \in Displaced(c) THEN "removed" ELSE disk.st[id]]

WriteHamsfile ==
  /\ phase = "write"
  /\ IF cmd.local THEN local' = Edited(cmd) /\ UNCHANGED main
                  ELSE main' = Edited(cmd) /\ UNCHANGED local
  /\ mem' = Recorded(cmd)
  /\ phase' = "save"
  /\ asked' = IF cmd.verb = "add" THEN asked \cup {Thing(cmd.id)} ELSE asked
  /\ UNCHANGED <<tool, host, disk, todo, doomed, doc, ok, stored, cmd, changes, troubles,
                 quiet, calm, done, unsettled>>

SaveState ==
  /\ phase = "save"
  /\ disk' = [disk EXCEPT !.st = mem]
  /\ phase' = "idle" /\ cmd' = NoCommand
  /\ UNCHANGED <<tool, files, host, session, changes, troubles, history>>

-----------------------------------------------------------------------------
(* The rest of the world.                                                  *)

(* The user writes a section of one of the files anew.                     *)
EditFile(f, t, section) ==
  /\ changes < MaxChanges /\ changes' = changes + 1
  /\ \/ /\ f = "main" /\ section # main[t]
        /\ main' = [main EXCEPT ![t] = section] /\ UNCHANGED local
     \/ /\ f = "local" /\ section # local[t]
        /\ local' = [local EXCEPT ![t] = section] /\ UNCHANGED main
  /\ asked' = {}
  /\ Disturbed
  /\ UNCHANGED <<tool, host, disk, phase, session, cmd, troubles, done, unsettled>>

(* Another program installs, changes or removes a thing.                   *)
Drift(t, v) ==
  /\ Trouble
  /\ v # host[t] /\ host' = [host EXCEPT ![t] = v]
  /\ unsettled' = unsettled \cup {t} /\ done' = done \ {t}
  /\ Disturbed
  /\ UNCHANGED <<tool, files, disk, phase, session, cmd, changes, asked>>

(* The process dies, or its save fails: the host and the hamsfile keep     *)
(* what was done to them.                                                  *)
Kill ==
  /\ phase # "idle" /\ Trouble
  /\ phase' = "idle" /\ cmd' = NoCommand
  /\ Disturbed
  /\ UNCHANGED <<tool, files, host, disk, session, changes, done, unsettled, asked>>

-----------------------------------------------------------------------------
(* The user starts with two files without entries.                         *)
Init ==
  /\ tool \in Used
  /\ main = EmptyDoc /\ local = EmptyDoc
  /\ host = [t \in Things |-> "absent"]
  /\ disk = [hash |-> NoHash, st |-> Untracked, checks |-> {}]
  /\ phase = "idle" /\ cmd = NoCommand
  /\ todo = {} /\ doomed = {} /\ doc = EmptyDoc /\ mem = Untracked /\ ok = TRUE
  /\ stored = {}
  /\ changes = 0 /\ troubles = 0
  /\ quiet = FALSE /\ calm = 0 /\ done = {} /\ unsettled = {} /\ asked = {}

Act == (\E id \in Ids : DoInstall(id) \/ DoRemove(id)) \/ EndApply \/ WriteHamsfile \/ SaveState

Next ==
  \/ StartApply \/ RefuseApply \/ Act \/ Kill
  \/ \E id \in Ids : ActFails(id)
  \/ \E c \in Adds \cup Drops : StartCommand(c) \/ CommandFails(c)
  \/ \E f \in ByHand, s \in Sections : EditFile(f[1], f[2], s)
  \/ \E t \in Things, v \in Values \cup {Bare, "absent"} : Drift(t, v)

Spec == Init /\ [][Next]_vars

(* Sessions and commands run to their end, and the user applies again and  *)
(* again.                                                                  *)
RerunSpec == Spec /\ WF_vars(Act) /\ SF_vars(StartApply)

-----------------------------------------------------------------------------
TypeOK ==
  /\ tool \in Used
  /\ \A d \in {main, local, doc} : d \in Documents
  /\ host \in [Things -> Values \cup {Bare, "absent"}]
  /\ disk.st \in [Ids -> Statuses] /\ mem \in [Ids -> Statuses]
  /\ phase \in {"idle", "act", "write", "save"}
  /\ phase = "act" => todo \subseteq Declared(doc) /\ doomed \cap Declared(doc) = {}
  /\ phase \in {"write", "save"} <=> cmd # NoCommand

(* Tools that uninstall a thing by any of its IDs, without sparing those   *)
(* that are declared under another one.                                    *)
Unsparing == tool.remove # "nothing" /\ ~tool.spared /\ tool.form \in {"pinned", "value"}

(* When a pin is edited, dropped or added by hand, by a command or in the  *)
(* local file, the apply that follows never uninstalls the package the     *)
(* document declares under its other pin.                                  *)
DeclaredIsNotUninstalled ==
  [][phase = "act" /\ ~Unsparing =>
       \A t \in DeclaredThings(doc) : Present(t) /\ UNCHANGED troubles => host'[t] # "absent"]_vars

(* A section that is no list hides what the other file has there, and      *)
(* takes no entry.                                                         *)
Recordable == local[CliTag] # NoList /\ \A t \in Tags : main[t] # NoList

(* What the user asked for last, by a command that got as far as the       *)
(* hamsfile, is declared by the document of the next apply, whichever file *)
(* and tag it was recorded in and whatever the other file says, and will   *)
(* not be uninstalled; unless a tag has no list to record in.              *)
AskedIsDeclared == Recordable => asked \subseteq DeclaredThings(Document)

(* Things that changed, or failed, and that the probe tells nothing of.    *)
Unnoticed ==
  {t \in unsettled : \/ tool.probe \in {"nothing", "record"}
                     \/ tool.probe = "check" /\ \E id \in Ids \ disk.checks : Thing(id) = t}

InPlace == \A t \in DeclaredThings(Document) : Present(t) \/ t \in Unnoticed

Sole(d, id) == \A i \in Declared(d) : Thing(i) = Thing(id) => i = id

(* What a document declares alone of its thing has its version or value,   *)
(* unless others changed the thing.                                        *)
VersionsHold(d) ==
  \A id \in Declared(d) :
    Sole(d, id) /\ ~tool.reuse /\ Thing(id) \notin unsettled
      => Want(d, id) \in {Bare, host[Thing(id)]}

(* Two undisturbed applies in a row that succeed leave the host as the     *)
(* document says: every declared thing there, in the declared version or   *)
(* with the declared value if only one is declared and nobody else changed *)
(* it since; and the state file tracks what is declared, and no more.      *)
SecondApplySettles ==
  calm = 2 /\ phase = "idle" =>
    /\ Tracked(disk.st) = Declared(Document)
    /\ InPlace
    /\ VersionsHold(Document)

(* A user who applies again and again has every declared thing on the host *)
(* in the end, whatever failed, died, was edited or changed before, unless *)
(* the document is refused or the probe cannot tell.                       *)
DeclaredReachHost == <>[](HasDuplicateApps(Document) \/ InPlace)

(* Violated: one undisturbed apply that succeeds gives every key the value *)
(* the document declares, if it declares one.                              *)
DeclaredValueHolds ==
  calm >= 1 /\ phase = "idle" /\ tool.form = "value" =>
    \A id \in Declared(Document) : Sole(Document, id) => host[Thing(id)] = Pin(id)

(* Violated: what one apply recorded as failed, and is not on the host, is *)
(* tried again by the next.                                                *)
FailedIsRetried ==
  [][phase = "idle" /\ phase' = "act" =>
       \A id \in Declared(doc') :
         disk.st[id] = "failed" /\ ~Present(Thing(id)) => id \in todo']_vars
=============================================================================

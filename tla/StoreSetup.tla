----------------------------- MODULE StoreSetup ------------------------------
(***************************************************************************)
(* Configuration files, store directories and the commands that create     *)
(* them: the scaffold that precedes every `hams <provider>` command        *)
(* (internal/storeinit), `hams config set` and `unset`, `hams store init`, *)
(* and the way `hams apply`, `refresh`, `list` and `store status` find     *)
(* their store, profile and machine (internal/config, internal/cli).       *)
(*                                                                         *)
(* None of these commands takes the state lock while it reads and writes   *)
(* configuration, so the steps of several processes interleave.            *)
(*                                                                         *)
(* A store is an absolute path.  A relative --store is recorded as it was  *)
(* given, so what is said here of the next command holds of it only in the *)
(* same working directory.                                                 *)
(***************************************************************************)
EXTENDS Sequences, FiniteSets, Naturals

CONSTANTS
  Stores,       \* directories that may be a store
  Default,      \* the one DefaultLocation names
  Clone,        \* the one a remote repository is cloned to
  Remote,       \* that repository
  RemoteTags,   \* the profiles it has
  DefaultTag,   \* "default"
  Tags,         \* profile tags
  Machine,      \* the machine id derived from the host name
  Machines,     \* machine ids
  None,         \* the empty string
  Missing,      \* a file that is not there
  Broken,       \* a file that is not YAML
  Failed,       \* the error of a configuration that does not load
  Procs,        \* processes
  Invocations,  \* the command lines users type
  Firsts,       \* the configuration file and the stores a user starts with
  Edits,        \* what users write into configuration files by hand
  MaxCommands,  \* bound on the commands
  MaxEvents     \* bound on edits, failures and kills

ASSUME StoreAssumption == {Default, Clone} \subseteq Stores /\ None \notin Stores
ASSUME TagAssumption == {DefaultTag} \cup RemoteTags \subseteq Tags /\ None \notin Tags
ASSUME MachineAssumption == Machine \in Machines /\ None \notin Machines
ASSUME NoneAssumption == None # Remote

Keys == {"store_path", "store_repo", "profile_tag", "machine_id", "llm_cli"}
Sensitive == {"llm_cli"}
Values == Stores \cup Tags \cup Machines \cup {None, Remote}
ValuesOf(k) ==
  CASE k = "store_path"  -> Stores
    [] k = "store_repo"  -> {Remote}
    [] k = "profile_tag" -> Tags
    [] k = "machine_id"  -> Machines
    [] k = "llm_cli"     -> Values
Contents == {c \in [Keys -> Values] : \A k \in Keys : c[k] \in ValuesOf(k) \cup {None}}
Empty == [k \in Keys |-> None]

(* A file is hams.config.yaml or hams.config.local.yaml, of a store or, for *)
(* None, of the configuration directory.                                   *)
Places == ({None} \cup Stores) \X {"main", "local"}
Global == <<None, "main">>
GlobalLocal == <<None, "local">>

Verbs == {"none", "provider", "set", "unset", "edit", "view", "init", "apply"}
CommandLines ==
  {c \in [verb : Verbs, store : Stores \cup {None}, tag : Tags \cup {None}, key : Keys,
          value : Values, from : {None, Remote}, dry : BOOLEAN, tty : BOOLEAN] :
     c.value \in ValuesOf(c.key) \cup {None}}

ASSUME MarkAssumption == {Missing, Broken, Failed} \cap Contents = {} /\ Missing # Broken
ASSUME InvocationAssumption == Invocations \subseteq CommandLines
ASSUME FirstAssumption ==
  Firsts \subseteq [global : Contents \cup {Missing, Broken}, cloned : SUBSET Stores]
ASSUME EditAssumption == Edits \subseteq [place : Places, file : Contents \cup {Broken}]

VARIABLES
  conf,      \* place -> Contents, Missing or Broken
  tree,      \* store -> its directory, .git and .gitignore
  profiles,  \* store -> the profile directories in it
  pc, cmd,   \* process -> where it is, its command line
  path,      \* process -> the store it resolved
  tagged,    \* process -> the profile it resolved
  todo,      \* process -> what it has left to create
  writes,    \* process -> the configuration keys it has left to write
  buf,       \* process -> the file it has read and is about to replace
  half,      \* process -> it is in the middle of creating something
  undisturbed,     \* history: process -> nothing has disturbed its command so far
  torn,      \* history: what a kill left half created
  last,      \* history: the command that ended last
  commands, happened

disk  == <<conf, tree, profiles>>
proc  == <<pc, cmd, path, tagged, todo, writes, buf, half>>
ghost == <<undisturbed, torn, last>>
setupVars == <<disk, proc, ghost, commands, happened>>

Pieces == {"dir", "git", "ignore"}
NoCommand == [verb |-> "none", store |-> None, tag |-> None, key |-> "llm_cli",
              value |-> None, from |-> None, dry |-> FALSE, tty |-> FALSE]

NoneYet == [cmd |-> NoCommand, ok |-> FALSE, store |-> None]

-----------------------------------------------------------------------------
(* Reading configuration.                                                  *)

Of(f) == IF f = Missing THEN Empty ELSE f

Overlay(base, top) == [k \in Keys |-> IF top[k] # None THEN top[k] ELSE base[k]]

(* A file of a store may not carry the identity of a machine.              *)
InScope(f) == Of(f)["profile_tag"] = None /\ Of(f)["machine_id"] = None

(* Global, then global local, then the two files of the store they name,   *)
(* unless the command line names one.  A store's file may name yet another *)
(* store, which then is the store, but whose files are not read.           *)
Load(s, tag) ==
  IF conf[Global] = Broken \/ conf[GlobalLocal] = Broken THEN Failed
  ELSE LET global == Overlay(Of(conf[Global]), Of(conf[GlobalLocal]))
           home   == IF s # None THEN s ELSE global["store_path"]
           main   == conf[<<home, "main">>]
           local  == conf[<<home, "local">>]
       IN IF home # None /\ (main = Broken \/ local = Broken) THEN Failed
          ELSE IF home # None /\ ~(InScope(main) /\ InScope(local)) THEN Failed
          ELSE LET merged == IF home = None THEN global
                             ELSE Overlay(Overlay(global, Of(main)), Of(local))
               IN [merged EXCEPT
                     !["store_path"]  = IF s # None THEN s ELSE @,
                     !["profile_tag"] = IF tag # None THEN tag ELSE @]

ProfileOf(cfg) == IF cfg["profile_tag"] = None THEN DefaultTag ELSE cfg["profile_tag"]

(* A wrong resolution, which forgets the configured store.                 *)
DefaultUnlessAsked(s) == IF s # None THEN s ELSE Default

ResolveStorePath(s) ==
  LET cfg == Load(None, None)
  IN IF s # None THEN s
     ELSE IF cfg # Failed /\ cfg["store_path"] # None THEN cfg["store_path"]
     ELSE Default

(* The place a key is written to, given the --store flag.                  *)
Target(s, key) == IF key \in Sensitive THEN <<s, "local">> ELSE Global

Write(place, key, value, seed) ==
  [place |-> place, key |-> key, value |-> value, seed |-> seed]
Identity(tag, mid) ==
  << Write(Global, "profile_tag", tag, FALSE), Write(Global, "machine_id", mid, FALSE) >>
(* A wrong scaffold, which takes a directory that exists for a scaffold    *)
(* that has ended.                                                         *)
ScaffoldNewStores(s) ==
  IF tree[s]["dir"] # "missing" THEN <<>>
  ELSE << Write(Global, "store_path", s, FALSE), Write(Global, "profile_tag", DefaultTag, TRUE),
          Write(Global, "machine_id", Machine, TRUE) >>

Scaffold(s) ==
  << Write(Global, "store_path", s, FALSE), Write(Global, "profile_tag", DefaultTag, TRUE),
     Write(Global, "machine_id", Machine, TRUE) >>

-----------------------------------------------------------------------------
(* Processes.                                                              *)

SetupInit ==
  /\ \E first \in Firsts :
       /\ conf = [f \in Places |-> IF f = Global THEN first.global
                                  ELSE IF f[1] \in first.cloned /\ f[2] = "main" THEN Empty
                                  ELSE Missing]
       /\ tree = [s \in Stores |-> [x \in Pieces |-> IF s \in first.cloned THEN "done" ELSE "missing"]]
       /\ profiles = [s \in Stores |-> IF s \in first.cloned THEN RemoteTags ELSE {}]
  /\ pc = [p \in Procs |-> "idle"]
  /\ cmd = [p \in Procs |-> NoCommand]
  /\ path = [p \in Procs |-> None]
  /\ tagged = [p \in Procs |-> None]
  /\ todo = [p \in Procs |-> <<>>]
  /\ writes = [p \in Procs |-> <<>>]
  /\ buf = [p \in Procs |-> Missing]
  /\ half = [p \in Procs |-> FALSE]
  /\ undisturbed = [p \in Procs |-> FALSE]
  /\ torn = {}
  /\ last = NoneYet
  /\ commands = 0
  /\ happened = 0

Happens == happened < MaxEvents /\ happened' = happened + 1
Calm == UNCHANGED <<commands, happened>>

Is(p, verbs, at) == pc[p] = at /\ cmd[p].verb \in verbs

(* Whatever one process does, it disturbs the others.                      *)
Disturb(p) == undisturbed' = [q \in Procs |-> undisturbed[q] /\ q = p]

Idle(p) ==
  /\ pc' = [pc EXCEPT ![p] = "idle"] /\ cmd' = [cmd EXCEPT ![p] = NoCommand]
  /\ path' = [path EXCEPT ![p] = None] /\ tagged' = [tagged EXCEPT ![p] = None]
  /\ todo' = [todo EXCEPT ![p] = <<>>] /\ writes' = [writes EXCEPT ![p] = <<>>]
  /\ buf' = [buf EXCEPT ![p] = Missing] /\ half' = [half EXCEPT ![p] = FALSE]
  /\ undisturbed' = [q \in Procs |-> FALSE]

End(p, ok, s) ==
  /\ Idle(p)
  /\ last' = [cmd |-> cmd[p], ok |-> ok, store |-> s]
  /\ UNCHANGED torn

(* The command goes on: to create t, to write w, then to do its work on s. *)
Proceed(p, at, s, tag, t, w) ==
  /\ pc' = [pc EXCEPT ![p] = at]
  /\ path' = [path EXCEPT ![p] = s]
  /\ tagged' = [tagged EXCEPT ![p] = tag]
  /\ todo' = [todo EXCEPT ![p] = t]
  /\ writes' = [writes EXCEPT ![p] = w]
  /\ Disturb(p)
  /\ UNCHANGED <<cmd, buf, half, torn, last>>

Invoke(p, c) ==
  /\ pc[p] = "idle"
  /\ commands < MaxCommands /\ commands' = commands + 1
  /\ pc' = [pc EXCEPT ![p] = "start"]
  /\ cmd' = [cmd EXCEPT ![p] = c]
  /\ last' = NoneYet
  /\ undisturbed' = [q \in Procs |-> q = p /\ \A o \in Procs \ {p} : pc[o] = "idle"]
  /\ UNCHANGED <<disk, path, tagged, todo, writes, buf, half, torn, happened>>

-----------------------------------------------------------------------------
(* What each command line starts with.                                     *)

(* A dry run previews the path and touches nothing.                        *)
StartProvider(p) ==
  /\ Is(p, {"provider"}, "start")
  /\ LET s == ResolveStorePath(cmd[p].store)
     IN IF cmd[p].dry THEN Proceed(p, "handle", s, cmd[p].tag, <<>>, <<>>)
        ELSE Proceed(p, "create", s, cmd[p].tag, <<"dir", "git", "ignore", "main">>, Scaffold(s))
  /\ UNCHANGED disk /\ Calm

(* `refresh`, `list`, `config get`, `store status`: they load and look.    *)
RunView(p) ==
  /\ Is(p, {"view"}, "start")
  /\ LET cfg == Load(cmd[p].store, None)
     IN IF cfg = Failed THEN End(p, FALSE, None)
        ELSE LET s == cfg["store_path"]
             IN End(p, s # None => tree[s]["dir"] # "missing", s)
  /\ UNCHANGED disk /\ Calm

StartWrite(p) ==
  /\ Is(p, {"set", "unset"}, "start")
  /\ IF cmd[p].dry THEN End(p, TRUE, None)
     ELSE Proceed(p, "write", None, None, <<>>,
            << Write(Target(cmd[p].store, cmd[p].key), cmd[p].key, cmd[p].value, FALSE) >>)
  /\ UNCHANGED disk /\ Calm

(* `config edit` creates a missing file; the editor is EditByHand.         *)
StartEdit(p) ==
  /\ Is(p, {"edit"}, "start")
  /\ conf' = IF cmd[p].dry \/ conf[Global] # Missing THEN conf ELSE [conf EXCEPT ![Global] = Empty]
  /\ End(p, TRUE, None)
  /\ UNCHANGED <<tree, profiles>> /\ Calm

(* Terminals are asked for the identity, which `store init` writes first.  *)
StartInit(p) ==
  /\ Is(p, {"init"}, "start")
  /\ LET cfg == Load(cmd[p].store, None)
         create == <<"profile", "main", "ignore">>
     IN IF cfg = Failed THEN End(p, FALSE, None)
        ELSE IF cfg["store_path"] = None THEN End(p, FALSE, None)
        ELSE LET s == cfg["store_path"]
             IN IF cmd[p].dry THEN End(p, TRUE, s)
                ELSE IF cfg["profile_tag"] = None /\ cmd[p].tty
                THEN \E t \in Tags, m \in Machines : Proceed(p, "write", s, t, create, Identity(t, m))
                ELSE Proceed(p, "create", s, ProfileOf(cfg), create, <<>>)
  /\ UNCHANGED disk /\ Calm

(* The repository on the command line, the store on the command line, the  *)
(* configured store, the configured repository, in this order.             *)
StartApply(p) ==
  /\ Is(p, {"apply"}, "start")
  /\ LET c == cmd[p]
         cfg == IF c.store = None THEN Load(None, c.tag) ELSE Empty
     IN IF cfg = Failed \/ (c.from # None /\ c.store # None) THEN End(p, FALSE, None)
        ELSE LET s == IF c.store # None THEN c.store ELSE cfg["store_path"]
                 repo == IF c.from # None THEN c.from
                         ELSE IF s = None THEN cfg["store_repo"] ELSE None
             IN IF repo = None THEN Proceed(p, "settle", s, c.tag, <<>>, <<>>)
                ELSE IF ~c.dry THEN Proceed(p, "create", Clone, c.tag, <<"clone">>, <<>>)
                ELSE IF tree[Clone]["git"] # "missing"
                THEN Proceed(p, "settle", Clone, c.tag, <<>>, <<>>)
                ELSE End(p, TRUE, None)
  /\ UNCHANGED disk /\ Calm

(* The store must exist, its configuration load, a profile that was asked  *)
(* for exist, and the identity be known: a first run with --tag seeds it,  *)
(* a terminal is asked, anything else fails.  There is no dry run here.    *)
SettleApply(p) ==
  /\ Is(p, {"apply"}, "settle")
  /\ LET s == path[p]
         tag == cmd[p].tag
         there == IF s = None THEN FALSE ELSE tree[s]["dir"] # "missing"
         cfg == IF there THEN Load(s, tag) ELSE Failed
     IN IF cfg = Failed THEN End(p, FALSE, None)
        ELSE IF tag # None /\ tag \notin profiles[s] THEN End(p, FALSE, None)
        ELSE IF cfg["profile_tag"] # None /\ cfg["machine_id"] # None THEN End(p, TRUE, s)
        ELSE IF tag # None /\ conf[Global] = Missing
        THEN Proceed(p, "write", s, tag, <<>>, Identity(tag, Machine))
        ELSE IF cmd[p].tty
        THEN \E t \in Tags, m \in Machines : Proceed(p, "write", s, t, <<>>, Identity(t, m))
        ELSE End(p, FALSE, None)
  /\ UNCHANGED disk /\ Calm

-----------------------------------------------------------------------------
(* Creating what is missing; what exists is left as it is.                 *)

(* A wrong test, of the directory in place of what is in it.               *)
ThereIfDirectory(s, x) == tree[s]["dir"] # "missing"

There(s, x) ==
  CASE x \in Pieces  -> tree[s][x] # "missing"
    [] x = "main"    -> conf[<<s, "main">>] # Missing
    [] x = "profile" -> FALSE
    [] x = "clone"   -> tree[s]["git"] # "missing"

(* A wrong step, which leaves the piece it has made under way.             *)
NextPieceUnderWay(p) == todo' = [todo EXCEPT ![p] = Tail(@)] /\ UNCHANGED half

NextPiece(p) == todo' = [todo EXCEPT ![p] = Tail(@)] /\ half' = [half EXCEPT ![p] = FALSE]

(* A directory with .git is not cloned again: it is pulled, and a pull     *)
(* that fails is only worth a warning.                                     *)
SkipPiece(p) ==
  /\ pc[p] = "create" /\ todo[p] # <<>> /\ ~half[p]
  /\ There(path[p], Head(todo[p]))
  /\ NextPiece(p) /\ Disturb(p)
  /\ UNCHANGED <<disk, pc, cmd, path, tagged, writes, buf, torn, last>> /\ Calm

CreatePiece(p) ==
  /\ pc[p] = "create" /\ todo[p] # <<>> /\ ~half[p]
  /\ LET s == path[p]
         x == Head(todo[p])
     IN /\ ~There(s, x)
        /\ \/ x = "dir" /\ tree' = [tree EXCEPT ![s]["dir"] = "done"] /\ UNCHANGED <<conf, profiles>>
           \/ /\ x = "main" /\ conf' = [conf EXCEPT ![<<s, "main">>] = Empty]
              /\ UNCHANGED <<tree, profiles>>
           \/ /\ x = "profile" /\ profiles' = [profiles EXCEPT ![s] = @ \cup {tagged[p]}]
              /\ tree' = [tree EXCEPT ![s]["dir"] = "done"] /\ UNCHANGED conf
  /\ NextPiece(p) /\ Disturb(p)
  /\ UNCHANGED <<pc, cmd, path, tagged, writes, buf, torn, last>> /\ Calm

(* `git init`, a clone and a file written in place take time, and exist    *)
(* from the start of it.                                                   *)
BeginPiece(p) ==
  /\ pc[p] = "create" /\ todo[p] # <<>> /\ ~half[p]
  /\ LET s == path[p]
         x == Head(todo[p])
     IN /\ x \in {"git", "ignore", "clone"} /\ ~There(s, x)
        /\ tree' = IF x = "clone" THEN [tree EXCEPT ![s]["dir"] = "done", ![s]["git"] = "part"]
                   ELSE [tree EXCEPT ![s][x] = "part"]
  /\ half' = [half EXCEPT ![p] = TRUE] /\ Disturb(p)
  /\ UNCHANGED <<conf, profiles, pc, cmd, path, tagged, todo, writes, buf, torn, last>> /\ Calm

EndPiece(p) ==
  /\ half[p]
  /\ LET s == path[p]
         x == Head(todo[p])
     IN IF x = "clone"
        THEN /\ tree' = [tree EXCEPT ![s]["git"] = "done", ![s]["ignore"] = "done"]
             /\ conf' = [conf EXCEPT ![<<s, "main">>] = Empty]
             /\ profiles' = [profiles EXCEPT ![s] = @ \cup RemoteTags]
        ELSE tree' = [tree EXCEPT ![s][x] = "done"] /\ UNCHANGED <<conf, profiles>>
  /\ NextPiece(p) /\ Disturb(p)
  /\ UNCHANGED <<pc, cmd, path, tagged, writes, buf, torn, last>> /\ Calm

(* git fails, before it has made .git or after; what there is of a clone   *)
(* cannot be opened; a clone fails, which removes what it had made.        *)
PieceFails(p) ==
  /\ pc[p] = "create" /\ todo[p] # <<>> /\ Happens
  /\ LET s == path[p]
         x == Head(todo[p])
     IN \/ /\ ~half[p]
           /\ x = "clone" \/ (x = "git" /\ ~There(s, x))
           /\ UNCHANGED <<tree, torn>>
        \/ /\ x = "git" /\ half[p]
           /\ torn' = torn \cup {<<s, x>>} /\ UNCHANGED tree
        \/ /\ x = "clone" /\ half[p]
           /\ tree' = [tree EXCEPT ![s] = [y \in Pieces |-> "missing"]] /\ UNCHANGED torn
  /\ Idle(p) /\ last' = [cmd |-> cmd[p], ok |-> FALSE, store |-> None]
  /\ UNCHANGED <<conf, profiles, commands>>

Created(p) ==
  /\ pc[p] = "create" /\ todo[p] = <<>>
  /\ IF cmd[p].verb = "init" THEN End(p, TRUE, path[p])
     ELSE Proceed(p, IF cmd[p].verb = "apply" THEN "settle" ELSE "write",
                  path[p], tagged[p], <<>>, writes[p])
  /\ UNCHANGED disk /\ Calm

-----------------------------------------------------------------------------
(* Writing keys: read the file, change one key, replace the file whole.    *)

NextWrite(p) == writes' = [writes EXCEPT ![p] = Tail(@)]
BestEffort(p) == cmd[p].verb \in {"provider", "init", "apply"}

(* A scaffold seeds a key that a configuration that loads does not have.   *)
CheckSeed(p) ==
  /\ pc[p] = "write" /\ writes[p] # <<>> /\ Head(writes[p]).seed
  /\ LET cfg == Load(None, None)
     IN IF cfg # Failed /\ cfg[Head(writes[p]).key] # None
        THEN NextWrite(p)
        ELSE writes' = [writes EXCEPT ![p][1].seed = FALSE]
  /\ Disturb(p)
  /\ UNCHANGED <<disk, pc, cmd, path, tagged, todo, buf, half, torn, last>> /\ Calm

(* There is nothing to write when a key to unset is not set.               *)
ReadFile(p) ==
  /\ pc[p] = "write" /\ writes[p] # <<>> /\ ~Head(writes[p]).seed
  /\ LET w == Head(writes[p])
         f == conf[w.place]
     IN IF f = Broken
        THEN IF BestEffort(p)
             THEN /\ NextWrite(p) /\ Disturb(p)
                  /\ UNCHANGED <<pc, cmd, path, tagged, todo, buf, half, torn, last>>
             ELSE End(p, FALSE, None)
        ELSE IF cmd[p].verb = "unset" /\ Of(f)[w.key] = None THEN End(p, TRUE, None)
        ELSE /\ pc' = [pc EXCEPT ![p] = "replace"]
             /\ buf' = [buf EXCEPT ![p] = [Of(f) EXCEPT ![w.key] = w.value]]
             /\ Disturb(p)
             /\ UNCHANGED <<cmd, path, tagged, todo, writes, half, torn, last>>
  /\ UNCHANGED disk /\ Calm

(* A rename: the file is never seen half written, nor left so by a kill.   *)
ReplaceFile(p) ==
  /\ pc[p] = "replace"
  /\ LET w == Head(writes[p])
     IN /\ conf' = [conf EXCEPT ![w.place] = buf[p]]
        /\ tree' = IF w.place[1] = None THEN tree
                   ELSE [tree EXCEPT ![w.place[1]]["dir"] = "done"]
  /\ pc' = [pc EXCEPT ![p] = "write"]
  /\ buf' = [buf EXCEPT ![p] = Missing]
  /\ NextWrite(p) /\ Disturb(p)
  /\ UNCHANGED <<profiles, cmd, path, tagged, todo, half, torn, last>> /\ Calm

ReplaceFails(p) ==
  /\ pc[p] = "replace" /\ Happens
  /\ IF BestEffort(p)
     THEN /\ NextWrite(p) /\ undisturbed' = [q \in Procs |-> FALSE]
          /\ pc' = [pc EXCEPT ![p] = "write"] /\ buf' = [buf EXCEPT ![p] = Missing]
          /\ UNCHANGED <<cmd, path, tagged, todo, half, torn, last>>
     ELSE End(p, FALSE, None)
  /\ UNCHANGED <<disk, commands>>

Written(p) ==
  /\ pc[p] = "write" /\ writes[p] = <<>>
  /\ CASE cmd[p].verb = "provider" -> Proceed(p, "handle", path[p], tagged[p], <<>>, <<>>)
       [] cmd[p].verb = "init"     -> Proceed(p, "create", path[p], tagged[p], todo[p], <<>>)
       [] OTHER                    -> End(p, TRUE, path[p])
  /\ UNCHANGED disk /\ Calm

(* The provider's own command, on the store it was handed: its hamsfile    *)
(* goes into the profile's directory.                                      *)
Handle(p) ==
  /\ Is(p, {"provider"}, "handle")
  /\ LET cfg == Load(path[p], tagged[p])
     IN IF cfg = Failed THEN End(p, FALSE, None) /\ UNCHANGED profiles
        ELSE /\ profiles' = IF cmd[p].dry THEN profiles
                            ELSE [profiles EXCEPT ![path[p]] = @ \cup {ProfileOf(cfg)}]
             /\ End(p, TRUE, path[p])
  /\ UNCHANGED <<conf, tree>> /\ Calm

-----------------------------------------------------------------------------
(* Kills, and users who edit configuration files by hand.                  *)

KillCommand(p) ==
  /\ pc[p] # "idle" /\ Happens
  /\ torn' = IF ~half[p] THEN torn
             ELSE torn \cup {<<path[p], IF x = "ignore" THEN x ELSE "git">> : x \in {Head(todo[p])}}
  /\ Idle(p)
  /\ UNCHANGED <<disk, last, commands>>

EditByHand(e) ==
  /\ Happens
  /\ conf[e.place] # e.file
  /\ conf' = [conf EXCEPT ![e.place] = e.file]
  /\ tree' = IF e.place[1] = None THEN tree ELSE [tree EXCEPT ![e.place[1]]["dir"] = "done"]
  /\ undisturbed' = [p \in Procs |-> FALSE]
  /\ UNCHANGED <<profiles, proc, torn, last, commands>>

Starts(p) ==
  \/ StartProvider(p) \/ RunView(p) \/ StartWrite(p) \/ StartEdit(p)
  \/ StartInit(p) \/ StartApply(p)

Steps(p) ==
  \/ SettleApply(p) \/ SkipPiece(p) \/ CreatePiece(p) \/ BeginPiece(p) \/ EndPiece(p)
  \/ PieceFails(p) \/ Created(p) \/ CheckSeed(p) \/ ReadFile(p) \/ ReplaceFile(p)
  \/ ReplaceFails(p) \/ Written(p) \/ Handle(p)

SetupNext ==
  \/ \E p \in Procs : \/ \E c \in Invocations : Invoke(p, c)
                      \/ Starts(p) \/ Steps(p) \/ KillCommand(p)
  \/ \E e \in Edits : EditByHand(e)

SetupSpec == SetupInit /\ [][SetupNext]_setupVars

-----------------------------------------------------------------------------
SetupTypeOK ==
  /\ conf \in [Places -> Contents \cup {Missing, Broken}]
  /\ tree \in [Stores -> [Pieces -> {"missing", "part", "done"}]]
  /\ profiles \in [Stores -> SUBSET Tags]
  /\ pc \in [Procs -> {"idle", "start", "create", "settle", "write", "replace", "handle"}]
  /\ \A p \in Procs : /\ path[p] \in Stores \cup {None}
                      /\ tagged[p] \in Tags \cup {None}
                      /\ buf[p] \in Contents \cup {Missing}
                      /\ half[p] => pc[p] = "create" /\ todo[p] # <<>>
                      /\ pc[p] = "replace" => writes[p] # <<>> /\ buf[p] # Missing

(* A provider command that ends well leaves a whole store behind, whatever *)
(* was interrupted or failed before it and whoever else was creating the   *)
(* same store: every piece exists, and is complete unless it was being     *)
(* made by a command that was killed, or is being made by another.  Only   *)
(* the directory a repository is cloned to is not safe from others: go-git *)
(* empties it when a clone fails.                                          *)
StoreIsWhole ==
  last.ok /\ last.cmd.verb = "provider" /\ ~last.cmd.dry /\ last.store # Clone =>
    /\ conf[<<last.store, "main">>] # Missing
    /\ \A x \in Pieces :
         \/ tree[last.store][x] = "done"
         \/ /\ tree[last.store][x] = "part"
            /\ \/ <<last.store, x>> \in torn
               \/ \E p \in Procs : half[p] /\ path[p] = last.store

(* Whichever command looks, it finds the same store, profile and machine:  *)
(* `apply` loads twice, the scaffold once and the provider again, `refresh`*)
(* once.  The state files and the lock that guards them are named after    *)
(* the store and the machine.                                              *)
CommandsAgree ==
  \A s \in Stores \cup {None} :
    LET seen == Load(s, None)
        home == IF seen = Failed THEN None ELSE seen["store_path"]
        Same(cfg) == cfg = Failed \/ \A k \in {"store_path", "profile_tag", "machine_id"} : cfg[k] = seen[k]
    IN home # None => Same(Load(home, None)) /\ ResolveStorePath(s) = home

(* A provider command that nothing disturbed settles the configuration,    *)
(* whatever was killed before it: the next command, with no flag at all,   *)
(* resolves the store this one used and has a profile and a machine,       *)
(* unless it does not load or another file names a store of its own.       *)
ScaffoldSettles ==
  [][\A p \in Procs :
       Handle(p) /\ last'.ok /\ ~cmd[p].dry /\ undisturbed[p] =>
         LET cfg == Load(None, None)
             elsewhere == \E f \in Places \ {Global} :
                            conf[f] # Broken /\ Of(conf[f])["store_path"] \notin {None, path[p]}
         IN cfg = Failed \/ elsewhere
            \/ /\ cfg["profile_tag"] # None /\ cfg["machine_id"] # None
               /\ cfg["store_path"] = path[p]]_setupVars

=============================================================================

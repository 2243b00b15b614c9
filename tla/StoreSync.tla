------------------------------ MODULE StoreSync ------------------------------
(***************************************************************************)
(* `hams store push` and `hams store pull` (internal/cli/commands.go): the *)
(* work tree of the store, its history, and the remote's, which other      *)
(* machines push to.  Each git command is a step that may fail, and the    *)
(* user runs the hams command again.                                       *)
(*                                                                         *)
(* History is the set of changes it contains; a push is a fast-forward of  *)
(* the remote.                                                             *)
(***************************************************************************)
EXTENDS Naturals, FiniteSets

CONSTANTS
  Changes,      \* what users, hams and other machines change in the store
  MaxTroubles   \* bound on failures, kills and changes by other machines

VARIABLES
  unstaged, staged,  \* changes in the work tree and in the index
  local, remote,     \* changes in the two histories
  sync,              \* where the running command is
  before,            \* history: the changes there were when it started
  made,              \* history: it has committed
  pushed,            \* history: how the last push ended
  troubles

git == <<unstaged, staged, local, remote>>
syncVars == <<git, sync, before, made, pushed, troubles>>

Seen == unstaged \cup staged \cup local \cup remote

SyncInit ==
  /\ unstaged = {} /\ staged = {} /\ local = {} /\ remote = {}
  /\ sync = "idle" /\ before = {} /\ made = FALSE
  /\ pushed = [ok |-> FALSE, made |-> FALSE, owed |-> {}]
  /\ troubles = 0

Trouble == troubles < MaxTroubles /\ troubles' = troubles + 1

SyncEnds == sync' = "idle" /\ before' = {} /\ made' = FALSE
PushEnds(ok) == SyncEnds /\ pushed' = [ok |-> ok, made |-> made, owed |-> before]

(* A hamsfile is written, by hams or by hand, at any time.                 *)
ChangeStore(c) ==
  /\ c \notin Seen
  /\ unstaged' = unstaged \cup {c}
  /\ UNCHANGED <<staged, local, remote, sync, before, made, pushed, troubles>>

OtherMachinePushes(c) ==
  /\ c \notin Seen /\ Trouble
  /\ remote' = remote \cup {c}
  /\ UNCHANGED <<unstaged, staged, local, sync, before, made, pushed>>

StartPush ==
  /\ sync = "idle"
  /\ sync' = "status" /\ made' = FALSE
  /\ before' = unstaged \cup staged \cup local
  /\ UNCHANGED <<git, pushed, troubles>>

(* A clean work tree is nothing to push.                                   *)
GitStatus ==
  /\ sync = "status"
  /\ IF unstaged \cup staged = {}
     THEN PushEnds(TRUE)
     ELSE sync' = "add" /\ UNCHANGED <<before, made, pushed>>
  /\ UNCHANGED <<git, troubles>>

GitAdd ==
  /\ sync = "add"
  /\ staged' = staged \cup unstaged /\ unstaged' = {}
  /\ sync' = "commit"
  /\ UNCHANGED <<local, remote, before, made, pushed, troubles>>

GitCommit ==
  /\ sync = "commit"
  /\ local' = local \cup staged /\ staged' = {}
  /\ sync' = "push" /\ made' = TRUE
  /\ UNCHANGED <<unstaged, remote, before, pushed, troubles>>

(* A wrong push: its failure is not an error.                              *)
PushUnchecked ==
  /\ sync = "push"
  /\ remote' = IF remote \subseteq local THEN local ELSE remote
  /\ PushEnds(TRUE)
  /\ UNCHANGED <<unstaged, staged, local, troubles>>

(* The remote refuses what is not a fast-forward.                          *)
GitPush ==
  /\ sync = "push"
  /\ IF remote \subseteq local
     THEN remote' = local /\ PushEnds(TRUE)
     ELSE PushEnds(FALSE) /\ UNCHANGED remote
  /\ UNCHANGED <<unstaged, staged, local, troubles>>

(* Any git command fails: a hook, no identity, no network.                 *)
GitFails ==
  /\ sync \in {"status", "add", "commit", "push"} /\ Trouble
  /\ PushEnds(FALSE)
  /\ UNCHANGED git

(* `git pull --rebase` refuses a work tree with changes; a conflict stops  *)
(* it and is the user's to resolve.                                        *)
Pull ==
  /\ sync = "idle"
  /\ local' = IF unstaged \cup staged = {} THEN local \cup remote ELSE local
  /\ UNCHANGED <<unstaged, staged, remote, sync, before, made, pushed, troubles>>

KillSync ==
  /\ sync # "idle" /\ Trouble
  /\ SyncEnds
  /\ UNCHANGED <<git, pushed>>

SyncNext ==
  \/ \E c \in Changes : ChangeStore(c) \/ OtherMachinePushes(c)
  \/ StartPush \/ GitStatus \/ GitAdd \/ GitCommit \/ GitPush \/ GitFails
  \/ Pull \/ KillSync

SyncSpec == SyncInit /\ [][SyncNext]_syncVars

-----------------------------------------------------------------------------
SyncTypeOK ==
  /\ unstaged \subseteq Changes /\ staged \subseteq Changes
  /\ local \subseteq Changes /\ remote \subseteq Changes
  /\ sync \in {"idle", "status", "add", "commit", "push"}
  /\ before \subseteq Changes /\ made \in BOOLEAN
  /\ pushed \in [ok : BOOLEAN, made : BOOLEAN, owed : SUBSET Changes]

(* A push that committed something and ended well has delivered all there  *)
(* was when it started, whatever failed before it.                         *)
CommitIsDelivered == pushed.ok /\ pushed.made => pushed.owed \subseteq remote

=============================================================================

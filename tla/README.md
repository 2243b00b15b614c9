# Verification of hams

hams keeps the packages and settings of a machine in line with declarative
files ("hamsfiles") in a git store. This directory holds TLA+ models of the
parts of hams that decide *what is done when, and what is remembered of it*,
the TLC runs that check them on small instances, and TLAPS proofs of the
properties that matter most for instances of every size.

Paths below are relative to the repository. Every definition that models code
is listed in `PROJECT.json` under `map` with the lines it translates.

## 1. The system

| part | source | state | operations |
|---|---|---|---|
| state lock | `internal/state/lock.go`, `provider/cli_lock.go` | `.lock` file: PID of the owner | acquire (with reclaim), release |
| state files | `internal/state/state.go` | per provider: status of each resource, hash of the last applied hamsfile | load, set, save (atomic rename) |
| hamsfiles | `internal/hamsfile` | YAML document per provider, optional local file merged in | edit, merge, atomic write |
| apply / refresh | `internal/cli/apply.go`, `commands.go` | one run: plan, results, failures | select, order, bootstrap, probe, plan, execute, stamp, save |
| executor | `internal/provider/executor.go`, `hooks.go` | actions of one provider | pre-hooks, tool, post-hooks, status |
| auto-record | `internal/provider/package_dispatcher.go` | – | `hams <provider> install/remove`: tool, hamsfile, state |
| provider order | `internal/provider/dag.go`, `registry.go` | in-degrees and a queue | Kahn's sort over depend-on declarations |
| bootstrap | `internal/cli/bootstrap_consent.go`, `provider/bootstrap.go` | consent | ask, run the script, retry, deny, skip |
| sudo | `internal/sudo/sudo.go` | credentials, heartbeat goroutine | acquire, keep alive, stop |
| watch tool | `internal/devtools/watch` | debounce timer, pending flag, build | notify, coalesce, build, stop |
| providers | `internal/provider/builtin` | what each tool manages | probe, plan, apply, remove, commands that record |
| config | `internal/config` | four YAML files in layers | load, set, unset |
| store | `internal/cli/commands.go`, `autoinit.go`, `bootstrap.go`, `internal/storeinit` | git work tree, profile directories | scaffold, init, clone, push, pull |
| self-update | `internal/selfupdate` | the binary | check, download, verify, replace |

The parts meet in the files. Every mutating command takes the state lock of
its machine first. `hams apply` reads hamsfiles and state files, asks each
provider's tool what is installed, plans, and runs the tools; the state file is
saved after the probe and once after each provider. `hams <provider> install`
runs the tool, then writes the hamsfile, then the state file. Users and git
change hamsfiles at any time, without the lock; users install and uninstall by
hand. A run can be interrupted (the context is cancelled), can panic, or can be
killed between any two steps.

What is hard here: the lock against crashes; what the state file says after
any sequence of partial failures, and what the next run concludes from it; the
hash that decides whether an edit is applied; providers whose IDs carry a pin or
a value, so that two IDs name one thing on the host; two hamsfiles with tags, of
which commands edit one and applies read both; configuration that every command
reads and some write without a lock; the order of providers and what a skipped
or failed one takes with it; goroutines that must end with the run.
`PROJECT.json` lists each hazard at its line with the properties that guard it.

## 2. Modules

| module | models | refines / uses |
|---|---|---|
| `SingleWriter` | the promise: at most one writer at a time | – |
| `StateLock` | the lock file, one action per system call of `Acquire` | implements `SingleWriter` |
| `ProviderState` | documents, state files, `Probe`, `ComputePlan`, promotion | – |
| `ApplySession` | apply and refresh sessions of one provider, and the world around them | extends `ProviderState` |
| `AutoRecord` | install and remove commands between those sessions | extends `ApplySession` |
| `Hamsfile` | the tags and entries of a hamsfile, its edits and the two merges | – |
| `Providers` | the fifteen built-in providers, their sessions and commands | extends `Hamsfile` |
| `StoreSetup` | configuration files, the scaffold, `config set`, `store init`, clone, first run | – |
| `StoreSync` | `store push` and `store pull` over git | – |
| `SelfUpdate` | `self-upgrade` of a downloaded binary | – |
| `MCCommands` | these three in one run: in a behaviour one of them moves | extends the three |
| `ProviderDag` | `ResolveDAG` | – |
| `ApplyPipeline` | one apply over several providers | extends `ProviderDag` |
| `WatchEngine` | the rebuild watcher of the development sandbox | – |
| `MC*` | values of the constants for TLC | |
| `*_proof` | theorems | |

**State lock.** A process is one invocation. The lock path names an inode, and
an inode holds a PID or nothing, because `Acquire` opens, then writes: other
processes can read the empty file in between. Actions are the exclusive open
(`Create`), the read, the liveness check, the truncating open of a reclaim, the
write, and the failures of each. `Overlap` says whether two invocations may be
inside `Acquire` at the same time.

**Apply session.** A document gives each resource a content or "absent"; its
hash is the document itself (SHA-256 is taken to be injective). A session is
the code of `runApply` for one provider between its two saves: probe and save,
load and plan, each action with its hooks, the stamp of the hash, the save.
`runRefresh` is the probe alone. Everything the session keeps in memory is lost
when it ends. Outside events come in named kinds (`Faults`), and each run allows
some of them, at most `MaxEvents` in all: edits, hamsfiles that vanish or break
(between sessions or during one), packages uninstalled by hand, unreadable state
files, failing tools, hooks and saves, Ctrl+C, panics, kills. Locking is assumed:
sessions do not overlap, which `StateLock` is about.

**Auto-record.** The same files and the same world; between sessions, a command
runs the tool for one or two packages, then adds or removes the entry, then
saves the state, and can stop after any of these. The document is a mapping with
a list under the provider's tag, or something else: then `AddApp` enters nothing and
says nothing, and the command saves the state as ok all the same. A user may turn
the section into the one or the other (`EditSection`).

**Hamsfiles.** A document has a section per tag; a section is a sequence of entries
or no list at all (`cli:` with nothing under it, in which a command cannot
record). `MergeAppend` and `MergeOverride` combine a main and a local document
section by section.

**Providers.** A resource ID is a thing (package, key, path) with a pin: the version
or value it names, or `Bare`. The host gives each thing what it has. A record per
provider says what distinguishes it: how IDs look, what a probe asks, what an
install leaves alone, what a removal takes with it, which merge it uses, what its
commands record. Providers whose records are equal are explored once. Applies
and commands alternate (the lock); the user edits either hamsfile, other programs
change the host, tools fail, processes die. Tools are external: what they do to
the host is modelled from how the provider calls them and reads their result.
`ApplySession` follows the common path of one provider in more detail (hooks, probe
flags, cancellation, panics) with plain IDs; `Providers` has what IDs, two files and
commands add.

**Store and configuration.** `StoreSetup` has one place for each configuration file and
a directory per store, whose pieces are missing, partly made or done, since `git
init`, a clone and a file written in place exist before they are complete. A
command resolves its store, creates what is missing, writes keys by reading,
changing and replacing a whole file, then does its work; none of it is locked, so
two processes interleave at each step. `StoreSync` has the changes of the work tree,
the index, the local and the remote branch. `SelfUpdate` has the temporary file, the
checksum and the rename of each upgrade.

**Provider order.** The algorithm as the code has it: in-degrees, a FIFO queue
seeded in alphabetical order, dependents freed in input order. A provider is
its alphabetical rank.

**Pipeline.** All phases of `runApply` over several providers: the store found or
cloned (`Locate`), the profile tag and machine ID of a first run (`Identify`), lock,
selection, order, state-only filter, bootstrap with its consent and scripts, the cascade of
skips, the bootstrap failure exit, probe, sudo and its heartbeat goroutine,
reconciliation one provider at a time, exit code, deferred calls. The
reconciliation of one provider is one step with an outcome: its detail is
`ApplySession`. What a flag or a user decides is chosen when it is needed. `touched`
is the last thing the run changed: the store, the identity, a tool, the state.

**Watcher.** The notifier goroutine, the bounded channel of ticks with its
dropping send, the select loop of the engine, the build goroutine, and
cancellation. Versions of the sources stand for their contents.

## 3. Runs

| run | expects | what it asks |
|---|---|---|
| `lock_serial` | pass | three invocations, crashes and failed writes, acquisitions that do not overlap |
| `lock_overlap` | violation | the same with overlapping acquisitions: two owners |
| `apply_all` | pass | two resources, two contents, four outside events of any kind |
| `apply_cancelled` | violation | Ctrl+C before the first action stamps the hash |
| `apply_hook_probed` | violation | a probe forgets a failed post-hook |
| `cli_heals` | pass | commands and sessions, one event of any kind, then a user who re-runs apply |
| `providers` | pass | every provider, two edits or commands, one trouble, applies as often as wanted |
| `kv_edit` | violation | a setting whose value is edited ends up unset |
| `script_failed` | violation | a script that failed once is never run again |
| `commands` | pass | configuration, store and upgrade commands of two processes |
| `pipeline` | pass | three providers, all 64 dependency graphs, every outcome of every phase |
| `watch` | pass | four saves, a channel of two ticks, a new directory, an interruption |

Bounds. Two resources are enough for one to succeed and the other to fail in the
same session, and two contents for an edit and its revert; four events reach
every combination of an edit, a failure, a revert and a crash. `cli_heals` allows
one event, because liveness is checked without symmetry: any one command or
session can still be cut short at any step and healed afterwards. The lock needs
three processes for a crash, a reclaim and a bystander. Three providers are enough
for a chain of skips, a node with two dependencies and a cycle behind an acyclic
node; a channel of two is filled by three saves. One declaration of another
platform (`Elsewhere`) exercises the cascade, which ignores platforms.

`providers` has one thing with two versions or values besides `Bare`, so three IDs that
name the same thing, which is where these providers can go wrong; things do not
influence one another. Two tags and two files let an entry be recorded in one
and hidden, doubled or replaced by the other: commands record under the second
tag of either file, the user writes that section of the main file and the first
of the local one. Two changes (`MaxChanges`) make an edit and its successor, or a
command and its opposite, and one trouble (`MaxTroubles`) hits any step of either;
applies are not bounded.

`commands` has three stores (the default, one the user names, a clone), four machines to
start from (empty, a configured repository, a store that is there already, a
configured one), sixteen command lines and five hand edits, two commands and one
edit, failure or kill; three changes of a store and two troubles of git; three
releases, of which the last publishes a checksum, none, or one that lacks the asset,
and any number of failures of two upgrades.

What the properties say, beyond one type invariant per module:

- *lock*: mutual exclusion; the file names the owner; a refusal is never due to
  a crash; `SingleWriter` is implemented.
- *apply*: exit 0 means installed (`SuccessMeansPresent`) and pruned
  (`SuccessMeansPruned`); only tracked, undeclared resources are uninstalled, and
  only over a baseline and for a provider selected with a hamsfile, unless
  `--prune-orphans` is given (`RemovalIsWarranted`; a hamsfile that vanishes after the
  selection is its named exception, see section 4); what was installed stays recorded
  through failures, panics and Ctrl+C (`InstalledIsRecorded`); an unreadable state
  file is never overwritten; the hash is stamped only for a document that was
  applied (`UncancelledStampIsHonest`); edits reach the host unless a run failed.
- *auto-record*: nothing is tracked that was never declared, so that a later
  apply cannot uninstall what a half-finished command left (`TrackedWasDeclared`;
  what a command had no list to enter in is its named exception, section 4);
  sessions and commands end (`TurnEnds`); re-running heals what either left half
  done (`RerunsHealCommands`).
- *providers*: what a command reported as added is declared to the next apply,
  whatever the two files and their tags say, unless a tag has no list to record in
  (`AskedIsDeclared`); an apply never
  uninstalls what its document declares under another pin
  (`DeclaredIsNotUninstalled`, of the providers that spare it); two undisturbed
  applies settle host and state file (`SecondApplySettles`; one does not, which is
  `kv_edit`); re-running brings every declared thing about that a probe can miss
  (`DeclaredReachHost`).
- *commands*: a store command that ends well leaves a whole store, except for what a
  kill left half made, which the code cannot tell (`StoreIsWhole`); every command
  finds the same store, profile and machine, so the same state files and lock
  (`CommandsAgree`); an undisturbed command settles the configuration for the next
  (`ScaffoldSettles`), both for stores named by absolute paths, or commands run in
  the same working directory; a push that commits delivers (`CommitIsDelivered`); the binary
  stays what its release published (`BinaryIsGenuine`).
- *pipeline*: dependencies first, once; cycles found exactly; no provider runs
  ahead of, or without, a dependency the run should have handled; a failed
  bootstrap stops everything; a dry run changes nothing but the identity of a
  machine that has none (`DryRunIsDry`, section 4); exit 0 means all
  finished; lock and heartbeat do not outlive the run; the run ends.
- *watch*: the three invariants in the comment of `engine.go`, and a clean return.

Fairness. `cli_heals` and `providers` assume weak fairness of the steps of a session and
of a command (Go runs the goroutine, tools and hooks return) and strong fairness
of starting apply (the user re-runs it, as its messages advise); nothing is
assumed of outside events. `pipeline` assumes that the run goes on (tools return, the user
answers) and that a goroutine whose context is done sees it. `watch` assumes
that goroutines run, that builds return and that `select` does not pass over a
ready case for ever, which Go's random choice gives with probability one.

Symmetry is used over resources and contents in `apply_all` and its violations, and over
processes and store changes in `commands`, none of which has liveness properties:
nothing in those modules orders them. Runs that switch deadlock checking off say why in the
cfg.

## 4. Findings

Each violation run is a disagreement between the code and a statement of the
repository, quoted in `PROJECT.json`: two owners of the lock when reclaims
overlap; a hash stamped by a cancelled apply; a failed post-hook forgotten by the
probe; an edited setting that the apply sets and then unsets; a script whose
failed run is reported ok.

Other disagreements met while modelling, not given a run. Three of them are named
exceptions of properties that hold otherwise:

- `RemovalIsWarranted`: without `--prune-orphans`, a provider that has no hamsfile is left
  out when providers are selected (`apply.go:349`). A hamsfile that vanishes after
  that, and before the provider's turn, is taken for an empty document, and all that
  is tracked is uninstalled without the flag. `apply.go:626` says of this place
  "Reachable here only when --prune-orphans is set", and `filter.go:79` the like.
- `DryRunIsDry`: `--dry-run` promises "Show what would be done without making changes"
  (`root.go:256`), but `ensureProfileConfigured` (`apply.go:260`, `autoinit.go:47`) writes
  profile tag and machine ID in a dry run as in any other.
- `TrackedWasDeclared`: `AddApp` (`hamsfile.go:330`) enters nothing when the document is no
  mapping or the tag has no list, and returns nothing; the dispatcher
  (`package_dispatcher.go:128`) sets the resource ok and saves both files. The package
  is tracked and was never declared, so a later apply may uninstall it.

Apply: an edit applied in a run where another resource failed, and then
reverted, stays on the host, because the document equals the last baseline
(`apply.go:714`); the priority list does not order providers without dependencies
(`config.go:31`, `dag.go:53`); the executor's comment that the state file is saved
after each action (it is saved once per provider); an interrupted resource
recorded as failed where the TUI spec says pending; auto-record replacing an
unreadable state file by an empty one while apply refuses to; a cascade of skips
that also follows declarations of other platforms.

Providers: uninstalling what is already gone fails for ever with git-config,
defaults and cargo; cargo never strips a pin, so a pinned crate is probed as
failed; `npm remove` of a bare name leaves its pinned entry, which the next apply
installs again; `--hams-local` add of what the main file has under another tag
makes a duplicate, and the provider is skipped from then on; a tag with nothing
under it records nothing and says nothing, and in the main file hides the local
section; git-clone reuses whatever repository is there, never removes one and
plans in random order; the `remove:` of a script is never run by an apply;
`brew list` reads `brew.state.yaml`, which nothing writes (`homebrew.go:422`); the
scripts' entries, which have a `urn`, are not found by `RemoveApp`.

Store: an interrupted `git init`, clone or `.gitignore` is later taken for complete;
the scaffold of a configuration that does not load overwrites the profile and
machine it has (`storeinit.go:301`); a relative `--store` is recorded as given
(`storeinit.go:198`), so a command in another directory finds another store; a commit whose push failed is not pushed by the next
`store push`, which finds the work tree clean (`commands.go:862`); `store init`
makes no `.git`, so a push fails; `--from-repo` is never recorded; `config edit`
opens the global file whatever the store; `refresh`, `list` and `config` do not use
`--tag` by itself; two `config set` at once lose a change; two upgrades at once may
leave the older release; a version's pre-release suffix is not compared.

Watcher: the engine's comment that a closed event channel ends `Run` (it stops
listening and waits for the context, which nothing else closes); a file saved in
a new directory before the watcher has added it is not heard of.

## 5. Proofs

`StateLock_proof`, for any set of processes:

- `Typing`, `NoWrongRefusal` hold whether or not acquisitions overlap.
- `Exclusion`, `Recorded`, `Implementation` assume `Overlap = FALSE`. The
  inductive invariant relates the path, the inode and the program counters: a
  process that is about to write is alone in `Acquire` and no live process holds
  the lock; a holder's inode is the one the path names and holds its PID. Without
  the second part a reclaim could not be shown harmless.

`ApplySession_proof`, for any resources, contents, allowed events and bounds. First
the lemmas about the operators (what `Probe` keeps, that a plan never removes a
declared resource, that a promoted plan leaves no skip over an edit), so that no
later proof expands a plan. Then `Typing`, and four inductive invariants:

- `SessionInv` – `SuccessInstalls`, `SuccessPrunes`, `RemovesOnlyWarranted`,
  `UnreadableIsKept`, `StampsHonestly`. It says what `todo`, `mem` and `host` have to
  do with each other at each phase: what has left `todo` without a failure is on the
  host and recorded, what is still there is planned from the memory the session
  loaded; and a session without the flag that got past the selection had a hamsfile
  there (`Selected`). Most steps fall into six kinds (`StepKinds`), so only the plan and the
  actions need their own proofs.
- `RecordInv` – `KeepsRecords`: what hams installed is tracked by the state file
  between sessions and by the session's copy while it reconciles, which needs that a
  resource is pending before its tool runs.
- `ContentInv` – `EditsArrive`: while no session has failed, what is on the host has
  the content of the stamped document, and during a session what it is done with,
  or has skipped, has the content of its own document. Its plan step is where
  `RecordInv` comes in: a resource that the plan leaves alone has no record, so it
  is not on the host.

`AutoRecord_proof`, for any resources, contents, outside events and number of
commands:

- `Declared`. A resource is accounted for when it was declared at some time, or when a
  command had no list to enter it in. The invariant says that every document, state
  file and planned action, on disk or in memory, is about such resources only, and
  that what a command is about to save is declared by what it writes first or is
  known to be missed by it.
- `SessionsKeepPromises` – `SessionInv` stays inductive when commands change host,
  hamsfile and state file in between, because the lock lets none run while a
  session relies on them; so four of the promises of a session hold next to
  commands. `InstalledIsRecorded` and `EditsReachHostUnlessFailed` do not carry
  over: a command that stops half way leaves a package unrecorded.
- `OnlyRecordsReplace` – `UnreadableStateIsKept` does not carry over either, and this
  says by which step alone it is broken.

`ApplyPipeline_proof`, for any number of providers, any graph of dependencies and
any priority lists:

- `OrderIsTopological`, `CyclesExactly` – the order of `ResolveDAG`. The inductive
  invariant `DagInv` says that an in-degree counts the dependencies not yet
  visited, that a node is queued or visited exactly when it has none left, and
  that no part of a cycle is ever either. So when the queue runs dry, the missed
  nodes are a cycle, and there are missed nodes only if there is one.
- `RunLeavesNothing`, `DryRunWritesOnlyIdentity`, `FailureEndsRun` – which phases hold
  the lock or have a heartbeat, which ones nothing has been written before, and
  which ones a failed bootstrap leaves reachable (`RunInv`).
- `DependenciesComeFirst`, `OkIsComplete` – `LineInv` says that what is selected and
  no longer in line was skipped or dropped, and that nothing stays in line without a
  dependency that was; `WorkInv` that whoever has left the last loop was executed or
  is counted as failed, and that the run has no exit code before.

`Providers_proof`, for any set of providers that `Kinds` describes, hence for the
fifteen built-in ones (TLC evaluates that they are of these kinds), any things,
pins, tags, documents and bounds:

- `Typing`. A document has only entries its provider takes. The loops over lists
  (finding an entry, removing some) are recursive functions; a lemma about one is
  proved by taking the least index at which it fails.
- `NeverUninstallsDeclared` (`PlanInv`, `BareInv`): what is still to be removed is
  tracked by the loaded state and not declared under an ID that the provider
  compares.
- `AskedStaysDeclared` (`AskInv`): where a command found or put the entry it recorded,
  the merge keeps it. The premise that every tag has a list to record in came from
  this proof: the property held without it only within the bounds of the run.
- `AppliesSettle` (`PresentInv`, `VersionInv`, `CalmInv`): from an undisturbed apply
  on, each declared thing is accounted for, by the host, the record or the rest of
  the plan; and from the second one on, so is its version.

`Store_proof`, for any stores, tags, machines, processes, command lines and edits:

- `SetupTyping`, with what may be read from each file.
- `CommandsFindTheSame` needs no history: `Loads` shows, file by file, that loading
  the configuration from the store it leads to finds that store, its profile and its
  machine again.
- `ScaffoldIsWhole` (`WholeInv`): a piece that exists stays (`NothingIsLost`), and one
  that is partly made was left by a kill or is being made (`PartInv`); a command has
  passed the pieces before its own (`PassedInv`), the last one to end well all of
  them. The directory a repository is cloned to is excepted, in the property as in
  the code: go-git empties it when a clone fails.
- `ScaffoldsSettle` (`SettlingInv`): after each write of an undisturbed scaffold, the
  keys written so far read back as they will at the end.
- `SyncTyping`, `Delivered`, for any set of changes: what a push found when it
  started is, from its commit on, in the local branch.

`Commands_proof`: `Genuine`, for any number of upgrades and any releases (an upgrade
past the check holds a body that its checksum, if it has one, fits, and one past the
change of mode can be started). Then the system that run `commands` checks:
`EachIsItself` shows that in it configuration, pushes and upgrades each behave as
their own specification says, so that `Typing` and `CommandsAreSafe` follow.

`WatchEngine_proof`, for a channel of any capacity and any number of saves: `Typing`,
`OneBuild`, `BuildsHaveReasons`, `NothingForgotten`. The invariant adds to the
engine's own that a timer that is armed and a pending flag that is set both come
from a tick taken after the last build started, and that only a build in flight is
waited for. `NothingForgotten` is what `EverySaveIsBuilt` needs at every moment: a
save that was heard of and not built is an event, a tick, an armed timer, a pending
build or part of the build that runs. That each of these moves on is fairness, and
stays with TLC.

Every safety invariant and every action property that a passing run checks is stated
by a theorem. Model-checked only: liveness (`TurnEnds` and `RerunsHealCommands` in
`cli_heals`, `DeclaredReachHost`, `RunEnds`, `EverySaveIsBuilt`, `InterruptReturns`),
since the provers know neither fairness nor ENABLED. The theorems rest on the named
assumptions on constants in the modules and on nothing else: that "absent" is no
content and `NoHash` no document; that `None`, `Missing` and `Broken` are no values; that
stores, tags and machines are given as sets of such values and command lines as
records over them; that a capacity is at least one. TLC evaluates each in the runs.

## 6. Not modelled, and the plan

Not modelled because it carries no protocol: logging, tracing, i18n, terminal UI,
URNs, the version command, printing and parsing of command lines, `diff` and `list`,
passthrough to a tool, enrichment by a language model, the rewriting of old
timestamps. What is left out of a modelled part is in the notes of
`PROJECT.json`.

Next, in this order: the pipeline as a composition of
sessions, with `Providers` as its detail, and the proof that it keeps what one
session promises; the casks and taps of brew.

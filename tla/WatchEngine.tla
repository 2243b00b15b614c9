----------------------------- MODULE WatchEngine -----------------------------
(***************************************************************************)
(* The rebuild watcher of the development sandbox                          *)
(* (internal/devtools/watch): the file notifier (fswatch.go), the channel  *)
(* of ticks, the debounce and coalescing engine (engine.go), the builds it *)
(* starts, and the interruption of all of them.                            *)
(*                                                                         *)
(* A save makes a new version of the sources.  A build compiles the        *)
(* version there is when it starts; whether it succeeds makes no           *)
(* difference to the engine.  The length of the debounce is abstracted: a  *)
(* timer that is armed may fire, and resetting it leaves it armed.         *)
(***************************************************************************)
EXTENDS Naturals, Sequences, SequencesExt

CONSTANTS
  Capacity,   \* of the channel of ticks; 8 in main.go
  MaxSaves    \* how often a developer saves

ASSUME CapacityAssumption == Capacity \in Nat \ {0}
ASSUME MaxSavesAssumption == MaxSaves \in Nat

VARIABLES
  saves,      \* the version of the sources
  newDir,     \* a directory made under a root: "none", "made" or "watched"
  raw,        \* fsnotify's events: of a file or of the new directory
  ticks,      \* how many ticks the channel holds
  kick,       \* the goroutine of the first tick: "waits" or "gone"
  timer,      \* the debounce timer: "off" or "armed"
  active,     \* Engine.active
  pending,    \* Engine.pending
  building,   \* the versions under build, one for each goroutine
  results,    \* how many results buildDone holds
  cancelled,  \* ctx.Done()
  engine,     \* Run: "selects", "drains" or "returned"
  built,      \* history: the newest version that was built
  heard,      \* history: the newest version fsnotify told of
  news        \* history: a tick was taken after the last build started

source   == <<saves, newDir, heard>>
channel  == <<ticks, kick>>
flags    == <<timer, active, pending>>
builds   == <<building, results, built>>
vars     == <<source, raw, channel, flags, builds, cancelled, engine, news>>

Init ==
  /\ saves = 0 /\ newDir = "none" /\ raw = <<>> /\ heard = 0
  /\ ticks = 0 /\ kick = "waits"
  /\ timer = "off" /\ active = FALSE /\ pending = FALSE
  /\ building = <<>> /\ results = 0 /\ built = 0
  /\ cancelled = FALSE /\ engine = "selects" /\ news = FALSE

-----------------------------------------------------------------------------
(* The developer.  A save is one event or two (a write, a rename).         *)
Save ==
  /\ saves < MaxSaves
  /\ saves' = saves + 1
  /\ heard' = saves'
  /\ raw' \in {raw \o <<"file">>, raw \o <<"file", "file">>}
  /\ UNCHANGED <<newDir, channel, flags, builds, cancelled, engine, news>>

(* A save in the new directory is heard of once it is watched.             *)
SaveInNewDir ==
  /\ saves < MaxSaves
  /\ newDir # "none"
  /\ saves' = saves + 1
  /\ IF newDir = "watched"
     THEN raw' = raw \o <<"file">> /\ heard' = saves'
     ELSE UNCHANGED <<raw, heard>>
  /\ UNCHANGED <<newDir, channel, flags, builds, cancelled, engine, news>>

MakeDir ==
  /\ newDir = "none"
  /\ newDir' = "made"
  /\ raw' = raw \o <<"dir">>
  /\ UNCHANGED <<saves, heard, channel, flags, builds, cancelled, engine, news>>

Interrupt ==
  /\ ~cancelled
  /\ cancelled' = TRUE
  /\ UNCHANGED <<source, raw, channel, flags, builds, engine, news>>

-----------------------------------------------------------------------------
(* The notifier: a directory is added to the watch; a file is a tick,      *)
(* unless the channel is full.                                             *)
HandleEvent ==
  /\ raw # <<>>
  /\ raw' = Tail(raw)
  /\ newDir' = IF Head(raw) = "dir" THEN "watched" ELSE newDir
  /\ ticks' = IF Head(raw) = "file" /\ ticks < Capacity THEN ticks + 1 ELSE ticks
  /\ UNCHANGED <<saves, heard, kick, flags, builds, cancelled, engine, news>>

(* A wrong first tick, that does not wait for room.                        *)
KickFull ==
  /\ kick = "waits"
  /\ kick' = "gone" /\ ticks' = ticks + 1
  /\ UNCHANGED <<source, raw, flags, builds, cancelled, engine, news>>

(* The tick that starts the first build waits for room in the channel.     *)
Kick ==
  /\ kick = "waits"
  /\ ticks < Capacity
  /\ kick' = "gone" /\ ticks' = ticks + 1
  /\ UNCHANGED <<source, raw, flags, builds, cancelled, engine, news>>

KickEnds ==
  /\ kick = "waits" /\ cancelled
  /\ kick' = "gone"
  /\ UNCHANGED <<source, raw, ticks, flags, builds, cancelled, engine, news>>

-----------------------------------------------------------------------------
(* The engine's select takes any case that is ready.                       *)
Selects == engine = "selects"

(* A wrong start, that keeps the pending flag.                             *)
StartBuildPending ==
  /\ active' = TRUE /\ UNCHANGED pending
  /\ building' = Append(building, saves)
  /\ news' = FALSE

StartBuild ==
  /\ active' = TRUE /\ pending' = FALSE
  /\ building' = Append(building, saves)
  /\ news' = FALSE

(* Two wrong ticks: one that arms the timer while a build runs, and one    *)
(* that is dropped then.                                                   *)
TakeTickArming ==
  /\ Selects /\ ticks > 0
  /\ ticks' = ticks - 1
  /\ timer' = "armed"
  /\ news' = TRUE
  /\ UNCHANGED <<source, raw, kick, active, pending, builds, cancelled, engine>>

TakeTickDropping ==
  /\ Selects /\ ticks > 0
  /\ ticks' = ticks - 1
  /\ timer' = IF active THEN timer ELSE "armed"
  /\ news' = TRUE
  /\ UNCHANGED <<source, raw, kick, active, pending, builds, cancelled, engine>>

(* A tick arms the timer, or sets the one pending flag during a build.     *)
TakeTick ==
  /\ Selects /\ ticks > 0
  /\ ticks' = ticks - 1
  /\ IF active
     THEN pending' = TRUE /\ UNCHANGED timer
     ELSE timer' = "armed" /\ UNCHANGED pending
  /\ news' = TRUE
  /\ UNCHANGED <<source, raw, kick, active, builds, cancelled, engine>>

TimerFires ==
  /\ Selects /\ timer = "armed"
  /\ timer' = "off"
  /\ StartBuild
  /\ UNCHANGED <<source, raw, channel, results, built, cancelled, engine>>

TakeResult ==
  /\ Selects /\ results > 0
  /\ results' = results - 1
  /\ IF pending
     THEN StartBuild
     ELSE active' = FALSE /\ UNCHANGED <<pending, building, news>>
  /\ UNCHANGED <<source, raw, channel, timer, built, cancelled, engine>>

(* A wrong end, that waits for a build there may not be.                   *)
StopAlwaysDrains ==
  /\ Selects /\ cancelled
  /\ timer' = "off"
  /\ engine' = "drains"
  /\ UNCHANGED <<source, raw, channel, active, pending, builds, cancelled, news>>

(* Cancellation: a build in flight is waited for.                          *)
Stop ==
  /\ Selects /\ cancelled
  /\ timer' = "off"
  /\ engine' = IF active THEN "drains" ELSE "returned"
  /\ UNCHANGED <<source, raw, channel, active, pending, builds, cancelled, news>>

Drained ==
  /\ engine = "drains" /\ results > 0
  /\ results' = results - 1
  /\ engine' = "returned"
  /\ UNCHANGED <<source, raw, channel, flags, building, built, cancelled, news>>

(* A build ends, well or not, and sends its result when there is room.     *)
BuildEnds(i) ==
  /\ results = 0
  /\ built' = IF building[i] > built THEN building[i] ELSE built
  /\ building' = RemoveAt(building, i)
  /\ results' = 1
  /\ UNCHANGED <<source, raw, channel, flags, cancelled, engine, news>>

SomeBuildEnds == \E i \in DOMAIN building : BuildEnds(i)

Next ==
  \/ Save \/ SaveInNewDir \/ MakeDir \/ Interrupt
  \/ HandleEvent \/ Kick \/ KickEnds
  \/ TakeTick \/ TimerFires \/ TakeResult \/ Stop \/ Drained \/ SomeBuildEnds

(* Every goroutine runs on, the compiler returns, an armed timer fires,    *)
(* and select passes over no case that stays ready.  The notifier may end  *)
(* when the context does.                                                  *)
Spec ==
  /\ Init /\ [][Next]_vars
  /\ WF_vars(~cancelled /\ HandleEvent) /\ WF_vars(Kick) /\ WF_vars(SomeBuildEnds)
  /\ WF_vars(TakeTick) /\ WF_vars(TimerFires) /\ WF_vars(TakeResult)
  /\ WF_vars(Stop) /\ WF_vars(Drained)

-----------------------------------------------------------------------------
TypeOK ==
  /\ saves \in 0..MaxSaves /\ built \in 0..MaxSaves /\ heard \in 0..MaxSaves
  /\ newDir \in {"none", "made", "watched"} /\ raw \in Seq({"file", "dir"})
  /\ ticks \in 0..Capacity /\ kick \in {"waits", "gone"}
  /\ timer \in {"off", "armed"} /\ active \in BOOLEAN /\ pending \in BOOLEAN
  /\ building \in Seq(0..MaxSaves) /\ results \in 0..1
  /\ cancelled \in BOOLEAN /\ news \in BOOLEAN
  /\ engine \in {"selects", "drains", "returned"}

(* engine.go's invariants 1 and 2: there is one build, running or with its *)
(* result not yet taken, exactly while the engine is active, and then no   *)
(* timer that could start another; what is pending waits for that build.   *)
(* A watcher that returned has left no build behind.                       *)
OneBuildInFlight ==
  IF engine = "returned" THEN building = <<>> /\ results = 0
  ELSE /\ Len(building) + results = IF active THEN 1 ELSE 0
       /\ active => timer = "off"
       /\ pending => active

(* A build starts only when a tick was taken after the last one started.   *)
NoBuildWithoutNews == [][Len(building') > Len(building) => news]_vars

(* engine.go's invariant 3: every save fsnotify tells of is built, however *)
(* saves, full channels and builds fall together, unless the watcher stops.*)
EverySaveIsBuilt ==
  \A n \in 1..MaxSaves : heard >= n ~> built >= n \/ cancelled

(* An interrupted watcher returns.                                         *)
InterruptReturns == cancelled ~> engine = "returned"
=============================================================================

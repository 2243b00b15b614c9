-------------------------- MODULE WatchEngine_proof --------------------------
(***************************************************************************)
(* The debounce and coalescing engine of the watcher, for a channel of any *)
(* capacity and any number of saves: one build at a time, none without a   *)
(* reason, none left behind, and no save forgotten.                        *)
(***************************************************************************)
EXTENDS WatchEngine, TLAPS

(* What may start a build, the timer or the pending flag, was set by a     *)
(* tick that no build has started since; only a build is waited for.       *)
EngineInv ==
  /\ timer = "armed" => news
  /\ pending => news
  /\ engine = "drains" => active

IInv == TypeOK /\ OneBuildInFlight /\ EngineInv

LEMMA SavesNat == MaxSaves \in Nat /\ Capacity \in Nat \ {0}
BY MaxSavesAssumption, CapacityAssumption

(* The parts of the type invariant.                                        *)
Numbers ==
  /\ saves \in 0..MaxSaves /\ built \in 0..MaxSaves /\ heard \in 0..MaxSaves
  /\ ticks \in 0..Capacity /\ results \in 0..1

Queues == raw \in Seq({"file", "dir"}) /\ building \in Seq(0..MaxSaves)

Stages ==
  /\ newDir \in {"none", "made", "watched"} /\ kick \in {"waits", "gone"}
  /\ timer \in {"off", "armed"} /\ engine \in {"selects", "drains", "returned"}

Switches ==
  active \in BOOLEAN /\ pending \in BOOLEAN /\ cancelled \in BOOLEAN /\ news \in BOOLEAN

LEMMA Parts == TypeOK <=> Numbers /\ Queues /\ Stages /\ Switches
BY DEF TypeOK, Numbers, Queues, Stages, Switches

LEMMA PartsNext == TypeOK' <=> Numbers' /\ Queues' /\ Stages' /\ Switches'
BY DEF TypeOK, Numbers, Queues, Stages, Switches

(* An only element removed leaves nothing.                                 *)
LEMMA RemoveOnly ==
  ASSUME NEW S, NEW s \in Seq(S), Len(s) = 1, NEW i \in DOMAIN s
  PROVE  RemoveAt(s, i) = <<>>
<1>1. i = 1
  OBVIOUS
<1>2. SubSeq(s, 1, 0) = <<>> /\ SubSeq(s, 2, 1) = <<>>
  OBVIOUS
<1> QED
  BY <1>1, <1>2 DEF RemoveAt

LEMMA OfSeq ==
  ASSUME NEW S, NEW s \in Seq(S), NEW i \in DOMAIN s
  PROVE  s[i] \in S
OBVIOUS

LEMMA Starts ==
  ASSUME TypeOK, StartBuild
  PROVE  /\ building' \in Seq(0..MaxSaves) /\ Len(building') = Len(building) + 1
         /\ active' = TRUE /\ pending' = FALSE /\ news' = FALSE
BY DEF TypeOK, StartBuild

LEMMA InitEstablishes == Init => IInv
<1> SUFFICES ASSUME Init PROVE IInv
  OBVIOUS
<1>1. <<>> \in Seq({"file", "dir"}) /\ <<>> \in Seq(0..MaxSaves) /\ Len(<<>>) = 0
  OBVIOUS
<1>2. Numbers /\ Queues /\ Stages /\ Switches
  <2>1. Numbers
    BY SavesNat DEF Init, Numbers
  <2>2. Queues
    BY <1>1 DEF Init, Queues
  <2>3. Stages /\ Switches
    BY DEF Init, Stages, Switches
  <2> QED
    BY <2>1, <2>2, <2>3
<1>3. OneBuildInFlight /\ EngineInv
  BY <1>1 DEF Init, OneBuildInFlight, EngineInv
<1> QED
  BY <1>2, <1>3, Parts DEF IInv

LEMMA StepKeeps ==
  ASSUME IInv, [Next]_vars
  PROVE  IInv' /\ (Len(building') > Len(building) => news)
<1> USE DEF IInv
<1>0. /\ Len(building) \in Nat /\ Len(building) + results = 0 => building = <<>>
      /\ Len(<<>>) = 0
  BY DEF TypeOK
<1>1. ASSUME Save \/ SaveInNewDir \/ MakeDir \/ Interrupt
      PROVE  IInv' /\ (Len(building') > Len(building) => news)
  <2>1. TypeOK'
    <3>1. Numbers'
      BY <1>1, SavesNat, Parts
      DEF Numbers, Save, SaveInNewDir, MakeDir, Interrupt, source, channel, builds
    <3>2. Queues'
      <4>1. \A q \in Seq({"file", "dir"}) :
              /\ q \o <<"file">> \in Seq({"file", "dir"})
              /\ q \o <<"file", "file">> \in Seq({"file", "dir"})
              /\ q \o <<"dir">> \in Seq({"file", "dir"})
        OBVIOUS
      <4>2. raw \in Seq({"file", "dir"}) /\ building \in Seq(0..MaxSaves)
        BY Parts DEF Queues
      <4>3. UNCHANGED building
        BY <1>1 DEF Save, SaveInNewDir, MakeDir, Interrupt, builds
      <4>4. raw' \in {raw, raw \o <<"file">>, raw \o <<"file", "file">>, raw \o <<"dir">>}
        BY <1>1 DEF Save, SaveInNewDir, MakeDir, Interrupt
      <4> QED
        BY <4>1, <4>2, <4>3, <4>4 DEF Queues
    <3>3. Stages'
      BY <1>1, Parts
      DEF Stages, Save, SaveInNewDir, MakeDir, Interrupt, source, channel, flags
    <3>4. Switches'
      BY <1>1, Parts DEF Switches, Save, SaveInNewDir, MakeDir, Interrupt, flags
    <3> QED
      BY <3>1, <3>2, <3>3, <3>4, PartsNext
  <2>2. UNCHANGED <<flags, builds, engine, news>>
    BY <1>1 DEF Save, SaveInNewDir, MakeDir, Interrupt
  <2> QED
    BY <2>1, <2>2, <1>0 DEF OneBuildInFlight, EngineInv, flags, builds
<1>2. ASSUME HandleEvent \/ Kick \/ KickEnds
      PROVE  IInv' /\ (Len(building') > Len(building) => news)
  <2>1. TypeOK'
    <3>1. Numbers'
      BY <1>2, SavesNat, Parts
      DEF Numbers, HandleEvent, Kick, KickEnds, source, channel, builds
    <3>2. Queues'
      BY <1>2, Parts DEF Queues, HandleEvent, Kick, KickEnds, builds
    <3>3. Stages'
      BY <1>2, Parts DEF Stages, HandleEvent, Kick, KickEnds, source, channel, flags
    <3>4. Switches'
      BY <1>2, Parts DEF Switches, HandleEvent, Kick, KickEnds, flags
    <3> QED
      BY <3>1, <3>2, <3>3, <3>4, PartsNext
  <2>2. UNCHANGED <<flags, builds, engine, news>>
    BY <1>2 DEF HandleEvent, Kick, KickEnds
  <2> QED
    BY <2>1, <2>2, <1>0 DEF OneBuildInFlight, EngineInv, flags, builds
<1>3. ASSUME TakeTick
      PROVE  IInv' /\ (Len(building') > Len(building) => news)
  <2>1. TypeOK'
    <3>1. Numbers'
      BY <1>3, SavesNat, Parts DEF Numbers, TakeTick, Selects, source, builds
    <3>2. Queues'
      BY <1>3, Parts DEF Queues, TakeTick, Selects, builds
    <3>3. Stages'
      BY <1>3, Parts DEF Stages, TakeTick, Selects, source
    <3>4. Switches'
      BY <1>3, Parts DEF Switches, TakeTick, Selects
    <3> QED
      BY <3>1, <3>2, <3>3, <3>4, PartsNext
  <2> QED
    BY <2>1, <1>0, <1>3 DEF TakeTick, Selects, OneBuildInFlight, EngineInv, builds, TypeOK
<1>4. ASSUME TimerFires
      PROVE  IInv' /\ (Len(building') > Len(building) => news)
  <2>1. TypeOK'
    <3>1. Numbers'
      BY <1>4, Starts, SavesNat, Parts DEF Numbers, TimerFires, source, channel
    <3>2. Queues'
      BY <1>4, Starts, Parts DEF Queues, TimerFires
    <3>3. Stages'
      BY <1>4, Starts, Parts DEF Stages, TimerFires, source, channel
    <3>4. Switches'
      BY <1>4, Starts, Parts DEF Switches, TimerFires
    <3> QED
      BY <3>1, <3>2, <3>3, <3>4, PartsNext
  <2>2. ~active /\ news /\ Len(building) + results = 0
    BY <1>4 DEF TimerFires, Selects, OneBuildInFlight, EngineInv
  <2>3. Len(building) = 0 /\ results = 0
    BY <2>2, <1>0, Parts DEF Numbers
  <2>4. Len(building') = 1 /\ results' = 0 /\ active' = TRUE /\ pending' = FALSE
    BY <2>3, <1>4, Starts DEF TimerFires
  <2> QED
    BY <2>1, <2>2, <2>4, <1>4
    DEF TimerFires, Selects, OneBuildInFlight, EngineInv
<1>5. ASSUME TakeResult
      PROVE  IInv' /\ (Len(building') > Len(building) => news)
  <2>1. active /\ results = 1 /\ Len(building) = 0
    BY <1>0, <1>5 DEF TakeResult, Selects, OneBuildInFlight, TypeOK
  <2>0. TypeOK'
    <3>1. Numbers'
      BY <1>5, SavesNat, Parts DEF Numbers, TakeResult, source, channel
    <3>2. Queues'
      BY <1>5, Starts, Parts DEF Queues, TakeResult
    <3>3. Stages'
      BY <1>5, Parts DEF Stages, TakeResult, source, channel
    <3>4. Switches'
      BY <1>5, Starts, Parts DEF Switches, TakeResult
    <3> QED
      BY <3>1, <3>2, <3>3, <3>4, PartsNext
  <2>2. CASE pending
    BY <2>0, <2>1, <2>2, <1>0, <1>5, Starts
    DEF TakeResult, Selects, OneBuildInFlight, EngineInv
  <2>3. CASE ~pending
    BY <2>0, <2>1, <2>3, <1>0, <1>5
    DEF TakeResult, Selects, OneBuildInFlight, EngineInv
  <2> QED
    BY <2>2, <2>3
<1>6. ASSUME Stop \/ Drained
      PROVE  IInv' /\ (Len(building') > Len(building) => news)
  <2>1. TypeOK'
    <3>1. Numbers'
      BY <1>6, SavesNat, Parts
      DEF Numbers, Stop, Drained, Selects, source, channel, builds
    <3>2. Queues'
      BY <1>6, Parts DEF Queues, Stop, Drained, Selects, builds
    <3>3. Stages'
      BY <1>6, Parts DEF Stages, Stop, Drained, Selects, source, channel, flags
    <3>4. Switches'
      BY <1>6, Parts DEF Switches, Stop, Drained, Selects, flags
    <3> QED
      BY <3>1, <3>2, <3>3, <3>4, PartsNext
  <2>2. UNCHANGED building
    BY <1>6 DEF Stop, Drained, builds
  <2>3. OneBuildInFlight' /\ EngineInv'
    BY <1>0, <1>6
    DEF Stop, Drained, Selects, OneBuildInFlight, EngineInv, TypeOK, flags, builds
  <2> QED
    BY <2>1, <2>2, <2>3, <1>0
<1>7. ASSUME SomeBuildEnds
      PROVE  IInv' /\ (Len(building') > Len(building) => news)
  <2>1. PICK i \in DOMAIN building : BuildEnds(i)
    BY <1>7 DEF SomeBuildEnds
  <2>2. Len(building) = 1 /\ engine # "returned" /\ active
    <3>1. building \in Seq(0..MaxSaves) /\ results \in 0..1
      BY Parts DEF Queues, Numbers
    <3>2. Len(building) \in Nat /\ Len(building) >= 1
      <4>1. DOMAIN building = 1..Len(building) /\ Len(building) \in Nat
        BY <3>1
      <4> QED
        BY <2>1, <4>1
    <3>3. engine # "returned"
      BY <3>2, <1>0 DEF OneBuildInFlight
    <3>4. Len(building) + results = IF active THEN 1 ELSE 0
      BY <3>3 DEF OneBuildInFlight
    <3> QED
      BY <3>1, <3>2, <3>3, <3>4, <1>0
  <2>3. building' = <<>> /\ results' = 1
    BY <2>1, <2>2, RemoveOnly, Parts DEF BuildEnds, Queues
  <2>4. building[i] \in 0..MaxSaves
    BY <2>1, OfSeq, Parts DEF Queues
  <2>5. TypeOK'
    <3>1. Numbers'
      BY <2>1, <2>3, <2>4, Parts DEF Numbers, BuildEnds, source, channel
    <3>2. Queues'
      BY <2>1, <2>3, Parts DEF Queues, BuildEnds
    <3>3. Stages'
      BY <2>1, Parts DEF Stages, BuildEnds, source, channel, flags
    <3>4. Switches'
      BY <2>1, Parts DEF Switches, BuildEnds, flags
    <3> QED
      BY <3>1, <3>2, <3>3, <3>4, PartsNext
  <2> QED
    BY <2>1, <2>2, <2>3, <2>5, <1>0
    DEF BuildEnds, OneBuildInFlight, EngineInv, flags
<1>8. ASSUME UNCHANGED vars
      PROVE  IInv' /\ (Len(building') > Len(building) => news)
  BY <1>8, <1>0 DEF vars, source, channel, flags, builds, TypeOK, OneBuildInFlight, EngineInv
<1> QED
  BY <1>1, <1>2, <1>3, <1>4, <1>5, <1>6, <1>7, <1>8 DEF Next

(* What the engine, its timer and its notifier hold stays within the       *)
(* channel's capacity and the number of saves.                             *)
THEOREM Typing == Spec => []TypeOK
<1>1. IInv /\ [Next]_vars => IInv'
  BY StepKeeps
<1>2. IInv => TypeOK
  BY DEF IInv
<1> QED
  BY InitEstablishes, <1>1, <1>2, PTL DEF Spec

(* engine.go's invariants 1 and 2 hold for any capacity of the channel and *)
(* any number of saves: never two builds, and none after the watcher       *)
(* returned.                                                               *)
THEOREM OneBuild == Spec => []OneBuildInFlight
<1>1. IInv /\ [Next]_vars => IInv'
  BY StepKeeps
<1>2. IInv => OneBuildInFlight
  BY DEF IInv
<1> QED
  BY InitEstablishes, <1>1, <1>2, PTL DEF Spec

(* A tick starts at most one build: no build starts unless a tick was      *)
(* taken after the last one did.                                           *)
THEOREM BuildsHaveReasons == Spec => NoBuildWithoutNews
<1>1. IInv /\ [Next]_vars => IInv'
  BY StepKeeps
<1>2. IInv /\ [Next]_vars => [Len(building') > Len(building) => news]_vars
  BY StepKeeps
<1> QED
  BY InitEstablishes, <1>1, <1>2, PTL DEF Spec, NoBuildWithoutNews

-----------------------------------------------------------------------------
(* What engine.go's invariant 3 needs at every moment.                     *)

FileWaits == \E i \in DOMAIN raw : raw[i] = "file"

NewestInBuild == \E i \in DOMAIN building : building[i] >= heard

(* A save that fsnotify told of and no build has compiled is on its way:   *)
(* an event waits for the notifier, a tick for the engine, the timer is    *)
(* armed, a build is pending, or one that has the save is running.         *)
NoSaveForgotten ==
  ~cancelled /\ built < heard =>
    FileWaits \/ ticks > 0 \/ timer = "armed" \/ pending \/ NewestInBuild

NewsInv == heard <= saves /\ NoSaveForgotten

(* A started build has every save there is.                                *)
LEMMA StartedHasAll ==
  ASSUME TypeOK, heard <= saves, StartBuild, UNCHANGED heard
  PROVE  NewestInBuild'
<1>1. building \in Seq(0..MaxSaves) /\ saves \in 0..MaxSaves /\ heard \in 0..MaxSaves
  BY DEF TypeOK
<1>2. building' = Append(building, saves)
  BY DEF StartBuild
<1>3. Len(building) + 1 \in DOMAIN building' /\ building'[Len(building) + 1] = saves
  BY <1>1, <1>2
<1>4. saves >= heard
  BY <1>1, SavesNat
<1> QED
  BY <1>3, <1>4 DEF NewestInBuild

(* An event is handled: the others wait, and a file's is a tick, or the    *)
(* channel is full of them.                                                *)
LEMMA HandledWaits ==
  ASSUME TypeOK, HandleEvent, FileWaits
  PROVE  FileWaits' \/ ticks' > 0
<1>1. PICK i \in DOMAIN raw : raw[i] = "file"
  BY DEF FileWaits
<1>2. raw \in Seq({"file", "dir"}) /\ raw # <<>> /\ raw' = Tail(raw)
  BY DEF TypeOK, HandleEvent
<1>3. CASE i = 1
  <2>1. Head(raw) = "file"
    BY <1>1, <1>2, <1>3
  <2>2. ticks' = IF ticks < Capacity THEN ticks + 1 ELSE ticks
    BY <2>1 DEF HandleEvent
  <2>3. ticks \in Nat /\ Capacity \in Nat /\ Capacity > 0
    BY SavesNat DEF TypeOK
  <2> QED
    BY <2>2, <2>3
<1>4. CASE i # 1
  <2>1. i \in 1..Len(raw) /\ Len(raw) \in Nat
    BY <1>1, <1>2
  <2>2. Len(Tail(raw)) = Len(raw) - 1 /\ i - 1 \in 1..Len(Tail(raw))
    BY <1>2, <1>4, <2>1
  <2>3. i - 1 \in DOMAIN raw' /\ raw'[i - 1] = raw[i]
    BY <1>2, <2>1, <2>2
  <2> QED
    BY <1>1, <2>3 DEF FileWaits
<1> QED
  BY <1>3, <1>4

LEMMA NewsStays ==
  ASSUME IInv, NewsInv, [Next]_vars
  PROVE  NewsInv'
<1> USE DEF IInv, NewsInv
<1>0. /\ saves \in Nat /\ heard \in Nat /\ built \in Nat /\ ticks \in Nat
      /\ raw \in Seq({"file", "dir"}) /\ building \in Seq(0..MaxSaves)
  BY SavesNat DEF TypeOK
<1>1. ASSUME Save PROVE NewsInv'
  <2>1. FileWaits'
    <3>1. raw' \in {raw \o <<"file">>, raw \o <<"file", "file">>}
      BY <1>1 DEF Save
    <3>2. Len(raw) + 1 \in DOMAIN raw' /\ raw'[Len(raw) + 1] = "file"
      BY <1>0, <3>1
    <3> QED
      BY <3>2 DEF FileWaits
  <2>2. heard' <= saves'
    BY <1>0, <1>1 DEF Save
  <2> QED
    BY <2>1, <2>2 DEF NoSaveForgotten
<1>2. ASSUME SaveInNewDir PROVE NewsInv'
  <2>1. UNCHANGED <<ticks, timer, pending, building, built, cancelled>>
    BY <1>2 DEF SaveInNewDir, channel, flags, builds
  <2>2. CASE newDir = "watched"
    <3>1. raw' = raw \o <<"file">> /\ heard' = saves'
      BY <1>2, <2>2 DEF SaveInNewDir
    <3>2. Len(raw) + 1 \in DOMAIN raw' /\ raw'[Len(raw) + 1] = "file"
      BY <1>0, <3>1
    <3>3. FileWaits'
      BY <3>2 DEF FileWaits
    <3>4. heard' <= saves'
      BY <1>0, <1>2, <3>1 DEF SaveInNewDir
    <3> QED
      BY <3>3, <3>4 DEF NoSaveForgotten
  <2>3. CASE newDir # "watched"
    <3>1. UNCHANGED <<raw, heard>> /\ saves' = saves + 1
      BY <1>2, <2>3 DEF SaveInNewDir
    <3> QED
      BY <1>0, <2>1, <3>1 DEF NoSaveForgotten, FileWaits, NewestInBuild
  <2> QED
    BY <2>2, <2>3
<1>3. ASSUME MakeDir PROVE NewsInv'
  <2>1. raw' = raw \o <<"dir">>
        /\ UNCHANGED <<saves, heard, ticks, timer, pending, building, built, cancelled>>
    BY <1>3 DEF MakeDir, channel, flags, builds
  <2>2. FileWaits => FileWaits'
    <3>1. \A i \in DOMAIN raw : i \in DOMAIN raw' /\ raw'[i] = raw[i]
      BY <1>0, <2>1
    <3> QED
      BY <3>1 DEF FileWaits
  <2> QED
    BY <2>1, <2>2 DEF NoSaveForgotten, NewestInBuild
<1>4. ASSUME Interrupt \/ Stop PROVE NewsInv'
  <2>1. cancelled' /\ UNCHANGED <<saves, heard>>
    BY <1>4 DEF Interrupt, Stop, source
  <2> QED
    BY <2>1 DEF NoSaveForgotten
<1>5. ASSUME HandleEvent PROVE NewsInv'
  <2>1. UNCHANGED <<saves, heard, timer, pending, building, built, cancelled>>
    BY <1>5 DEF HandleEvent, flags, builds
  <2>2. ticks > 0 => ticks' > 0
    BY <1>0, <1>5 DEF HandleEvent
  <2> QED
    BY <1>5, <2>1, <2>2, HandledWaits DEF NoSaveForgotten, NewestInBuild
<1>6. ASSUME Kick \/ KickEnds PROVE NewsInv'
  <2>1. UNCHANGED <<saves, heard, raw, timer, pending, building, built, cancelled>>
    BY <1>6 DEF Kick, KickEnds, source, flags, builds
  <2>2. ticks > 0 => ticks' > 0
    BY <1>0, <1>6 DEF Kick, KickEnds
  <2> QED
    BY <2>1, <2>2 DEF NoSaveForgotten, FileWaits, NewestInBuild
<1>7. ASSUME TakeTick PROVE NewsInv'
  <2>1. UNCHANGED <<saves, heard>> /\ (pending' \/ timer' = "armed")
    BY <1>7 DEF TakeTick, source
  <2> QED
    BY <2>1 DEF NoSaveForgotten
<1>8. ASSUME TimerFires PROVE NewsInv'
  <2>1. UNCHANGED <<saves, heard>> /\ StartBuild
    BY <1>8 DEF TimerFires, source
  <2> QED
    BY <2>1, StartedHasAll DEF NoSaveForgotten
<1>9. ASSUME TakeResult PROVE NewsInv'
  <2>1. UNCHANGED <<saves, heard, raw, ticks, timer, built, cancelled>>
    BY <1>9 DEF TakeResult, source, channel
  <2>2. CASE pending
    <3>1. NewestInBuild'
      BY <1>9, <2>1, <2>2, StartedHasAll DEF TakeResult
    <3> QED
      BY <2>1, <3>1 DEF NoSaveForgotten
  <2>3. CASE ~pending
    <3>1. UNCHANGED <<pending, building>>
      BY <1>9, <2>3 DEF TakeResult
    <3> QED
      BY <2>1, <3>1 DEF NoSaveForgotten, FileWaits, NewestInBuild
  <2> QED
    BY <2>2, <2>3
<1>10. ASSUME Drained \/ UNCHANGED vars PROVE NewsInv'
  <2>1. UNCHANGED <<saves, heard, raw, ticks, timer, pending, building, built, cancelled>>
    BY <1>10 DEF Drained, vars, source, channel, flags, builds
  <2> QED
    BY <2>1 DEF NoSaveForgotten, FileWaits, NewestInBuild
<1>11. ASSUME SomeBuildEnds PROVE NewsInv'
  <2>1. PICK i \in DOMAIN building : BuildEnds(i)
    BY <1>11 DEF SomeBuildEnds
  <2>2. /\ UNCHANGED <<saves, heard, raw, ticks, timer, pending, cancelled>>
        /\ built' = IF building[i] > built THEN building[i] ELSE built
    BY <2>1 DEF BuildEnds, source, channel, flags
  <2>3. building[i] \in Nat
    BY <1>0, <2>1, SavesNat, OfSeq
  <2>4. built' \in Nat /\ built' >= built /\ built' >= building[i]
    BY <1>0, <2>2, <2>3
  <2>5. \A j \in DOMAIN building : j = i
    <3>1. Len(building) = 1
      <4>1. Len(building) \in Nat /\ DOMAIN building = 1..Len(building) /\ results \in 0..1
        BY <1>0 DEF TypeOK
      <4>2. engine # "returned"
        BY <2>1, <4>1 DEF OneBuildInFlight
      <4> QED
        BY <2>1, <4>1, <4>2 DEF OneBuildInFlight
    <3> QED
      BY <1>0, <3>1, <2>1
  <2>6. NewestInBuild => built' >= heard
    BY <1>0, <2>3, <2>4, <2>5 DEF NewestInBuild
  <2> QED
    BY <1>0, <2>2, <2>4, <2>6 DEF NoSaveForgotten, FileWaits
<1> QED
  BY <1>1, <1>2, <1>3, <1>4, <1>5, <1>6, <1>7, <1>8, <1>9, <1>10, <1>11 DEF Next

(* No save that was heard of is forgotten, for any capacity of the channel *)
(* and any number of saves: a tick that is dropped because the channel is  *)
(* full, and one that comes while a build runs, still lead to a build.     *)
THEOREM NothingForgotten == Spec => []NoSaveForgotten
<1>1. Init => NewsInv
  BY DEF Init, NewsInv, NoSaveForgotten
<1>2. IInv /\ [Next]_vars => IInv'
  BY StepKeeps
<1>3. IInv /\ NewsInv /\ [Next]_vars => NewsInv'
  BY NewsStays
<1>4. NewsInv => NoSaveForgotten
  BY DEF NewsInv
<1> QED
  BY InitEstablishes, <1>1, <1>2, <1>3, <1>4, PTL DEF Spec
=============================================================================

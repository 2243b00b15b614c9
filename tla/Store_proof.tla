---------------------------- MODULE Store_proof -----------------------------
(***************************************************************************)
(* The store: configuration, scaffold and first runs, then its pushes, for *)
(* any stores, tags, machines, command lines, processes, edits by hand,    *)
(* changes and number of failures.                                         *)
(***************************************************************************)
EXTENDS StoreSetup, StoreSync, TLAPS

-----------------------------------------------------------------------------
(* Files.                                                                  *)

LEMMA ValuesFit == \A k \in Keys : ValuesOf(k) \subseteq Values /\ None \in Values
BY DEF Keys, ValuesOf, Values

LEMMA EmptyFits == Empty \in Contents /\ \A k \in Keys : Empty[k] = None
BY ValuesFit DEF Empty, Contents

LEMMA OverlayFits ==
  ASSUME NEW base \in Contents, NEW top \in Contents
  PROVE  /\ Overlay(base, top) \in Contents
         /\ \A k \in Keys : Overlay(base, top)[k] = IF top[k] # None THEN top[k] ELSE base[k]
BY DEF Overlay, Contents

LEMMA OfFits ==
  ASSUME NEW f \in Contents \cup {Missing, Broken}, f # Broken
  PROVE  Of(f) \in Contents
BY EmptyFits DEF Of

LEMMA SetFits ==
  ASSUME NEW c \in Contents, NEW k \in Keys, NEW v \in ValuesOf(k) \cup {None}
  PROVE  /\ [c EXCEPT ![k] = v] \in Contents
         /\ \A l \in Keys : [c EXCEPT ![k] = v][l] = IF l = k THEN v ELSE c[l]
BY ValuesFit DEF Contents

LEMMA KeyTypes ==
  ASSUME NEW c \in Contents
  PROVE  /\ c["store_path"] \in Stores \cup {None} /\ c["profile_tag"] \in Tags \cup {None}
         /\ c["machine_id"] \in Machines \cup {None} /\ c["store_repo"] \in {None, Remote}
BY DEF Contents, Keys, ValuesOf

LEMMA PlaceNames ==
  /\ Global \in Places /\ GlobalLocal \in Places /\ Global # GlobalLocal
  /\ \A s \in Stores \cup {None} : <<s, "main">> \in Places /\ <<s, "local">> \in Places
  /\ \A s \in Stores : /\ <<s, "main">> # Global /\ <<s, "local">> # Global
                       /\ <<s, "main">> # GlobalLocal /\ <<s, "local">> # GlobalLocal
BY StoreAssumption DEF Places, Global, GlobalLocal

ConfOK == conf \in [Places -> Contents \cup {Missing, Broken}]

(* What Load makes of the files: the global configuration, the store whose *)
(* files it reads, and when it fails.                                      *)
Base == Overlay(Of(conf[Global]), Of(conf[GlobalLocal]))
Home(s) == IF s # None THEN s ELSE Base["store_path"]
GlobalBroken == conf[Global] = Broken \/ conf[GlobalLocal] = Broken
StoreBroken(h) ==
  LET mainFile == conf[<<h, "main">>]
      localFile == conf[<<h, "local">>]
  IN mainFile = Broken \/ localFile = Broken \/ ~(InScope(mainFile) /\ InScope(localFile))
Fails(s) == GlobalBroken \/ (Home(s) # None /\ StoreBroken(Home(s)))

LEMMA BaseFits ==
  ASSUME ConfOK, ~GlobalBroken
  PROVE  /\ Base \in Contents
         /\ Of(conf[Global]) \in Contents /\ Of(conf[GlobalLocal]) \in Contents
         /\ \A k \in Keys : Base[k] = IF Of(conf[GlobalLocal])[k] # None THEN Of(conf[GlobalLocal])[k]
                                      ELSE Of(conf[Global])[k]
<1>1. conf[Global] \in Contents \cup {Missing, Broken} /\ conf[GlobalLocal] \in Contents \cup {Missing, Broken}
  BY PlaceNames DEF ConfOK
<1>2. Of(conf[Global]) \in Contents /\ Of(conf[GlobalLocal]) \in Contents
  BY <1>1, OfFits DEF GlobalBroken
<1> QED
  BY <1>2, OverlayFits DEF Base

(* A configuration that loads: where its store comes from, and that its    *)
(* profile and machine come from the global files.                         *)
LEMMA Loads ==
  ASSUME ConfOK, NEW s \in Stores \cup {None}, NEW tag \in Tags \cup {None}
  PROVE  /\ Load(s, tag) = Failed <=> Fails(s)
         /\ ~Fails(s) =>
              /\ Load(s, tag) \in Contents
              /\ s # None => Load(s, tag)["store_path"] = s
              /\ s = None /\ Home(s) = None => Load(s, tag)["store_path"] = None
              /\ s = None /\ Home(s) # None => Load(s, tag)["store_path"] # None
              /\ s = None /\ Home(s) # None =>
                   Load(s, tag)["store_path"] \in {Home(s), Of(conf[<<Home(s), "main">>])["store_path"],
                                                  Of(conf[<<Home(s), "local">>])["store_path"]}
              /\ Load(s, tag)["profile_tag"] = IF tag # None THEN tag ELSE Base["profile_tag"]
              /\ Load(s, tag)["machine_id"] = Base["machine_id"]
<1>1. CASE GlobalBroken
  BY <1>1 DEF GlobalBroken, Fails, Load
<1>2. CASE ~GlobalBroken
  <2> DEFINE home == Home(s)
             mainFile == conf[<<home, "main">>]
             localFile == conf[<<home, "local">>]
             merged == IF home = None THEN Base ELSE Overlay(Overlay(Base, Of(mainFile)), Of(localFile))
             result == [merged EXCEPT !["store_path"]  = IF s # None THEN s ELSE @,
                                      !["profile_tag"] = IF tag # None THEN tag ELSE @]
  <2>1. Load(s, tag) = IF home # None /\ StoreBroken(home) THEN Failed ELSE result
    BY <1>2 DEF Load, GlobalBroken, StoreBroken, Home, Base
  <2>2. Base \in Contents /\ home \in Stores \cup {None}
    BY <1>2, BaseFits, KeyTypes DEF Home
  <2>3. CASE home # None /\ StoreBroken(home)
    BY <2>1, <2>3 DEF Fails
  <2>4. CASE ~(home # None /\ StoreBroken(home))
    <3>1. ~Fails(s)
      BY <1>2, <2>4 DEF Fails
    <3>2. /\ merged \in Contents
          /\ merged["profile_tag"] = Base["profile_tag"] /\ merged["machine_id"] = Base["machine_id"]
          /\ home # None =>
               merged["store_path"] = IF Of(localFile)["store_path"] # None THEN Of(localFile)["store_path"]
                                      ELSE IF Of(mainFile)["store_path"] # None THEN Of(mainFile)["store_path"]
                                      ELSE Base["store_path"]
      <4>1. CASE home = None
        BY <2>2, <4>1
      <4>2. CASE home # None
        <5>1. /\ mainFile # Broken /\ localFile # Broken
              /\ InScope(mainFile) /\ InScope(localFile)
          BY <2>4, <4>2 DEF StoreBroken
        <5>2. mainFile \in Contents \cup {Missing, Broken} /\ localFile \in Contents \cup {Missing, Broken}
          BY <2>2, PlaceNames DEF ConfOK
        <5>3. Of(mainFile) \in Contents /\ Of(localFile) \in Contents
          BY <5>1, <5>2, OfFits
        <5>4. /\ Overlay(Base, Of(mainFile)) \in Contents
              /\ \A k \in Keys : Overlay(Base, Of(mainFile))[k] =
                                   IF Of(mainFile)[k] # None THEN Of(mainFile)[k] ELSE Base[k]
          BY <2>2, <5>3, OverlayFits
        <5>5. /\ merged \in Contents
              /\ \A k \in Keys : merged[k] = IF Of(localFile)[k] # None THEN Of(localFile)[k]
                                             ELSE Overlay(Base, Of(mainFile))[k]
          BY <4>2, <5>3, <5>4, OverlayFits
        <5>6. {"profile_tag", "machine_id", "store_path"} \subseteq Keys
          BY DEF Keys
        <5> HIDE DEF merged, mainFile, localFile, home
        <5> QED
          BY <4>2, <5>1, <5>4, <5>5, <5>6 DEF InScope
      <4> QED
        BY <4>1, <4>2
    <3>3. /\ result \in Contents
          /\ result["store_path"] = IF s # None THEN s ELSE merged["store_path"]
          /\ result["profile_tag"] = IF tag # None THEN tag ELSE merged["profile_tag"]
          /\ result["machine_id"] = merged["machine_id"]
      <4> HIDE DEF merged
      <4>1. "store_path" \in Keys /\ "profile_tag" \in Keys /\ "machine_id" \in Keys
        BY DEF Keys
      <4>2. /\ ValuesOf("store_path") = Stores /\ ValuesOf("profile_tag") = Tags
            /\ merged["store_path"] \in Stores \cup {None} /\ merged["profile_tag"] \in Tags \cup {None}
        BY <3>2, KeyTypes DEF ValuesOf
      <4> DEFINE sp == IF s # None THEN s ELSE merged["store_path"]
                 pt == IF tag # None THEN tag ELSE merged["profile_tag"]
                 half1 == [merged EXCEPT !["store_path"] = sp]
      <4>3. half1 \in Contents /\ \A l \in Keys : half1[l] = IF l = "store_path" THEN sp ELSE merged[l]
        BY <3>2, <4>1, <4>2, SetFits
      <4>4. result = [half1 EXCEPT !["profile_tag"] = pt]
        BY <3>2, <4>1 DEF Contents
      <4>6. pt \in ValuesOf("profile_tag") \cup {None}
        BY <4>2
      <4> HIDE DEF half1, result, pt, sp
      <4>7. /\ [half1 EXCEPT !["profile_tag"] = pt] \in Contents
            /\ \A l \in Keys : [half1 EXCEPT !["profile_tag"] = pt][l] = IF l = "profile_tag" THEN pt ELSE half1[l]
        BY <4>1, <4>3, <4>6, SetFits
      <4>5. result \in Contents /\ \A l \in Keys : result[l] = IF l = "profile_tag" THEN pt ELSE half1[l]
        BY <4>4, <4>7
      <4> USE DEF pt, sp
      <4> QED
        BY <4>1, <4>3, <4>5
    <3> HIDE DEF merged, result
    <3>4. Load(s, tag) = result /\ Load(s, tag) # Failed
      BY <2>1, <2>4, <3>3, MarkAssumption
    <3>5. s = None => home = Base["store_path"]
      BY DEF Home
    <3>6. home = None => merged = Base
      BY DEF merged
    <3> HIDE DEF mainFile, localFile
    <3>7. s = None /\ home # None => merged["store_path"] \in {home, Of(mainFile)["store_path"], Of(localFile)["store_path"]}
      BY <3>2, <3>5
    <3>8. s = None /\ home # None => merged["store_path"] # None
      BY <3>2, <3>5
    <3> QED
      BY <3>1, <3>2, <3>3, <3>4, <3>5, <3>6, <3>7, <3>8 DEF mainFile, localFile
  <2> QED
    BY <2>3, <2>4
<1> QED
  BY <1>1, <1>2

-----------------------------------------------------------------------------
(* The type invariant: the disk, the processes, and the command that ended *)
(* last.  What a command has left to create depends on what it is.         *)

OneWrite ==
  {w \in [place : Places, key : Keys, value : Values, seed : BOOLEAN] :
     w.value \in ValuesOf(w.key) \cup {None}}

ToCreate(verb, s, tag, t) ==
  \/ t = <<>>
  \/ /\ verb = "provider" /\ s \in Stores
     /\ t \in {<<"dir", "git", "ignore", "main">>, <<"git", "ignore", "main">>,
               <<"ignore", "main">>, <<"main">>}
  \/ /\ verb = "init" /\ s \in Stores
     /\ \/ t = <<"profile", "main", "ignore">> /\ tag \in Tags
        \/ t \in {<<"main", "ignore">>, <<"ignore">>}
  \/ verb = "apply" /\ s = Clone /\ t = <<"clone">>

DiskOK ==
  /\ ConfOK
  /\ tree \in [Stores -> [Pieces -> {"missing", "part", "done"}]]
  /\ profiles \in [Stores -> SUBSET Tags]

Spots == {"idle", "start", "create", "settle", "write", "replace", "handle"}

ProcsOK ==
  /\ pc \in [Procs -> Spots]
  /\ cmd \in [Procs -> CommandLines]
  /\ path \in [Procs -> Stores \cup {None}]
  /\ tagged \in [Procs -> Tags \cup {None}]
  /\ buf \in [Procs -> Contents \cup {Missing}]
  /\ half \in [Procs -> BOOLEAN]
  /\ writes \in [Procs -> Seq(OneWrite)]
  /\ DOMAIN todo = Procs /\ todo = [p \in Procs |-> todo[p]]

Control(p) ==
  /\ ToCreate(cmd[p].verb, path[p], tagged[p], todo[p])
  /\ half[p] => /\ pc[p] = "create" /\ todo[p] # <<>>
                /\ Head(todo[p]) \in {"git", "ignore", "clone"}
  /\ pc[p] = "replace" => writes[p] # <<>> /\ buf[p] # Missing
  /\ cmd[p].verb = "provider" => path[p] \in Stores \/ pc[p] \in {"idle", "start"}
  /\ pc[p] = "idle" => todo[p] = <<>>

ControlOK == \A p \in Procs : Control(p)

LastOK ==
  /\ last.cmd \in CommandLines
  /\ last.store \in Stores \cup {None}
  /\ last.ok /\ last.cmd.verb = "provider" => last.store \in Stores

TypeInv == DiskOK /\ ProcsOK /\ ControlOK /\ LastOK

LEMMA CreateSteps ==
  ASSUME NEW verb, NEW s, NEW tag, NEW t, ToCreate(verb, s, tag, t), t # <<>>
  PROVE  /\ ToCreate(verb, s, tag, Tail(t)) /\ s \in Stores
         /\ Head(t) \in {"dir", "git", "ignore", "main", "profile", "clone"}
         /\ Head(t) = "profile" => tag \in Tags
<1>1. /\ Head(<<"dir", "git", "ignore", "main">>) = "dir" /\ Head(<<"git", "ignore", "main">>) = "git"
      /\ Head(<<"ignore", "main">>) = "ignore" /\ Head(<<"main">>) = "main"
      /\ Head(<<"profile", "main", "ignore">>) = "profile" /\ Head(<<"main", "ignore">>) = "main"
      /\ Head(<<"ignore">>) = "ignore" /\ Head(<<"clone">>) = "clone"
  OBVIOUS
<1>2. /\ Tail(<<"dir", "git", "ignore", "main">>) = <<"git", "ignore", "main">>
      /\ Tail(<<"git", "ignore", "main">>) = <<"ignore", "main">>
      /\ Tail(<<"ignore", "main">>) = <<"main">> /\ Tail(<<"main">>) = <<>>
      /\ Tail(<<"profile", "main", "ignore">>) = <<"main", "ignore">>
      /\ Tail(<<"main", "ignore">>) = <<"ignore">>
      /\ Tail(<<"ignore">>) = <<>> /\ Tail(<<"clone">>) = <<>>
  OBVIOUS
<1> QED
  BY <1>1, <1>2, StoreAssumption DEF ToCreate

LEMMA FieldsOK ==
  ASSUME NEW c \in CommandLines
  PROVE  /\ c.verb \in Verbs /\ c.store \in Stores \cup {None} /\ c.tag \in Tags \cup {None}
         /\ c.key \in Keys /\ c.value \in ValuesOf(c.key) \cup {None}
         /\ c.from \in {None, Remote}
BY DEF CommandLines

LEMMA NoCommandOK == NoCommand \in CommandLines /\ NoCommand.verb = "none"
<1>1. NoCommand \in [verb : Verbs, store : Stores \cup {None}, tag : Tags \cup {None}, key : Keys,
                     value : Values, from : {None, Remote}, dry : BOOLEAN, tty : BOOLEAN]
  BY ValuesFit DEF NoCommand, Verbs, Keys
<1> QED
  BY <1>1 DEF CommandLines, NoCommand

LEMMA WriteOK ==
  ASSUME NEW place \in Places, NEW k \in Keys, NEW v \in ValuesOf(k) \cup {None}, NEW b \in BOOLEAN
  PROVE  Write(place, k, v, b) \in OneWrite
<1>1. Write(place, k, v, b) \in [place : Places, key : Keys, value : Values, seed : BOOLEAN]
  BY ValuesFit, Zenon DEF Write
<1>2. Write(place, k, v, b).value = v /\ Write(place, k, v, b).key = k
  BY DEF Write
<1> QED
  BY <1>1, <1>2 DEF OneWrite

LEMMA PlaceParts ==
  ASSUME NEW f \in Places
  PROVE  f[1] \in Stores \cup {None} /\ f = <<f[1], f[2]>> /\ f[2] \in {"main", "local"}
BY DEF Places

(* What a scaffold and a first run write.                                  *)
LEMMA ShortLists ==
  ASSUME NEW S, NEW x \in S, NEW y \in S, NEW z \in S
  PROVE  <<x>> \in Seq(S) /\ <<x, y>> \in Seq(S) /\ <<x, y, z>> \in Seq(S)
OBVIOUS

LEMMA ListsOK ==
  /\ \A s \in Stores : Scaffold(s) \in Seq(OneWrite)
  /\ \A t \in Tags, m \in Machines : Identity(t, m) \in Seq(OneWrite)
<1>1. /\ "store_path" \in Keys /\ "profile_tag" \in Keys /\ "machine_id" \in Keys
      /\ ValuesOf("store_path") = Stores /\ ValuesOf("profile_tag") = Tags
      /\ ValuesOf("machine_id") = Machines
  BY DEF Keys, ValuesOf
<1>2. DefaultTag \in Tags /\ Machine \in Machines /\ Global \in Places
  BY TagAssumption, MachineAssumption, PlaceNames
<1>3. ASSUME NEW s \in Stores PROVE Scaffold(s) \in Seq(OneWrite)
  <2>1. /\ Write(Global, "store_path", s, FALSE) \in OneWrite
        /\ Write(Global, "profile_tag", DefaultTag, TRUE) \in OneWrite
        /\ Write(Global, "machine_id", Machine, TRUE) \in OneWrite
    BY <1>1, <1>2, WriteOK
  <2> QED
    BY <2>1, ShortLists, Zenon DEF Scaffold
<1>4. ASSUME NEW t \in Tags, NEW m \in Machines PROVE Identity(t, m) \in Seq(OneWrite)
  <2>1. /\ Write(Global, "profile_tag", t, FALSE) \in OneWrite
        /\ Write(Global, "machine_id", m, FALSE) \in OneWrite
    BY <1>1, <1>2, WriteOK
  <2> QED
    BY <2>1, ShortLists, Zenon DEF Identity
<1> QED
  BY <1>3, <1>4

LEMMA Unseeded ==
  ASSUME NEW h \in OneWrite
  PROVE  [h EXCEPT !.seed = FALSE] \in OneWrite
<1>1. h \in [place : Places, key : Keys, value : Values, seed : BOOLEAN] /\ h.value \in ValuesOf(h.key) \cup {None}
  BY DEF OneWrite
<1>2. [h EXCEPT !.seed = FALSE] \in [place : Places, key : Keys, value : Values, seed : BOOLEAN]
  BY <1>1
<1>3. [h EXCEPT !.seed = FALSE].value = h.value /\ [h EXCEPT !.seed = FALSE].key = h.key
  BY <1>1
<1> QED
  BY <1>1, <1>2, <1>3 DEF OneWrite

LEMMA WriteSteps ==
  ASSUME NEW q \in Seq(OneWrite), q # <<>>
  PROVE  /\ Tail(q) \in Seq(OneWrite)
         /\ Head(q) \in OneWrite
         /\ Head(q).place \in Places /\ Head(q).key \in Keys
         /\ Head(q).value \in ValuesOf(Head(q).key) \cup {None}
         /\ [q EXCEPT ![1].seed = FALSE] \in Seq(OneWrite)
<1>1. Tail(q) \in Seq(OneWrite) /\ Head(q) \in OneWrite /\ q[1] = Head(q) /\ 1 \in 1..Len(q)
  OBVIOUS
<1>2. [Head(q) EXCEPT !.seed = FALSE] \in OneWrite
  BY <1>1, Unseeded
<1>3. [q EXCEPT ![1].seed = FALSE] = [q EXCEPT ![1] = [Head(q) EXCEPT !.seed = FALSE]]
  BY <1>1
<1>4. [q EXCEPT ![1] = [Head(q) EXCEPT !.seed = FALSE]] \in Seq(OneWrite)
  BY <1>1, <1>2
<1> QED
  BY <1>1, <1>3, <1>4 DEF OneWrite

(* The rest of the processes stand still.                                  *)
Apart(p) ==
  \A q \in Procs \ {p} :
    /\ pc'[q] = pc[q] /\ cmd'[q] = cmd[q] /\ path'[q] = path[q] /\ tagged'[q] = tagged[q]
    /\ todo'[q] = todo[q] /\ writes'[q] = writes[q] /\ buf'[q] = buf[q] /\ half'[q] = half[q]

LEMMA OneMoves ==
  ASSUME ControlOK, NEW p \in Procs, Apart(p), Control(p)'
  PROVE  ControlOK'
BY DEF ControlOK, Control, Apart

(* A command that ends, well or not, and one that goes on.                 *)
LEMMA IdleOK ==
  ASSUME ProcsOK, ControlOK, NEW p \in Procs, Idle(p)
  PROVE  ProcsOK' /\ ControlOK'
<1>1. ProcsOK'
  <2>1. /\ pc' \in [Procs -> Spots] /\ cmd' \in [Procs -> CommandLines]
        /\ path' \in [Procs -> Stores \cup {None}] /\ tagged' \in [Procs -> Tags \cup {None}]
    BY NoCommandOK DEF ProcsOK, Idle, Spots
  <2>2. buf' \in [Procs -> Contents \cup {Missing}]
    BY DEF ProcsOK, Idle
  <2>3. half' \in [Procs -> BOOLEAN]
    BY DEF ProcsOK, Idle
  <2>4. writes' \in [Procs -> Seq(OneWrite)]
    <3>1. <<>> \in Seq(OneWrite)
      OBVIOUS
    <3> QED
      BY <3>1 DEF ProcsOK, Idle
  <2>5. DOMAIN todo' = Procs /\ todo' = [q \in Procs |-> todo'[q]]
    BY DEF ProcsOK, Idle
  <2> QED
    BY <2>1, <2>2, <2>3, <2>4, <2>5 DEF ProcsOK
<1>2. Apart(p)
  BY DEF ProcsOK, Idle, Apart
<1>3. Control(p)'
  BY NoCommandOK DEF ProcsOK, Idle, ToCreate, Control
<1> QED
  BY <1>1, <1>2, <1>3, OneMoves

LEMMA EndOK ==
  ASSUME ProcsOK, ControlOK, NEW p \in Procs, NEW ok \in BOOLEAN, NEW s \in Stores \cup {None},
         ok /\ cmd[p].verb = "provider" => s \in Stores, End(p, ok, s)
  PROVE  ProcsOK' /\ ControlOK' /\ LastOK'
<1>1. ProcsOK' /\ ControlOK'
  BY IdleOK DEF End
<1>2. LastOK'
  BY DEF End, ProcsOK, LastOK
<1> QED
  BY <1>1, <1>2

LEMMA ProceedOK ==
  ASSUME ProcsOK, ControlOK, LastOK, NEW p \in Procs, NEW at \in Spots,
         NEW s \in Stores \cup {None}, NEW tag \in Tags \cup {None}, NEW t, NEW w \in Seq(OneWrite),
         ToCreate(cmd[p].verb, s, tag, t), pc[p] # "create" \/ todo[p] = <<>>, at \notin {"idle", "replace"},
         cmd[p].verb = "provider" => s \in Stores,
         Proceed(p, at, s, tag, t, w)
  PROVE  ProcsOK' /\ ControlOK' /\ LastOK'
<1>1. ProcsOK'
  BY DEF ProcsOK, Proceed
<1>2. Apart(p)
  BY DEF ProcsOK, Proceed, Apart
<1>3. Control(p)'
  BY DEF ProcsOK, Proceed, ControlOK, Control
<1>4. LastOK'
  BY DEF Proceed, LastOK
<1> QED
  BY <1>1, <1>2, <1>3, <1>4, OneMoves

LEMMA Resolves == ASSUME ConfOK, NEW s \in Stores \cup {None} PROVE ResolveStorePath(s) \in Stores
<1>1. Load(None, None) # Failed => Load(None, None) \in Contents
  BY Loads
<1> QED
  BY <1>1, KeyTypes, StoreAssumption DEF ResolveStorePath

LEMMA LoadTypes ==
  ASSUME ConfOK, NEW s \in Stores \cup {None}, NEW tag \in Tags \cup {None}, Load(s, tag) # Failed
  PROVE  /\ Load(s, tag) \in Contents
         /\ Load(s, tag)["store_path"] \in Stores \cup {None}
         /\ ProfileOf(Load(s, tag)) \in Tags
BY Loads, KeyTypes, TagAssumption DEF ProfileOf

(* The first step of a command: it ends or goes on, and the disk is as it  *)
(* was, up to a file that is created empty.                                *)
LEMMA StartsOK ==
  ASSUME TypeInv, NEW p \in Procs, Starts(p)
  PROVE  TypeInv'
<1>1. ProcsOK /\ ControlOK /\ LastOK /\ DiskOK /\ ConfOK
  BY DEF TypeInv, DiskOK
<1>2. /\ cmd[p] \in CommandLines
      /\ cmd[p].store \in Stores \cup {None} /\ cmd[p].tag \in Tags \cup {None}
      /\ cmd[p].key \in Keys /\ cmd[p].value \in ValuesOf(cmd[p].key) \cup {None}
  BY <1>1, FieldsOK DEF ProcsOK
<1>3. <<>> \in Seq(OneWrite) /\ \A s, tag : ToCreate(cmd[p].verb, s, tag, <<>>)
  BY DEF ToCreate
<1>4. UNCHANGED disk => DiskOK'
  BY <1>1 DEF disk, DiskOK, ConfOK
<1>5. None \in Stores \cup {None} /\ None \in Tags \cup {None}
  OBVIOUS
<1>6. {"create", "settle", "write", "handle"} \subseteq Spots
  BY DEF Spots
<1> HIDE DEF ToCreate
<1>7. CASE StartProvider(p)
  <2>1. cmd[p].verb = "provider" /\ pc[p] # "create" /\ UNCHANGED disk
    BY <1>7 DEF StartProvider, Is
  <2> DEFINE s == ResolveStorePath(cmd[p].store)
  <2>2. s \in Stores
    BY <1>1, <1>2, Resolves
  <2>3. Scaffold(s) \in Seq(OneWrite)
    BY <2>2, ListsOK
  <2>4. ToCreate(cmd[p].verb, s, cmd[p].tag, <<"dir", "git", "ignore", "main">>)
    BY <2>1, <2>2 DEF ToCreate
  <2>5. \/ Proceed(p, "handle", s, cmd[p].tag, <<>>, <<>>)
        \/ Proceed(p, "create", s, cmd[p].tag, <<"dir", "git", "ignore", "main">>, Scaffold(s))
    BY <1>7 DEF StartProvider
  <2> HIDE DEF s
  <2> QED
    BY <1>1, <1>2, <1>3, <1>4, <1>6, <2>1, <2>2, <2>3, <2>4, <2>5, ProceedOK DEF TypeInv
<1>8. CASE RunView(p)
  <2>1. cmd[p].verb # "provider" /\ UNCHANGED disk
    BY <1>8 DEF RunView, Is
  <2>2. PICK ok \in BOOLEAN, s \in Stores \cup {None} : End(p, ok, s)
    BY <1>1, <1>2, <1>5, <1>8, LoadTypes DEF RunView
  <2> QED
    BY <1>1, <1>4, <2>1, <2>2, EndOK DEF TypeInv
<1>9. CASE StartWrite(p)
  <2>1. cmd[p].verb # "provider" /\ pc[p] # "create" /\ UNCHANGED disk
    BY <1>9 DEF StartWrite, Is
  <2> DEFINE w == Write(Target(cmd[p].store, cmd[p].key), cmd[p].key, cmd[p].value, FALSE)
  <2>2. Target(cmd[p].store, cmd[p].key) \in Places
    BY <1>2, PlaceNames DEF Target
  <2>3. w \in OneWrite
    BY <1>2, <2>2, WriteOK
  <2>4. End(p, TRUE, None) \/ Proceed(p, "write", None, None, <<>>, <<w>>)
    BY <1>9 DEF StartWrite
  <2> HIDE DEF w
  <2>5. <<w>> \in Seq(OneWrite)
    BY <2>3, ShortLists
  <2> QED
    BY <1>1, <1>3, <1>4, <1>5, <1>6, <2>1, <2>4, <2>5, EndOK, ProceedOK DEF TypeInv
<1>10. CASE StartEdit(p)
  <2>1. cmd[p].verb # "provider" /\ End(p, TRUE, None)
    BY <1>10 DEF StartEdit, Is
  <2>2. ProcsOK' /\ ControlOK' /\ LastOK'
    BY <1>1, <1>5, <2>1, EndOK
  <2>3. DiskOK'
    BY <1>1, <1>10, EmptyFits DEF StartEdit, DiskOK, ConfOK
  <2> QED
    BY <2>2, <2>3 DEF TypeInv
<1>11. CASE StartInit(p)
  <2>1. cmd[p].verb = "init" /\ pc[p] # "create" /\ UNCHANGED disk
    BY <1>11 DEF StartInit, Is
  <2> DEFINE cfg == Load(cmd[p].store, None)
             create == <<"profile", "main", "ignore">>
  <2>2. CASE End(p, FALSE, None)
    BY <1>1, <1>4, <1>5, <2>1, <2>2, EndOK DEF TypeInv
  <2>3. CASE ~End(p, FALSE, None)
    <3>1. cfg # Failed /\ cfg["store_path"] # None
      BY <1>11, <2>3 DEF StartInit
    <3> DEFINE s == cfg["store_path"]
    <3>2. s \in Stores /\ ProfileOf(cfg) \in Tags
      BY <1>1, <1>2, <1>5, <3>1, LoadTypes
    <3>3. \/ End(p, TRUE, s)
          \/ \E t \in Tags, m \in Machines : Proceed(p, "write", s, t, create, Identity(t, m))
          \/ Proceed(p, "create", s, ProfileOf(cfg), create, <<>>)
      BY <1>11, <3>1, <2>3 DEF StartInit
    <3>4. \A t \in Tags : ToCreate(cmd[p].verb, s, t, create)
      BY <2>1, <3>2 DEF ToCreate
    <3> HIDE DEF s, cfg, create
    <3>5. CASE End(p, TRUE, s)
      BY <1>1, <1>4, <2>1, <3>2, <3>5, EndOK DEF TypeInv
    <3>6. ASSUME NEW t \in Tags, NEW m \in Machines, Proceed(p, "write", s, t, create, Identity(t, m))
          PROVE  TypeInv'
      BY <1>1, <1>4, <1>6, <2>1, <3>2, <3>4, <3>6, ListsOK, ProceedOK DEF TypeInv
    <3>7. CASE Proceed(p, "create", s, ProfileOf(cfg), create, <<>>)
      BY <1>1, <1>3, <1>4, <1>6, <2>1, <3>2, <3>4, <3>7, ProceedOK DEF TypeInv
    <3> QED
      BY <3>3, <3>5, <3>6, <3>7
  <2> QED
    BY <2>2, <2>3
<1>12. CASE StartApply(p)
  <2>1. cmd[p].verb = "apply" /\ pc[p] # "create" /\ UNCHANGED disk
    BY <1>12 DEF StartApply, Is
  <2> DEFINE c == cmd[p]
             cfg == IF c.store = None THEN Load(None, c.tag) ELSE Empty
             s == IF c.store # None THEN c.store ELSE cfg["store_path"]
  <2>2. \/ \E ok \in BOOLEAN : End(p, ok, None)
        \/ cfg # Failed /\ Proceed(p, "settle", s, c.tag, <<>>, <<>>)
        \/ Proceed(p, "create", Clone, c.tag, <<"clone">>, <<>>)
        \/ Proceed(p, "settle", Clone, c.tag, <<>>, <<>>)
    BY <1>12 DEF StartApply
  <2>3. cfg # Failed => s \in Stores \cup {None}
    BY <1>1, <1>2, <1>5, LoadTypes
  <2>4. Clone \in Stores
    BY StoreAssumption
  <2>5. ToCreate(cmd[p].verb, Clone, c.tag, <<"clone">>)
    BY <2>1 DEF ToCreate
  <2> HIDE DEF s, cfg, c
  <2>6. c.tag \in Tags \cup {None}
    BY <1>2 DEF c
  <2>7. ASSUME NEW ok \in BOOLEAN, End(p, ok, None) PROVE TypeInv'
    BY <1>1, <1>4, <1>5, <2>1, <2>7, EndOK DEF TypeInv
  <2>8. CASE cfg # Failed /\ Proceed(p, "settle", s, c.tag, <<>>, <<>>)
    BY <1>1, <1>3, <1>4, <1>6, <2>1, <2>3, <2>6, <2>8, ProceedOK DEF TypeInv
  <2>9. CASE Proceed(p, "create", Clone, c.tag, <<"clone">>, <<>>)
    BY <1>1, <1>3, <1>4, <1>6, <2>1, <2>4, <2>5, <2>6, <2>9, ProceedOK DEF TypeInv
  <2>10. CASE Proceed(p, "settle", Clone, c.tag, <<>>, <<>>)
    BY <1>1, <1>3, <1>4, <1>6, <2>1, <2>4, <2>6, <2>10, ProceedOK DEF TypeInv
  <2> QED
    BY <2>2, <2>7, <2>8, <2>9, <2>10
<1> QED
  BY <1>7, <1>8, <1>9, <1>10, <1>11, <1>12 DEF Starts

LEMMA SettleOK ==
  ASSUME TypeInv, NEW p \in Procs, SettleApply(p)
  PROVE  TypeInv'
<1>1. ProcsOK /\ ControlOK /\ LastOK /\ DiskOK /\ ConfOK
  BY DEF TypeInv, DiskOK
<1>2. /\ cmd[p].tag \in Tags \cup {None} /\ path[p] \in Stores \cup {None}
      /\ cmd[p].verb # "provider" /\ pc[p] # "create" /\ UNCHANGED disk
  BY <1>1, FieldsOK DEF ProcsOK, SettleApply, Is
<1>3. DiskOK'
  BY <1>1, <1>2 DEF disk, DiskOK, ConfOK
<1>4. \A s, tag : ToCreate(cmd[p].verb, s, tag, <<>>)
  BY DEF ToCreate
<1>5. \/ \E ok \in BOOLEAN, s \in {None, path[p]} : End(p, ok, s)
      \/ cmd[p].tag # None /\ Proceed(p, "write", path[p], cmd[p].tag, <<>>, Identity(cmd[p].tag, Machine))
      \/ \E t \in Tags, m \in Machines : Proceed(p, "write", path[p], t, <<>>, Identity(t, m))
  BY DEF SettleApply
<1>6. ASSUME NEW ok \in BOOLEAN, NEW s \in {None, path[p]}, End(p, ok, s) PROVE TypeInv'
  BY <1>1, <1>2, <1>3, <1>6, EndOK DEF TypeInv
<1>7. ASSUME NEW t \in Tags, NEW m \in Machines, Proceed(p, "write", path[p], t, <<>>, Identity(t, m))
      PROVE  TypeInv'
  <2>1. Identity(t, m) \in Seq(OneWrite) /\ "write" \in Spots
    BY ListsOK DEF Spots
  <2> QED
    BY <1>1, <1>2, <1>3, <1>4, <1>7, <2>1, ProceedOK DEF TypeInv
<1> QED
  BY <1>2, <1>5, <1>6, <1>7, MachineAssumption

(* A piece that is there, and one that takes no time.                      *)
LEMMA NextPieceOK ==
  ASSUME ProcsOK, ControlOK, LastOK, NEW p \in Procs, NextPiece(p), todo[p] # <<>>, pc[p] = "create",
         UNCHANGED <<pc, cmd, path, tagged, writes, buf, last>>
  PROVE  ProcsOK' /\ ControlOK' /\ LastOK'
<1>1. ProcsOK'
  <2>1. half' \in [Procs -> BOOLEAN]
    BY DEF ProcsOK, NextPiece
  <2>2. DOMAIN todo' = Procs /\ todo' = [q \in Procs |-> todo'[q]]
    BY DEF ProcsOK, NextPiece
  <2> QED
    BY <2>1, <2>2 DEF ProcsOK
<1>2. Apart(p)
  BY DEF ProcsOK, NextPiece, Apart
<1>3. Control(p)'
  BY CreateSteps DEF ProcsOK, NextPiece, ControlOK, Control
<1> QED
  BY <1>1, <1>2, <1>3, OneMoves DEF LastOK

LEMMA PiecesOK ==
  ASSUME TypeInv, NEW p \in Procs,
         SkipPiece(p) \/ CreatePiece(p) \/ BeginPiece(p) \/ EndPiece(p) \/ PieceFails(p)
  PROVE  TypeInv'
<1>1. ProcsOK /\ ControlOK /\ LastOK /\ DiskOK /\ ConfOK
  BY DEF TypeInv, DiskOK
<1>2. /\ todo[p] # <<>> /\ pc[p] = "create" /\ path[p] \in Stores
      /\ Head(todo[p]) \in {"dir", "git", "ignore", "main", "profile", "clone"}
      /\ Head(todo[p]) = "profile" => tagged[p] \in Tags
  BY <1>1, CreateSteps DEF ControlOK, Control, SkipPiece, CreatePiece, BeginPiece, EndPiece, PieceFails
<1>3. Empty \in Contents /\ <<path[p], "main">> \in Places
  BY <1>2, EmptyFits, PlaceNames
<1>4. CASE SkipPiece(p)
  <2>1. DiskOK'
    BY <1>1, <1>4 DEF SkipPiece, disk, DiskOK, ConfOK
  <2> QED
    BY <1>1, <1>2, <1>4, <2>1, NextPieceOK DEF SkipPiece, TypeInv
<1>5. CASE CreatePiece(p)
  <2>1. ConfOK'
    BY <1>1, <1>3, <1>5 DEF CreatePiece, ConfOK
  <2>2. (tree \in [Stores -> [Pieces -> {"missing", "part", "done"}]])'
    BY <1>1, <1>5 DEF CreatePiece, DiskOK
  <2>3. (profiles \in [Stores -> SUBSET Tags])'
    BY <1>1, <1>2, <1>5 DEF CreatePiece, DiskOK
  <2> QED
    BY <1>1, <1>2, <1>5, <2>1, <2>2, <2>3, NextPieceOK DEF CreatePiece, TypeInv, DiskOK
<1>6. CASE BeginPiece(p)
  <2>1. DiskOK'
    <3>1. (tree \in [Stores -> [Pieces -> {"missing", "part", "done"}]])'
      BY <1>1, <1>6 DEF BeginPiece, DiskOK
    <3> QED
      BY <1>1, <1>6, <3>1 DEF BeginPiece, DiskOK, ConfOK
  <2>2. ProcsOK'
    <3>1. half' \in [Procs -> BOOLEAN]
      BY <1>1, <1>6 DEF BeginPiece, ProcsOK
    <3> QED
      BY <1>1, <1>6, <3>1 DEF BeginPiece, ProcsOK
  <2>3. Apart(p)
    BY <1>1, <1>6 DEF BeginPiece, ProcsOK, Apart
  <2>4. Control(p)'
    BY <1>1, <1>6 DEF BeginPiece, ProcsOK, ControlOK, Control
  <2>5. LastOK'
    BY <1>1, <1>6 DEF BeginPiece, LastOK
  <2> QED
    BY <1>1, <2>1, <2>2, <2>3, <2>4, <2>5, OneMoves DEF TypeInv
<1>7. CASE EndPiece(p)
  <2>1. ConfOK'
    BY <1>1, <1>3, <1>7 DEF EndPiece, ConfOK
  <2>2. (tree \in [Stores -> [Pieces -> {"missing", "part", "done"}]])'
    BY <1>1, <1>7 DEF EndPiece, DiskOK
  <2>3. (profiles \in [Stores -> SUBSET Tags])'
    BY <1>1, <1>2, <1>7, TagAssumption DEF EndPiece, DiskOK
  <2> QED
    BY <1>1, <1>2, <1>7, <2>1, <2>2, <2>3, NextPieceOK DEF EndPiece, TypeInv, DiskOK
<1>8. CASE PieceFails(p)
  <2>1. DiskOK'
    <3>1. (tree \in [Stores -> [Pieces -> {"missing", "part", "done"}]])'
      BY <1>1, <1>8 DEF PieceFails, DiskOK
    <3> QED
      BY <1>1, <1>8, <3>1 DEF PieceFails, DiskOK, ConfOK
  <2>2. ProcsOK' /\ ControlOK'
    BY <1>1, <1>8, IdleOK DEF PieceFails
  <2>3. LastOK'
    BY <1>1, <1>8 DEF PieceFails, ProcsOK, LastOK
  <2> QED
    BY <2>1, <2>2, <2>3 DEF TypeInv
<1> QED
  BY <1>4, <1>5, <1>6, <1>7, <1>8

(* The configuration keys: a write is dropped, unseeded or done.           *)
LEMMA NextWriteOK ==
  ASSUME ProcsOK, ControlOK, LastOK, NEW p \in Procs,
         NEW q \in Seq(OneWrite), NEW b \in Contents \cup {Missing},
         pc[p] \in {"write", "replace"},
         pc' = [pc EXCEPT ![p] = "write"], writes' = [writes EXCEPT ![p] = q],
         buf' = [buf EXCEPT ![p] = b],
         UNCHANGED <<cmd, path, tagged, todo, half, last>>
  PROVE  ProcsOK' /\ ControlOK' /\ LastOK'
<1>1. ProcsOK'
  BY DEF ProcsOK, Spots
<1>2. Apart(p)
  BY DEF ProcsOK, Apart
<1>3. Control(p)'
  BY DEF ProcsOK, ControlOK, Control
<1> QED
  BY <1>1, <1>2, <1>3, OneMoves DEF LastOK

LEMMA WritesOK ==
  ASSUME TypeInv, NEW p \in Procs,
         CheckSeed(p) \/ ReadFile(p) \/ ReplaceFile(p) \/ ReplaceFails(p)
  PROVE  TypeInv'
<1>1. ProcsOK /\ ControlOK /\ LastOK /\ DiskOK /\ ConfOK
  BY DEF TypeInv, DiskOK
<1>2. writes[p] # <<>> /\ pc[p] # "create" /\ (pc[p] = "replace" => buf[p] \in Contents)
  BY <1>1 DEF ProcsOK, ControlOK, Control, CheckSeed, ReadFile, ReplaceFile, ReplaceFails
<1> DEFINE w == Head(writes[p])
<1>3. w \in OneWrite /\ w.place \in Places /\ w.key \in Keys /\ w.value \in ValuesOf(w.key) \cup {None}
  BY <1>1, <1>2, WriteSteps DEF ProcsOK
<1>4. UNCHANGED disk => DiskOK'
  BY <1>1 DEF disk, DiskOK, ConfOK
<1> DEFINE rest == Tail(writes[p])
           same == [writes[p] EXCEPT ![1].seed = FALSE]
<1>9. /\ rest \in Seq(OneWrite) /\ same \in Seq(OneWrite)
      /\ buf[p] \in Contents \cup {Missing} /\ Missing \in Contents \cup {Missing}
      /\ buf = [buf EXCEPT ![p] = buf[p]]
  BY <1>1, <1>2, WriteSteps DEF ProcsOK
<1>5. CASE CheckSeed(p)
  <2>1. /\ pc' = [pc EXCEPT ![p] = "write"] /\ pc[p] \in {"write", "replace"}
        /\ buf' = [buf EXCEPT ![p] = buf[p]]
        /\ UNCHANGED <<cmd, path, tagged, todo, half, last>> /\ UNCHANGED disk
    BY <1>1, <1>5, <1>9 DEF CheckSeed, ProcsOK
  <2>2. writes' = [writes EXCEPT ![p] = rest] \/ writes' = [writes EXCEPT ![p] = same]
    BY <1>5 DEF CheckSeed, NextWrite
  <2> HIDE DEF rest, same
  <2> QED
    BY <1>1, <1>4, <1>9, <2>1, <2>2, NextWriteOK DEF TypeInv
<1>6. CASE ReadFile(p)
  <2>1. UNCHANGED disk /\ pc[p] = "write"
    BY <1>6 DEF ReadFile
  <2>2. CASE BestEffort(p) /\ conf[w.place] = Broken
    <3>1. /\ pc' = [pc EXCEPT ![p] = "write"] /\ pc[p] \in {"write", "replace"}
          /\ buf' = [buf EXCEPT ![p] = buf[p]] /\ writes' = [writes EXCEPT ![p] = rest]
          /\ UNCHANGED <<cmd, path, tagged, todo, half, last>>
      BY <1>1, <1>6, <1>9, <2>2 DEF ReadFile, NextWrite, ProcsOK
    <3> HIDE DEF rest
    <3> QED
      BY <1>1, <1>4, <1>9, <2>1, <3>1, NextWriteOK DEF TypeInv
  <2>3. CASE conf[w.place] = Broken /\ ~BestEffort(p)
    <3>1. cmd[p].verb # "provider" /\ End(p, FALSE, None)
      BY <1>6, <2>3 DEF ReadFile, BestEffort
    <3> QED
      BY <1>1, <1>4, <2>1, <3>1, EndOK DEF TypeInv
  <2>4. CASE conf[w.place] # Broken /\ cmd[p].verb = "unset" /\ Of(conf[w.place])[w.key] = None
    <3>1. cmd[p].verb # "provider" /\ End(p, TRUE, None)
      BY <1>6, <2>4 DEF ReadFile
    <3> QED
      BY <1>1, <1>4, <2>1, <3>1, EndOK DEF TypeInv
  <2>5. CASE conf[w.place] # Broken /\ ~(cmd[p].verb = "unset" /\ Of(conf[w.place])[w.key] = None)
    <3> DEFINE new == [Of(conf[w.place]) EXCEPT ![w.key] = w.value]
    <3>1. /\ pc' = [pc EXCEPT ![p] = "replace"] /\ buf' = [buf EXCEPT ![p] = new]
          /\ UNCHANGED <<cmd, path, tagged, todo, writes, half, torn, last>>
      BY <1>6, <2>5 DEF ReadFile
    <3>2. Of(conf[w.place]) \in Contents
      BY <1>1, <1>3, <2>5, OfFits DEF ConfOK
    <3>3. new \in Contents /\ new # Missing
      BY <1>3, <3>2, SetFits, MarkAssumption
    <3> HIDE DEF new
    <3>4. ProcsOK'
      <4>1. pc' \in [Procs -> Spots] /\ buf' \in [Procs -> Contents \cup {Missing}]
        BY <1>1, <3>1, <3>3 DEF ProcsOK, Spots
      <4> QED
        BY <1>1, <3>1, <4>1 DEF ProcsOK
    <3>5. Apart(p)
      BY <1>1, <3>1 DEF ProcsOK, Apart
    <3>6. Control(p)'
      <4>1. /\ buf'[p] # Missing /\ writes'[p] # <<>> /\ ~half'[p] /\ pc'[p] = "replace"
            /\ cmd'[p].verb = "provider" => path'[p] \in Stores
        BY <1>1, <1>2, <2>1, <3>1, <3>3 DEF ProcsOK, ControlOK, Control
      <4>2. ToCreate(cmd[p].verb, path[p], tagged[p], todo[p])'
        BY <1>1, <3>1 DEF ControlOK, Control
      <4> QED
        BY <4>1, <4>2 DEF Control
    <3>7. LastOK'
      BY <1>1, <3>1 DEF LastOK
    <3> QED
      BY <1>1, <1>4, <2>1, <3>4, <3>5, <3>6, <3>7, OneMoves DEF TypeInv
  <2> QED
    BY <2>2, <2>3, <2>4, <2>5
<1>7. CASE ReplaceFile(p)
  <2>1. ConfOK'
    BY <1>1, <1>2, <1>3, <1>7 DEF ReplaceFile, ConfOK
  <2>2. (tree \in [Stores -> [Pieces -> {"missing", "part", "done"}]])'
    BY <1>1, <1>7 DEF ReplaceFile, DiskOK
  <2>3. DiskOK'
    BY <1>1, <1>7, <2>1, <2>2 DEF ReplaceFile, DiskOK
  <2> QED
    <3>1. /\ pc' = [pc EXCEPT ![p] = "write"] /\ pc[p] \in {"write", "replace"}
          /\ buf' = [buf EXCEPT ![p] = Missing] /\ writes' = [writes EXCEPT ![p] = rest]
          /\ UNCHANGED <<cmd, path, tagged, todo, half, last>>
      BY <1>7 DEF ReplaceFile, NextWrite
    <3> HIDE DEF rest
    <3>2. ProcsOK' /\ ControlOK' /\ LastOK'
      BY <1>1, <1>9, <3>1, NextWriteOK
    <3> QED
      BY <2>3, <3>2 DEF TypeInv
<1>8. CASE ReplaceFails(p)
  <2>1. UNCHANGED disk
    BY <1>8 DEF ReplaceFails
  <2>2. CASE BestEffort(p)
    <3>1. /\ pc' = [pc EXCEPT ![p] = "write"] /\ pc[p] \in {"write", "replace"}
          /\ buf' = [buf EXCEPT ![p] = Missing] /\ writes' = [writes EXCEPT ![p] = rest]
          /\ UNCHANGED <<cmd, path, tagged, todo, half, last>>
      BY <1>8, <2>2 DEF ReplaceFails, NextWrite
    <3> HIDE DEF rest
    <3>2. ProcsOK' /\ ControlOK' /\ LastOK'
      BY <1>1, <1>9, <3>1, NextWriteOK
    <3> QED
      BY <1>4, <2>1, <3>2 DEF TypeInv
  <2>3. CASE ~BestEffort(p)
    <3>1. cmd[p].verb # "provider" /\ End(p, FALSE, None)
      BY <1>8, <2>3 DEF ReplaceFails, BestEffort
    <3> QED
      BY <1>1, <1>4, <2>1, <3>1, EndOK DEF TypeInv
  <2> QED
    BY <2>2, <2>3
<1> QED
  BY <1>5, <1>6, <1>7, <1>8

LEMMA GoesOnOK ==
  ASSUME TypeInv, NEW p \in Procs, Created(p) \/ Written(p) \/ Handle(p)
  PROVE  TypeInv'
<1>1. ProcsOK /\ ControlOK /\ LastOK /\ DiskOK /\ ConfOK
  BY DEF TypeInv, DiskOK
<1>2. /\ path[p] \in Stores \cup {None} /\ tagged[p] \in Tags \cup {None} /\ writes[p] \in Seq(OneWrite)
      /\ <<>> \in Seq(OneWrite)
      /\ {"settle", "write", "handle", "create"} \subseteq Spots
  BY <1>1 DEF ProcsOK, Spots
<1>7. /\ pc[p] # "create" \/ todo[p] = <<>>
      /\ pc[p] \in {"create", "write", "handle"}
  BY DEF Created, Written, Handle, Is
<1>8. cmd[p].verb = "provider" => path[p] \in Stores
  BY <1>1, <1>7 DEF ControlOK, Control
<1>3. ToCreate(cmd[p].verb, path[p], tagged[p], todo[p]) /\ ToCreate(cmd[p].verb, path[p], tagged[p], <<>>)
  BY <1>1 DEF ControlOK, Control, ToCreate
<1>4. CASE Created(p)
  <2>1. DiskOK'
    BY <1>1, <1>4 DEF Created, disk, DiskOK, ConfOK
  <2>2. \/ End(p, TRUE, path[p])
        \/ Proceed(p, "settle", path[p], tagged[p], <<>>, writes[p])
        \/ Proceed(p, "write", path[p], tagged[p], <<>>, writes[p])
    BY <1>4 DEF Created
  <2> QED
    BY <1>1, <1>2, <1>3, <1>7, <1>8, <2>1, <2>2, EndOK, ProceedOK DEF TypeInv
<1>5. CASE Written(p)
  <2>1. DiskOK'
    BY <1>1, <1>5 DEF Written, disk, DiskOK, ConfOK
  <2>2. \/ End(p, TRUE, path[p])
        \/ Proceed(p, "handle", path[p], tagged[p], <<>>, <<>>)
        \/ Proceed(p, "create", path[p], tagged[p], todo[p], <<>>)
    BY <1>5 DEF Written
  <2>3. pc[p] # "create"
    BY <1>5 DEF Written
  <2> QED
    BY <1>1, <1>2, <1>3, <1>8, <2>1, <2>2, <2>3, EndOK, ProceedOK DEF TypeInv
<1>6. CASE Handle(p)
  <2>1. Load(path[p], tagged[p]) # Failed => ProfileOf(Load(path[p], tagged[p])) \in Tags
    BY <1>1, <1>2, LoadTypes
  <2>2. (profiles \in [Stores -> SUBSET Tags])'
    <3>1. profiles' \in {profiles, [profiles EXCEPT ![path[p]] = @ \cup {ProfileOf(Load(path[p], tagged[p]))}]}
      BY <1>6 DEF Handle
    <3>2. profiles' = profiles \/ Load(path[p], tagged[p]) # Failed
      BY <1>6 DEF Handle
    <3> QED
      BY <1>1, <2>1, <3>1, <3>2 DEF DiskOK
  <2>3. DiskOK'
    BY <1>1, <1>6, <2>2 DEF Handle, DiskOK, ConfOK
  <2>4. End(p, FALSE, None) \/ End(p, TRUE, path[p])
    BY <1>6 DEF Handle
  <2> QED
    BY <1>1, <1>2, <1>8, <2>3, <2>4, EndOK DEF TypeInv
<1> QED
  BY <1>4, <1>5, <1>6

LEMMA InvokeOK ==
  ASSUME TypeInv, NEW p \in Procs, NEW c \in CommandLines, Invoke(p, c)
  PROVE  TypeInv'
<1>1. ProcsOK /\ ControlOK /\ LastOK /\ DiskOK /\ ConfOK
  BY DEF TypeInv, DiskOK
<1>2. ProcsOK'
  BY <1>1 DEF Invoke, ProcsOK, Spots
<1>3. Apart(p)
  BY <1>1 DEF Invoke, ProcsOK, Apart
<1>4. todo[p] = <<>> /\ ~half[p]
  BY <1>1 DEF Invoke, ControlOK, Control
<1>5. todo'[p] = <<>> /\ ~half'[p] /\ pc'[p] = "start"
  BY <1>1, <1>4 DEF Invoke, ProcsOK
<1>6. Control(p)'
  BY <1>5 DEF Control, ToCreate
<1>7. NoneYet.cmd \in CommandLines /\ NoneYet.store = None /\ NoneYet.cmd.verb = "none"
  BY NoCommandOK DEF NoneYet
<1>8. LastOK'
  BY <1>7 DEF Invoke, LastOK
<1>9. DiskOK'
  BY <1>1 DEF Invoke, disk, DiskOK, ConfOK
<1> QED
  BY <1>1, <1>2, <1>3, <1>6, <1>8, <1>9, OneMoves DEF TypeInv

LEMMA KillOK ==
  ASSUME TypeInv, NEW p \in Procs, KillCommand(p)
  PROVE  TypeInv'
<1>1. ProcsOK /\ ControlOK /\ LastOK /\ DiskOK /\ ConfOK
  BY DEF TypeInv, DiskOK
<1>2. ProcsOK' /\ ControlOK'
  BY <1>1, IdleOK DEF KillCommand
<1>3. DiskOK'
  BY <1>1 DEF KillCommand, disk, DiskOK, ConfOK
<1>4. LastOK'
  BY <1>1 DEF KillCommand, LastOK
<1> QED
  BY <1>2, <1>3, <1>4 DEF TypeInv

LEMMA EditOK ==
  ASSUME TypeInv, NEW e \in Edits, EditByHand(e)
  PROVE  TypeInv'
<1>1. ProcsOK /\ ControlOK /\ LastOK /\ DiskOK /\ ConfOK
  BY DEF TypeInv, DiskOK
<1>2. e.place \in Places /\ e.file \in Contents \cup {Broken}
  BY EditAssumption
<1>3. ConfOK'
  BY <1>1, <1>2 DEF EditByHand, ConfOK
<1>4. (tree \in [Stores -> [Pieces -> {"missing", "part", "done"}]])'
  BY <1>1 DEF EditByHand, DiskOK
<1>5. DiskOK'
  BY <1>1, <1>3, <1>4 DEF EditByHand, DiskOK
<1>6. UNCHANGED proc
  BY DEF EditByHand
<1>7. ProcsOK' /\ ControlOK'
  BY <1>1, <1>6 DEF proc, ProcsOK, ControlOK, Control
<1>8. LastOK'
  BY <1>1 DEF EditByHand, LastOK
<1> QED
  BY <1>5, <1>7, <1>8 DEF TypeInv

LEMMA StillOK == TypeInv /\ UNCHANGED setupVars => TypeInv'
BY DEF TypeInv, setupVars, disk, proc, ghost, DiskOK, ConfOK, ProcsOK, ControlOK, Control, LastOK

LEMMA InitOK == SetupInit => TypeInv
<1> SUFFICES ASSUME SetupInit PROVE TypeInv
  OBVIOUS
<1>1. PICK first \in Firsts :
        /\ conf = [f \in Places |-> IF f = Global THEN first.global
                                    ELSE IF f[1] \in first.cloned /\ f[2] = "main" THEN Empty
                                    ELSE Missing]
        /\ tree = [s \in Stores |-> [x \in Pieces |-> IF s \in first.cloned THEN "done" ELSE "missing"]]
        /\ profiles = [s \in Stores |-> IF s \in first.cloned THEN RemoteTags ELSE {}]
  BY DEF SetupInit
<1>2. first.global \in Contents \cup {Missing, Broken} /\ Empty \in Contents
  BY FirstAssumption, EmptyFits
<1>3. ConfOK
  BY <1>1, <1>2 DEF ConfOK
<1>4. DiskOK
  BY <1>1, <1>3, TagAssumption DEF DiskOK
<1>5. ProcsOK
  <2>1. half \in [Procs -> BOOLEAN]
    BY DEF SetupInit
  <2>2. writes \in [Procs -> Seq(OneWrite)]
    BY DEF SetupInit
  <2>3. DOMAIN todo = Procs /\ todo = [p \in Procs |-> todo[p]]
    BY DEF SetupInit
  <2>4. /\ pc \in [Procs -> Spots] /\ path \in [Procs -> Stores \cup {None}]
        /\ tagged \in [Procs -> Tags \cup {None}] /\ buf \in [Procs -> Contents \cup {Missing}]
    BY DEF SetupInit, Spots
  <2>5. cmd \in [Procs -> CommandLines]
    BY NoCommandOK DEF SetupInit
  <2> QED
    BY <2>1, <2>2, <2>3, <2>4, <2>5 DEF ProcsOK
<1>6. ControlOK
  BY DEF SetupInit, ControlOK, Control, ToCreate
<1>7. LastOK
  BY NoCommandOK DEF SetupInit, NoneYet, LastOK
<1> QED
  BY <1>4, <1>5, <1>6, <1>7 DEF TypeInv

LEMMA StepOK == TypeInv /\ [SetupNext]_setupVars => TypeInv'
<1> SUFFICES ASSUME TypeInv, SetupNext PROVE TypeInv'
  BY StillOK
<1>1. ASSUME NEW p \in Procs, NEW c \in Invocations, Invoke(p, c) PROVE TypeInv'
  BY <1>1, InvocationAssumption, InvokeOK
<1>2. ASSUME NEW p \in Procs, Starts(p) PROVE TypeInv'
  BY <1>2, StartsOK
<1>3. ASSUME NEW p \in Procs, Steps(p) PROVE TypeInv'
  BY <1>3, SettleOK, PiecesOK, WritesOK, GoesOnOK DEF Steps
<1>4. ASSUME NEW p \in Procs, KillCommand(p) PROVE TypeInv'
  BY <1>4, KillOK
<1>5. ASSUME NEW e \in Edits, EditByHand(e) PROVE TypeInv'
  BY <1>5, EditOK
<1> QED
  BY <1>1, <1>2, <1>3, <1>4, <1>5 DEF SetupNext

LEMMA TypeAlways == SetupSpec => []TypeInv
BY InitOK, StepOK, PTL DEF SetupSpec

(* The type invariant of the files, the stores and the commands: whatever  *)
(* runs side by side, fails, is killed or is edited by hand, a file holds  *)
(* a configuration whose values fit their keys or is missing or broken.    *)
THEOREM SetupTyping == SetupSpec => []SetupTypeOK
<1>1. TypeInv => SetupTypeOK
  <2> SUFFICES ASSUME TypeInv PROVE SetupTypeOK
    OBVIOUS
  <2>1. ProcsOK /\ ControlOK /\ DiskOK
    BY DEF TypeInv
  <2>2. \A p \in Procs : /\ path[p] \in Stores \cup {None}
                         /\ tagged[p] \in Tags \cup {None}
                         /\ buf[p] \in Contents \cup {Missing}
    BY <2>1 DEF ProcsOK
  <2>3. \A p \in Procs : /\ half[p] => pc[p] = "create" /\ todo[p] # <<>>
                         /\ pc[p] = "replace" => writes[p] # <<>> /\ buf[p] # Missing
    BY <2>1 DEF ControlOK, Control
  <2> QED
    BY <2>1, <2>2, <2>3 DEF SetupTypeOK, DiskOK, ConfOK, ProcsOK, Spots
<1> QED
  BY <1>1, TypeAlways, PTL

-----------------------------------------------------------------------------
(* Every command finds the same store, profile and machine.                *)

(* The store a configuration names loads with the profile and the machine  *)
(* of the global files, which is all that a store's own files may not set. *)
LEMMA Agreement ==
  ASSUME ConfOK
  PROVE  CommandsAgree
<1> SUFFICES ASSUME NEW s \in Stores \cup {None},
                    Load(s, None) # Failed, Load(s, None)["store_path"] # None
             PROVE  /\ LET cfg == Load(Load(s, None)["store_path"], None)
                       IN cfg = Failed \/ \A k \in {"store_path", "profile_tag", "machine_id"} :
                                            cfg[k] = Load(s, None)[k]
                    /\ ResolveStorePath(s) = Load(s, None)["store_path"]
  BY DEF CommandsAgree
<1> DEFINE home == Load(s, None)["store_path"]
<1>1. home \in Stores /\ None \in Stores \cup {None} /\ None \in Tags \cup {None}
  BY LoadTypes
<1>2. /\ Load(s, None)["profile_tag"] = Base["profile_tag"]
      /\ Load(s, None)["machine_id"] = Base["machine_id"]
      /\ s # None => home = s
  BY <1>1, Loads
<1>3. Load(home, None) # Failed =>
        /\ Load(home, None)["store_path"] = home
        /\ Load(home, None)["profile_tag"] = Base["profile_tag"]
        /\ Load(home, None)["machine_id"] = Base["machine_id"]
  <2> HIDE DEF home
  <2> QED
    BY <1>1, Loads, StoreAssumption
<1>4. ResolveStorePath(s) = home
  BY <1>1, <1>2 DEF ResolveStorePath
<1> QED
  BY <1>2, <1>3, <1>4

(* Whichever command looks finds the same store, profile and machine, for  *)
(* every content of the configuration files that loads.                    *)
THEOREM CommandsFindTheSame == SetupSpec => []CommandsAgree
<1>1. TypeInv => CommandsAgree
  BY Agreement DEF TypeInv, DiskOK
<1> QED
  BY <1>1, TypeAlways, PTL

-----------------------------------------------------------------------------
(* A provider command that ends well leaves a whole store.                 *)

(* A piece under way is being made by a live process, or was being made by *)
(* one that was killed or whose git failed.                                *)
Making(x) == IF x = "ignore" THEN x ELSE "git"
PartInv ==
  \A s \in Stores, x \in Pieces :
    tree[s][x] = "part" => \/ <<s, x>> \in torn
                           \/ \E p \in Procs : half[p] /\ path[p] = s /\ Making(Head(todo[p])) = x

(* The pieces a scaffold has passed are there.                             *)
Passed(s, t) ==
  /\ t # <<"dir", "git", "ignore", "main">> => tree[s]["dir"] # "missing"
  /\ t \notin {<<"dir", "git", "ignore", "main">>, <<"git", "ignore", "main">>} =>
       tree[s]["git"] # "missing"
  /\ t \in {<<"main">>, <<>>} => tree[s]["ignore"] # "missing"
  /\ t = <<>> => conf[<<s, "main">>] # Missing

Scaffolds(c, s) == c.verb = "provider" /\ ~c.dry /\ s # Clone

PassedBy(p) ==
  Scaffolds(cmd[p], path[p]) /\ pc[p] \notin {"idle", "start"} =>
    Passed(path[p], todo[p]) /\ (pc[p] # "create" => todo[p] = <<>>)
PassedInv == \A p \in Procs : PassedBy(p)

LastPassed == last.ok /\ Scaffolds(last.cmd, last.store) => Passed(last.store, <<>>)

WholeInv == PartInv /\ PassedInv /\ LastPassed

LEMMA WholeMeans == TypeInv /\ WholeInv => StoreIsWhole
<1> SUFFICES ASSUME TypeInv, WholeInv, last.ok, Scaffolds(last.cmd, last.store)
             PROVE  /\ conf[<<last.store, "main">>] # Missing
                    /\ \A x \in Pieces :
                         \/ tree[last.store][x] = "done"
                         \/ /\ tree[last.store][x] = "part"
                            /\ \/ <<last.store, x>> \in torn
                               \/ \E p \in Procs : half[p] /\ path[p] = last.store
  BY DEF StoreIsWhole, Scaffolds
<1>1. last.store \in Stores
  BY DEF TypeInv, LastOK, Scaffolds
<1>2. Passed(last.store, <<>>) /\ PartInv
  BY DEF WholeInv, LastPassed
<1>3. ASSUME NEW x \in Pieces PROVE tree[last.store][x] \in {"part", "done"}
  <2>1. tree[last.store][x] \in {"missing", "part", "done"}
    BY <1>1 DEF TypeInv, DiskOK
  <2>2. tree[last.store][x] # "missing"
    BY <1>2 DEF Passed, Pieces
  <2> QED
    BY <2>1, <2>2
<1> QED
  BY <1>1, <1>2, <1>3 DEF Passed, PartInv

(* What a process does happens to it alone.                                *)
LEMMA ActsApart ==
  ASSUME TypeInv, NEW p \in Procs,
         Starts(p) \/ Steps(p) \/ KillCommand(p) \/ \E c \in CommandLines : Invoke(p, c)
  PROVE  Apart(p)
<1>1. ProcsOK
  BY DEF TypeInv
<1>2. Idle(p) => Apart(p)
  BY <1>1 DEF Idle, ProcsOK, Apart
<1>3. \A at, s, tag, t, w : Proceed(p, at, s, tag, t, w) => Apart(p)
  BY <1>1 DEF Proceed, ProcsOK, Apart
<1>4. CASE Starts(p)
  BY <1>2, <1>3, <1>4, Zenon DEF Starts, StartProvider, RunView, StartWrite, StartEdit, StartInit, StartApply, End
<1>5. CASE SettleApply(p) \/ Created(p) \/ Written(p) \/ Handle(p)
  BY <1>2, <1>3, <1>5 DEF SettleApply, Created, Written, Handle, End
<1>6. CASE SkipPiece(p) \/ CreatePiece(p) \/ EndPiece(p) \/ BeginPiece(p)
  BY <1>1, <1>6 DEF SkipPiece, CreatePiece, EndPiece, BeginPiece, NextPiece, ProcsOK, Apart
<1>7. CASE PieceFails(p) \/ KillCommand(p)
  BY <1>2, <1>7 DEF PieceFails, KillCommand
<1>8. CASE CheckSeed(p)
  BY <1>1, <1>8 DEF CheckSeed, NextWrite, ProcsOK, Apart
<1>9. CASE ReadFile(p)
  BY <1>1, <1>2, <1>9 DEF ReadFile, NextWrite, End, ProcsOK, Apart
<1>10. CASE ReplaceFile(p)
  BY <1>1, <1>10 DEF ReplaceFile, NextWrite, ProcsOK, Apart
<1>11. CASE ReplaceFails(p)
  BY <1>1, <1>2, <1>11 DEF ReplaceFails, NextWrite, End, ProcsOK, Apart
<1>12. ASSUME NEW c \in CommandLines, Invoke(p, c) PROVE Apart(p)
  BY <1>1, <1>12 DEF Invoke, ProcsOK, Apart
<1> QED
  BY <1>4, <1>5, <1>6, <1>7, <1>8, <1>9, <1>10, <1>11, <1>12 DEF Steps

(* Only a clone that fails takes anything away, from where it was cloned.  *)
Kept ==
  /\ \A s \in Stores, x \in Pieces : s # Clone /\ tree[s][x] # "missing" => tree'[s][x] # "missing"
  /\ \A f \in Places : conf[f] # Missing => conf'[f] # Missing

LEMMA NothingIsLost == TypeInv /\ SetupNext => Kept
<1> SUFFICES ASSUME TypeInv, SetupNext PROVE Kept
  OBVIOUS
<1>1. DiskOK /\ ConfOK /\ ProcsOK /\ ControlOK
  BY DEF TypeInv, DiskOK
<1>2. Empty # Missing
  BY EmptyFits, MarkAssumption
<1>3. UNCHANGED <<conf, tree>> => Kept
  BY DEF Kept
<1>4. ASSUME NEW p \in Procs, StartEdit(p) PROVE Kept
  BY <1>1, <1>2, <1>4 DEF StartEdit, ConfOK, Kept
<1>5. ASSUME NEW p \in Procs, CreatePiece(p) PROVE Kept
  <2>1. /\ \A s \in Stores, x \in Pieces : tree[s][x] # "missing" => tree'[s][x] # "missing"
    BY <1>1, <1>5 DEF CreatePiece, DiskOK
  <2>2. \A f \in Places : conf[f] # Missing => conf'[f] # Missing
    BY <1>1, <1>2, <1>5 DEF CreatePiece, ConfOK
  <2> QED
    BY <2>1, <2>2 DEF Kept
<1>6. ASSUME NEW p \in Procs, BeginPiece(p) PROVE Kept
  BY <1>1, <1>6 DEF BeginPiece, DiskOK, Kept
<1>7. ASSUME NEW p \in Procs, EndPiece(p) PROVE Kept
  <2>1. /\ \A s \in Stores, x \in Pieces : tree[s][x] # "missing" => tree'[s][x] # "missing"
    BY <1>1, <1>7 DEF EndPiece, DiskOK
  <2>2. \A f \in Places : conf[f] # Missing => conf'[f] # Missing
    BY <1>1, <1>2, <1>7 DEF EndPiece, ConfOK
  <2> QED
    BY <2>1, <2>2 DEF Kept
<1>8. ASSUME NEW p \in Procs, PieceFails(p) PROVE Kept
  <2>1. Head(todo[p]) = "clone" => path[p] = Clone
    <3>1. ToCreate(cmd[p].verb, path[p], tagged[p], todo[p]) /\ todo[p] # <<>>
      BY <1>1, <1>8 DEF ControlOK, Control, PieceFails
    <3> QED
      BY <3>1 DEF ToCreate
  <2> QED
    BY <1>1, <1>8, <2>1 DEF PieceFails, DiskOK, Kept
<1>9. ASSUME NEW p \in Procs, ReplaceFile(p) PROVE Kept
  <2>1. buf[p] # Missing
    BY <1>1, <1>9 DEF ReplaceFile, ControlOK, Control
  <2>2. \A s \in Stores, x \in Pieces : tree[s][x] # "missing" => tree'[s][x] # "missing"
    BY <1>1, <1>9 DEF ReplaceFile, DiskOK
  <2>3. \A f \in Places : conf[f] # Missing => conf'[f] # Missing
    BY <1>1, <1>9, <2>1 DEF ReplaceFile, ConfOK
  <2> QED
    BY <2>2, <2>3 DEF Kept
<1>10. ASSUME NEW e \in Edits, EditByHand(e) PROVE Kept
  <2>1. e.file # Missing
    BY EditAssumption, MarkAssumption
  <2>2. \A s \in Stores, x \in Pieces : tree[s][x] # "missing" => tree'[s][x] # "missing"
    BY <1>1, <1>10 DEF EditByHand, DiskOK
  <2>3. \A f \in Places : conf[f] # Missing => conf'[f] # Missing
    BY <1>1, <1>10, <2>1 DEF EditByHand, ConfOK
  <2> QED
    BY <2>2, <2>3 DEF Kept
<1>11. ASSUME NEW p \in Procs, NEW c \in Invocations, Invoke(p, c) PROVE Kept
  BY <1>3, <1>11 DEF Invoke, disk
<1>12. ASSUME NEW p \in Procs,
              \/ StartProvider(p) \/ RunView(p) \/ StartWrite(p) \/ StartInit(p) \/ StartApply(p)
              \/ SettleApply(p) \/ SkipPiece(p) \/ Created(p) \/ CheckSeed(p) \/ ReadFile(p)
              \/ ReplaceFails(p) \/ Written(p) \/ Handle(p) \/ KillCommand(p)
       PROVE  Kept
  <2>1. UNCHANGED <<conf, tree>>
    BY <1>12 DEF StartProvider, RunView, StartWrite, StartInit, StartApply, SettleApply, SkipPiece,
                 Created, CheckSeed, ReadFile, ReplaceFails, Written, Handle, KillCommand, disk
  <2> QED
    BY <1>3, <2>1
<1> QED
  BY <1>4, <1>5, <1>6, <1>7, <1>8, <1>9, <1>10, <1>11, <1>12 DEF SetupNext, Starts, Steps

(* What is under way stays under way while its maker is at it.             *)
LEMMA PartStays ==
  ASSUME PartInv, torn \subseteq torn',
         \A s \in Stores, x \in Pieces : tree'[s][x] = "part" => tree[s][x] = "part",
         \A q \in Procs : half[q] => half'[q] /\ path'[q] = path[q] /\ todo'[q] = todo[q]
  PROVE  PartInv'
<1> SUFFICES ASSUME NEW s \in Stores, NEW x \in Pieces, tree'[s][x] = "part", <<s, x>> \notin torn'
             PROVE  \E q \in Procs : half'[q] /\ path'[q] = s /\ Making(Head(todo'[q])) = x
  BY DEF PartInv
<1>1. PICK q \in Procs : half[q] /\ path[q] = s /\ Making(Head(todo[q])) = x
  BY DEF PartInv
<1> QED
  BY <1>1

(* The steps that leave nothing under way.                                 *)
Quiet(p) ==
  \/ Starts(p) \/ SettleApply(p) \/ SkipPiece(p) \/ CreatePiece(p) \/ Created(p)
  \/ CheckSeed(p) \/ ReadFile(p) \/ ReplaceFile(p) \/ ReplaceFails(p) \/ Written(p) \/ Handle(p)
  \/ \E c \in CommandLines : Invoke(p, c)

LEMMA QuietSteps ==
  ASSUME TypeInv, NEW p \in Procs, Quiet(p)
  PROVE  /\ ~half[p] /\ UNCHANGED torn
         /\ \A s \in Stores, x \in Pieces : tree'[s][x] = "part" => tree[s][x] = "part"
<1>1. ControlOK /\ DiskOK
  BY DEF TypeInv
<1>2. ~half[p]
  <2>1. pc[p] # "create" \/ todo[p] = <<>> \/ ~half[p]
    BY DEF Quiet, Starts, StartProvider, RunView, StartWrite, StartEdit, StartInit, StartApply, Is,
           SettleApply, SkipPiece, CreatePiece, Created, CheckSeed, ReadFile, ReplaceFile,
           ReplaceFails, Written, Handle, Invoke
  <2> QED
    BY <1>1, <2>1 DEF ControlOK, Control
<1>3. CASE Starts(p)
  <2>1. UNCHANGED tree
    BY <1>3 DEF Starts, StartProvider, RunView, StartWrite, StartEdit, StartInit, StartApply, disk
  <2>2. UNCHANGED torn
    BY <1>3 DEF Starts, StartProvider, RunView, StartWrite, StartEdit, StartInit, StartApply, End, Proceed
  <2> QED
    BY <1>2, <2>1, <2>2
<1>4. CASE CreatePiece(p)
  BY <1>1, <1>2, <1>4 DEF CreatePiece, DiskOK
<1>5. CASE ReplaceFile(p)
  BY <1>1, <1>2, <1>5 DEF ReplaceFile, DiskOK
<1>6. CASE SettleApply(p) \/ SkipPiece(p) \/ Created(p) \/ Written(p) \/ Handle(p)
  BY <1>2, <1>6 DEF SettleApply, SkipPiece, Created, Written, Handle, End, Proceed, disk
<1>7. CASE CheckSeed(p) \/ ReadFile(p) \/ ReplaceFails(p)
  BY <1>2, <1>7 DEF CheckSeed, ReadFile, ReplaceFails, End, disk
<1>8. CASE \E c \in CommandLines : Invoke(p, c)
  BY <1>2, <1>8 DEF Invoke, disk
<1> QED
  BY <1>3, <1>4, <1>5, <1>6, <1>7, <1>8 DEF Quiet

LEMMA PartSteps == TypeInv /\ PartInv /\ SetupNext => PartInv'
<1> SUFFICES ASSUME TypeInv, PartInv, SetupNext PROVE PartInv'
  OBVIOUS
<1>1. ControlOK /\ DiskOK /\ ProcsOK
  BY DEF TypeInv
<1>2. ASSUME NEW p \in Procs, Quiet(p) PROVE PartInv'
  <2>1. Apart(p)
    BY <1>2, ActsApart DEF Quiet, Steps
  <2> QED
    BY <1>2, <2>1, PartStays, QuietSteps DEF Apart
<1>3. ASSUME NEW p \in Procs, BeginPiece(p) PROVE PartInv'
  <2>1. Apart(p)
    BY <1>3, ActsApart DEF Steps
  <2>2. half'[p] /\ path'[p] = path[p] /\ todo'[p] = todo[p] /\ ~half[p] /\ torn' = torn
    BY <1>1, <1>3 DEF BeginPiece, ProcsOK
  <2>3. path[p] \in Stores /\ Head(todo[p]) \in {"git", "ignore", "clone"}
    BY <1>1, <1>3, CreateSteps DEF BeginPiece, ControlOK, Control
  <2>4. \A s \in Stores, x \in Pieces :
          tree'[s][x] = "part" => tree[s][x] = "part" \/ (s = path[p] /\ x = Making(Head(todo[p])))
    BY <1>1, <1>3, <2>3 DEF BeginPiece, DiskOK, Making
  <2> SUFFICES ASSUME NEW s \in Stores, NEW x \in Pieces, tree'[s][x] = "part", <<s, x>> \notin torn'
               PROVE  \E q \in Procs : half'[q] /\ path'[q] = s /\ Making(Head(todo'[q])) = x
    BY DEF PartInv
  <2>5. CASE s = path[p] /\ x = Making(Head(todo[p]))
    BY <2>2, <2>5
  <2>6. CASE tree[s][x] = "part"
    <3>1. PICK q \in Procs : half[q] /\ path[q] = s /\ Making(Head(todo[q])) = x
      BY <2>2, <2>6 DEF PartInv
    <3> QED
      BY <2>1, <2>2, <3>1 DEF Apart
  <2> QED
    BY <2>4, <2>5, <2>6
<1>4. ASSUME NEW p \in Procs, EndPiece(p) PROVE PartInv'
  <2>1. Apart(p)
    BY <1>4, ActsApart DEF Steps
  <2>2. torn' = torn /\ path[p] \in Stores /\ Head(todo[p]) \in {"git", "ignore", "clone"}
    BY <1>1, <1>4, CreateSteps DEF EndPiece, ControlOK, Control
  <2>3. \A s \in Stores, x \in Pieces :
          tree'[s][x] = "part" => tree[s][x] = "part" /\ ~(s = path[p] /\ x = Making(Head(todo[p])))
    BY <1>1, <1>4, <2>2 DEF EndPiece, DiskOK, Making, Pieces
  <2> SUFFICES ASSUME NEW s \in Stores, NEW x \in Pieces, tree'[s][x] = "part", <<s, x>> \notin torn'
               PROVE  \E q \in Procs : half'[q] /\ path'[q] = s /\ Making(Head(todo'[q])) = x
    BY DEF PartInv
  <2>4. PICK q \in Procs : half[q] /\ path[q] = s /\ Making(Head(todo[q])) = x
    BY <2>2, <2>3 DEF PartInv
  <2>5. q # p
    BY <2>3, <2>4
  <2> QED
    BY <2>1, <2>4, <2>5 DEF Apart
<1>5. ASSUME NEW p \in Procs, KillCommand(p) PROVE PartInv'
  <2>1. Apart(p)
    BY <1>5, ActsApart
  <2>2. /\ tree' = tree /\ torn \subseteq torn'
        /\ half[p] => <<path[p], Making(Head(todo[p]))>> \in torn'
    BY <1>5 DEF KillCommand, disk, Making
  <2> SUFFICES ASSUME NEW s \in Stores, NEW x \in Pieces, tree'[s][x] = "part", <<s, x>> \notin torn'
               PROVE  \E q \in Procs : half'[q] /\ path'[q] = s /\ Making(Head(todo'[q])) = x
    BY DEF PartInv
  <2>3. PICK q \in Procs : half[q] /\ path[q] = s /\ Making(Head(todo[q])) = x
    BY <2>2 DEF PartInv
  <2>4. q # p
    BY <2>2, <2>3
  <2> QED
    BY <2>1, <2>3, <2>4 DEF Apart
<1>6. ASSUME NEW p \in Procs, PieceFails(p) PROVE PartInv'
  <2>1. Apart(p)
    BY <1>6, ActsApart DEF Steps
  <2>2. /\ torn \subseteq torn'
        /\ \A s \in Stores, x \in Pieces : tree'[s][x] = "part" => tree[s][x] = "part"
        /\ half[p] => \/ <<path[p], Making(Head(todo[p]))>> \in torn'
                      \/ tree'[path[p]] = [y \in Pieces |-> "missing"]
    <3>1. todo[p] # <<>> /\ path[p] \in Stores
      BY <1>1, <1>6, CreateSteps DEF PieceFails, ControlOK, Control
    <3>2. \/ ~half[p] /\ UNCHANGED <<tree, torn>>
          \/ /\ Head(todo[p]) = "git"
             /\ torn' = torn \cup {<<path[p], "git">>} /\ UNCHANGED tree
          \/ tree' = [tree EXCEPT ![path[p]] = [y \in Pieces |-> "missing"]] /\ UNCHANGED torn
      BY <1>6 DEF PieceFails
    <3>3. CASE tree' = [tree EXCEPT ![path[p]] = [y \in Pieces |-> "missing"]] /\ UNCHANGED torn
      BY <1>1, <3>1, <3>3 DEF DiskOK
    <3>4. CASE Head(todo[p]) = "git" /\ torn' = torn \cup {<<path[p], "git">>} /\ UNCHANGED tree
      BY <3>4 DEF Making
    <3> QED
      BY <3>2, <3>3, <3>4
  <2> SUFFICES ASSUME NEW s \in Stores, NEW x \in Pieces, tree'[s][x] = "part", <<s, x>> \notin torn'
               PROVE  \E q \in Procs : half'[q] /\ path'[q] = s /\ Making(Head(todo'[q])) = x
    BY DEF PartInv
  <2>3. PICK q \in Procs : half[q] /\ path[q] = s /\ Making(Head(todo[q])) = x
    BY <2>2 DEF PartInv
  <2>4. q # p
    BY <2>2, <2>3
  <2> QED
    BY <2>1, <2>3, <2>4 DEF Apart
<1>7. ASSUME NEW e \in Edits, EditByHand(e) PROVE PartInv'
  <2>1. /\ torn' = torn /\ UNCHANGED proc
        /\ \A s \in Stores, x \in Pieces : tree'[s][x] = "part" => tree[s][x] = "part"
    BY <1>1, <1>7 DEF EditByHand, DiskOK
  <2> QED
    BY <2>1, PartStays DEF proc
<1> QED
  BY <1>2, <1>3, <1>4, <1>5, <1>6, <1>7, InvocationAssumption DEF SetupNext, Steps, Quiet

LEMMA PassedStays ==
  ASSUME Kept, NEW s \in Stores, s # Clone, NEW t, Passed(s, t)
  PROVE  Passed(s, t)'
<1>1. <<s, "main">> \in Places
  BY PlaceNames
<1> QED
  BY <1>1 DEF Kept, Passed, Pieces

LEMMA PassedByStays ==
  ASSUME TypeInv, Kept, NEW p \in Procs, PassedBy(p), pc[p] \notin {"idle", "start"},
         pc'[p] = "create" \/ todo[p] = <<>> \/ pc[p] # "create",
         cmd'[p] = cmd[p], path'[p] = path[p], todo'[p] = todo[p]
  PROVE  PassedBy(p)'
<1>1. ASSUME Scaffolds(cmd[p], path[p])
      PROVE  Passed(path[p], todo[p])' /\ (pc'[p] # "create" => todo'[p] = <<>>)
  <2>1. Passed(path[p], todo[p]) /\ (pc[p] # "create" => todo[p] = <<>>)
    BY <1>1 DEF PassedBy
  <2>2. path[p] \in Stores /\ path[p] # Clone
    BY <1>1 DEF TypeInv, ControlOK, Control, Scaffolds
  <2> DEFINE s == path[p]
             t == todo[p]
  <2>3. /\ <<s, "main">> \in Places
        /\ \A x \in Pieces : tree[s][x] # "missing" => tree'[s][x] # "missing"
    BY <2>2, PlaceNames DEF Kept
  <2> QED
    BY <2>1, <2>3 DEF Passed, Kept, Pieces
<1>2. Scaffolds(cmd[p], path[p])' => Scaffolds(cmd[p], path[p])
  BY DEF Scaffolds
<1> QED
  BY <1>1, <1>2 DEF PassedBy

(* A piece is passed only once it is there.                                *)
LEMMA PassesOne ==
  ASSUME TypeInv, Kept, NEW p \in Procs, PassedBy(p), pc[p] = "create", pc'[p] = "create",
         todo[p] # <<>>, todo'[p] = Tail(todo[p]), cmd'[p] = cmd[p], path'[p] = path[p],
         /\ Head(todo[p]) \in Pieces => tree'[path[p]][Head(todo[p])] # "missing"
         /\ Head(todo[p]) = "main" => conf'[<<path[p], "main">>] # Missing
  PROVE  PassedBy(p)'
<1>1. ASSUME Scaffolds(cmd[p], path[p])
      PROVE  Passed(path[p], todo[p])'
  <2> DEFINE s == path[p]
             t == todo[p]
  <2>1. Passed(s, t)
    BY <1>1 DEF PassedBy
  <2>2. s \in Stores /\ s # Clone /\ cmd[p].verb = "provider"
    BY <1>1 DEF TypeInv, ControlOK, Control, Scaffolds
  <2>3. t \in {<<"dir", "git", "ignore", "main">>, <<"git", "ignore", "main">>,
               <<"ignore", "main">>, <<"main">>}
    BY <2>2 DEF TypeInv, ControlOK, Control, ToCreate
  <2>4. \A x \in Pieces : tree[s][x] # "missing" => tree'[s][x] # "missing"
    BY <2>2 DEF Kept
  <2>5. /\ Head(<<"dir", "git", "ignore", "main">>) = "dir" /\ Head(<<"git", "ignore", "main">>) = "git"
        /\ Head(<<"ignore", "main">>) = "ignore" /\ Head(<<"main">>) = "main"
        /\ Tail(<<"dir", "git", "ignore", "main">>) = <<"git", "ignore", "main">>
        /\ Tail(<<"git", "ignore", "main">>) = <<"ignore", "main">>
        /\ Tail(<<"ignore", "main">>) = <<"main">> /\ Tail(<<"main">>) = <<>>
    OBVIOUS
  <2>6. /\ tree'[s]["dir"] # "missing"
        /\ Tail(t) \in {<<"ignore", "main">>, <<"main">>, <<>>} => tree'[s]["git"] # "missing"
        /\ Tail(t) \in {<<"main">>, <<>>} => tree'[s]["ignore"] # "missing"
        /\ Tail(t) = <<>> => conf'[<<s, "main">>] # Missing
        /\ Tail(t) \in {<<"git", "ignore", "main">>, <<"ignore", "main">>, <<"main">>, <<>>}
    <3>1. CASE t = <<"dir", "git", "ignore", "main">>
      BY <2>5, <3>1 DEF Pieces
    <3>2. CASE t = <<"git", "ignore", "main">>
      BY <2>1, <2>4, <2>5, <3>2 DEF Pieces, Passed
    <3>3. CASE t = <<"ignore", "main">>
      BY <2>1, <2>4, <2>5, <3>3 DEF Pieces, Passed
    <3>4. CASE t = <<"main">>
      BY <2>1, <2>4, <2>5, <3>4 DEF Pieces, Passed
    <3> QED
      BY <2>3, <3>1, <3>2, <3>3, <3>4
  <2> QED
    BY <2>6 DEF Passed
<1>2. Scaffolds(cmd[p], path[p])' => Scaffolds(cmd[p], path[p])
  BY DEF Scaffolds
<1> QED
  BY <1>1, <1>2 DEF PassedBy

LEMMA PassedSteps == TypeInv /\ PassedInv /\ SetupNext => PassedInv'
<1> SUFFICES ASSUME TypeInv, PassedInv, SetupNext PROVE PassedInv'
  OBVIOUS
<1>1. ProcsOK /\ ControlOK /\ Kept
  BY NothingIsLost DEF TypeInv
<1>2. ASSUME NEW q \in Procs, pc'[q] = pc[q], cmd'[q] = cmd[q], path'[q] = path[q], todo'[q] = todo[q]
      PROVE  PassedBy(q)'
  <2>1. CASE pc[q] \in {"idle", "start"}
    BY <1>2, <2>1 DEF PassedBy
  <2>2. CASE pc[q] \notin {"idle", "start"}
    BY <1>1, <1>2, <2>2, PassedByStays DEF PassedInv, PassedBy
  <2> QED
    BY <2>1, <2>2
<1>3. ASSUME NEW p \in Procs, Apart(p), PassedBy(p)' PROVE PassedInv'
  BY <1>2, <1>3 DEF Apart, PassedInv
<1>4. ASSUME NEW p \in Procs,
             pc'[p] \in {"idle", "start"} \/ cmd'[p].verb # "provider" \/ cmd'[p].dry
      PROVE  PassedBy(p)'
  BY <1>4 DEF PassedBy, Scaffolds
<1>5. ASSUME NEW p \in Procs, Idle(p) PROVE PassedBy(p)'
  BY <1>1, <1>4, <1>5 DEF Idle, ProcsOK
<1>6. ASSUME NEW p \in Procs, NEW c \in Invocations, Invoke(p, c) PROVE PassedBy(p)'
  BY <1>1, <1>4, <1>6 DEF Invoke, ProcsOK
<1>7. ASSUME NEW p \in Procs, StartProvider(p) PROVE PassedBy(p)'
  <2>1. CASE cmd[p].dry
    BY <1>1, <1>4, <1>7, <2>1 DEF StartProvider, Proceed
  <2>2. CASE ~cmd[p].dry
    <3>1. pc'[p] = "create" /\ todo'[p] = <<"dir", "git", "ignore", "main">>
      BY <1>1, <1>7, <2>2 DEF StartProvider, Proceed, ProcsOK, ControlOK, Control
    <3>2. /\ <<"dir", "git", "ignore", "main">> # <<>>
          /\ <<"dir", "git", "ignore", "main">> # <<"main">>
      OBVIOUS
    <3> QED
      BY <3>1, <3>2 DEF PassedBy, Passed
  <2> QED
    BY <2>1, <2>2
<1>8. ASSUME NEW p \in Procs,
             RunView(p) \/ StartWrite(p) \/ StartEdit(p) \/ StartInit(p) \/ StartApply(p) \/ SettleApply(p)
      PROVE  PassedBy(p)'
  <2>1. cmd[p].verb # "provider"
    BY <1>8 DEF RunView, StartWrite, StartEdit, StartInit, StartApply, SettleApply, Is
  <2>2. Idle(p) \/ cmd' = cmd
    BY <1>8 DEF RunView, StartWrite, StartEdit, StartInit, StartApply, SettleApply, End, Proceed
  <2> QED
    BY <1>4, <1>5, <2>1, <2>2
<1>9. ASSUME NEW p \in Procs, SkipPiece(p) \/ CreatePiece(p) \/ EndPiece(p) PROVE PassedBy(p)'
  <2>1. /\ PassedBy(p) /\ pc[p] = "create" /\ pc'[p] = "create" /\ todo[p] # <<>>
        /\ todo'[p] = Tail(todo[p]) /\ cmd'[p] = cmd[p] /\ path'[p] = path[p] /\ path[p] \in Stores
        /\ Head(todo[p]) \in {"dir", "git", "ignore", "main", "profile", "clone"}
    BY <1>1, <1>9, CreateSteps DEF PassedInv, SkipPiece, CreatePiece, EndPiece, NextPiece, ProcsOK, ControlOK, Control
  <2>2. /\ Head(todo[p]) \in Pieces => tree'[path[p]][Head(todo[p])] # "missing"
        /\ Head(todo[p]) = "main" => conf'[<<path[p], "main">>] # Missing
    <3>1. CASE SkipPiece(p)
      BY <3>1 DEF SkipPiece, There, disk, Pieces
    <3>2. CASE CreatePiece(p)
      <4>1. <<path[p], "main">> \in Places /\ Empty # Missing
        BY <2>1, PlaceNames, EmptyFits, MarkAssumption
      <4> QED
        BY <2>1, <3>2, <4>1 DEF CreatePiece, TypeInv, DiskOK, ConfOK, Pieces
    <3>3. CASE EndPiece(p)
      <4>1. Head(todo[p]) \in {"git", "ignore", "clone"}
        BY <1>1, <3>3 DEF EndPiece, ControlOK, Control
      <4> QED
        BY <2>1, <3>3, <4>1 DEF EndPiece, TypeInv, DiskOK, Pieces
    <3> QED
      BY <1>9, <3>1, <3>2, <3>3
  <2> QED
    BY <1>1, <2>1, <2>2, PassesOne
<1>10. ASSUME NEW p \in Procs, BeginPiece(p) PROVE PassedBy(p)'
  BY <1>2, <1>10 DEF BeginPiece
<1>11. ASSUME NEW p \in Procs, PieceFails(p) \/ KillCommand(p) \/ Handle(p) PROVE PassedBy(p)'
  BY <1>5, <1>11 DEF PieceFails, KillCommand, Handle, End
<1>12. ASSUME NEW p \in Procs, Created(p) PROVE PassedBy(p)'
  <2>1. CASE Idle(p)
    BY <1>5, <2>1
  <2>2. CASE ~Idle(p)
    <3>1. /\ PassedBy(p) /\ pc[p] = "create" /\ todo[p] = <<>>
          /\ todo'[p] = todo[p] /\ cmd'[p] = cmd[p] /\ path'[p] = path[p]
      BY <1>1, <1>12, <2>2 DEF Created, End, Proceed, ProcsOK, PassedInv
    <3> QED
      BY <1>1, <3>1, PassedByStays
  <2> QED
    BY <2>1, <2>2
<1>13. ASSUME NEW p \in Procs, CheckSeed(p) \/ ReadFile(p) \/ ReplaceFile(p) \/ ReplaceFails(p)
       PROVE  PassedBy(p)'
  <2>1. CASE Idle(p)
    BY <1>5, <2>1
  <2>2. CASE ~Idle(p)
    <3>1. /\ PassedBy(p) /\ pc[p] \in {"write", "replace"}
          /\ todo'[p] = todo[p] /\ cmd'[p] = cmd[p] /\ path'[p] = path[p]
      BY <1>1, <1>13, <2>2 DEF CheckSeed, ReadFile, ReplaceFile, ReplaceFails, End, PassedInv
    <3> QED
      BY <1>1, <3>1, PassedByStays
  <2> QED
    BY <2>1, <2>2
<1>14. ASSUME NEW p \in Procs, Written(p) PROVE PassedBy(p)'
  <2>1. CASE Idle(p)
    BY <1>5, <2>1
  <2>2. CASE cmd[p].verb = "provider" /\ Scaffolds(cmd[p], path[p])
    <3>1. PassedBy(p) /\ pc[p] = "write" /\ todo[p] = <<>>
      BY <1>14, <2>2 DEF Written, PassedInv, PassedBy
    <3>2. todo'[p] = todo[p] /\ cmd'[p] = cmd[p] /\ path'[p] = path[p]
      BY <1>1, <1>14, <2>2, <3>1 DEF Written, Proceed, ProcsOK
    <3> QED
      BY <1>1, <3>1, <3>2, PassedByStays
  <2>3. CASE ~Idle(p) /\ ~Scaffolds(cmd[p], path[p])
    <3>1. cmd'[p] = cmd[p] /\ path'[p] = path[p]
      BY <1>1, <1>14, <2>3 DEF Written, Proceed, End, ProcsOK
    <3> QED
      BY <2>3, <3>1 DEF PassedBy, Scaffolds
  <2> QED
    BY <2>1, <2>2, <2>3 DEF Scaffolds
<1>15. ASSUME NEW e \in Edits, EditByHand(e) PROVE PassedInv'
  BY <1>2, <1>15 DEF EditByHand, proc, PassedInv
<1>16. ASSUME NEW p \in Procs, Starts(p) \/ Steps(p) \/ KillCommand(p) PROVE PassedInv'
  <2>1. Apart(p)
    BY <1>16, ActsApart
  <2> QED
    BY <1>3, <1>7, <1>8, <1>9, <1>10, <1>11, <1>12, <1>13, <1>14, <1>16, <2>1 DEF Starts, Steps
<1>17. ASSUME NEW p \in Procs, NEW c \in Invocations, Invoke(p, c) PROVE PassedInv'
  BY <1>3, <1>6, <1>17, ActsApart, InvocationAssumption
<1> QED
  BY <1>15, <1>16, <1>17 DEF SetupNext

(* What the command that ended last has made stays.                        *)
LEMMA LastSteps == TypeInv /\ PassedInv /\ LastPassed /\ SetupNext => LastPassed'
<1> SUFFICES ASSUME TypeInv, PassedInv, LastPassed, SetupNext PROVE LastPassed'
  OBVIOUS
<1>1. ProcsOK /\ ControlOK /\ Kept /\ LastOK
  BY NothingIsLost DEF TypeInv
<1>2. ASSUME last' = last PROVE LastPassed'
  BY <1>1, <1>2, PassedStays DEF LastPassed, LastOK, Scaffolds
<1>3. ASSUME ~last'.ok \/ last'.cmd.verb # "provider" PROVE LastPassed'
  BY <1>3 DEF LastPassed, Scaffolds
<1>4. ASSUME NEW p \in Procs, last' = last \/ ~last'.ok \/ (last'.cmd = cmd[p] /\ cmd[p].verb # "provider")
      PROVE  LastPassed'
  BY <1>2, <1>3, <1>4
<1>5. ASSUME NEW p \in Procs, NEW c \in Invocations, Invoke(p, c) PROVE LastPassed'
  BY <1>3, <1>5 DEF Invoke, NoneYet
<1>6. ASSUME NEW p \in Procs, Handle(p) PROVE LastPassed'
  <2>1. CASE End(p, FALSE, None)
    BY <1>4, <2>1 DEF End
  <2>2. CASE End(p, TRUE, path[p])
    <3>1. last' = [cmd |-> cmd[p], ok |-> TRUE, store |-> path[p]]
      BY <2>2 DEF End
    <3>2. CASE Scaffolds(cmd[p], path[p])
      <4>1. Passed(path[p], <<>>)
        BY <1>6, <3>2 DEF Handle, Is, PassedInv, PassedBy
      <4>2. PICK s \in Stores : s = path[p]
        BY <1>1, <1>6, <3>2 DEF Handle, Is, ControlOK, Control
      <4>3. Passed(s, <<>>)'
        BY <1>1, <3>2, <4>1, <4>2, PassedStays DEF Scaffolds
      <4> QED
        BY <3>1, <4>2, <4>3 DEF LastPassed, Passed
    <3>3. CASE ~Scaffolds(cmd[p], path[p])
      BY <3>1, <3>3 DEF LastPassed, Scaffolds
    <3> QED
      BY <3>2, <3>3
  <2> QED
    BY <1>6, <2>1, <2>2 DEF Handle
<1>7. ASSUME NEW p \in Procs,
             RunView(p) \/ StartWrite(p) \/ StartEdit(p) \/ StartInit(p) \/ StartApply(p) \/ SettleApply(p)
      PROVE  LastPassed'
  <2>1. cmd[p].verb # "provider"
    BY <1>7 DEF RunView, StartWrite, StartEdit, StartInit, StartApply, SettleApply, Is
  <2>2. /\ \A ok, s : End(p, ok, s) => last'.cmd = cmd[p]
        /\ \A at, s, tag, t, w : Proceed(p, at, s, tag, t, w) => last' = last
    BY DEF End, Proceed
  <2>3. last' = last \/ last'.cmd = cmd[p]
    BY <1>7, <2>2, Zenon DEF RunView, StartWrite, StartEdit, StartInit, StartApply, SettleApply
  <2> QED
    BY <1>4, <2>1, <2>3
<1>8. ASSUME NEW p \in Procs,
             \/ StartProvider(p) \/ SkipPiece(p) \/ CreatePiece(p) \/ BeginPiece(p) \/ EndPiece(p)
             \/ PieceFails(p) \/ CheckSeed(p) \/ ReplaceFile(p) \/ KillCommand(p)
      PROVE  LastPassed'
  <2>1. last' = last \/ ~last'.ok
    BY <1>8 DEF StartProvider, SkipPiece, CreatePiece, BeginPiece, EndPiece, PieceFails, CheckSeed,
                ReplaceFile, KillCommand, Proceed
  <2> QED
    BY <1>4, <2>1
<1>9. ASSUME NEW p \in Procs, Created(p) \/ ReadFile(p) \/ ReplaceFails(p) \/ Written(p)
      PROVE  LastPassed'
  <2>1. last' = last \/ ~last'.ok \/ (last'.cmd = cmd[p] /\ cmd[p].verb # "provider")
    <3>1. CASE Created(p)
      BY <3>1 DEF Created, End, Proceed
    <3>2. CASE ReadFile(p)
      BY <3>2 DEF ReadFile, End
    <3>3. CASE ReplaceFails(p)
      BY <3>3 DEF ReplaceFails, End
    <3>4. CASE Written(p)
      BY <3>4 DEF Written, End, Proceed
    <3> QED
      BY <1>9, <3>1, <3>2, <3>3, <3>4
  <2> QED
    BY <1>4, <2>1
<1>10. ASSUME NEW e \in Edits, EditByHand(e) PROVE LastPassed'
  BY <1>2, <1>10 DEF EditByHand
<1> QED
  BY <1>5, <1>6, <1>7, <1>8, <1>9, <1>10 DEF SetupNext, Starts, Steps

LEMMA WholeStill == WholeInv /\ UNCHANGED setupVars => WholeInv'
BY DEF WholeInv, PartInv, PassedInv, PassedBy, Passed, LastPassed, setupVars, disk, proc, ghost

LEMMA WholeInit == SetupInit => WholeInv
<1> SUFFICES ASSUME SetupInit PROVE WholeInv
  OBVIOUS
<1>1. PartInv
  BY DEF SetupInit, PartInv
<1>2. PassedInv
  BY DEF SetupInit, PassedInv, PassedBy
<1>3. LastPassed
  BY DEF SetupInit, NoneYet, LastPassed
<1> QED
  BY <1>1, <1>2, <1>3 DEF WholeInv

(* Whatever was killed or failed before and whoever else creates the same  *)
(* store, a provider command that ends well leaves every piece of it in    *)
(* place: done, still being made by another, or torn by one that is gone.  *)
THEOREM ScaffoldIsWhole == SetupSpec => []StoreIsWhole
<1>1. TypeInv /\ WholeInv /\ [SetupNext]_setupVars => WholeInv'
  BY WholeStill, PartSteps, PassedSteps, LastSteps DEF WholeInv
<1>2. TypeInv /\ WholeInv => StoreIsWhole
  BY WholeMeans
<1> QED
  BY <1>1, <1>2, WholeInit, TypeAlways, PTL DEF SetupSpec

-----------------------------------------------------------------------------
(* A provider command that nothing disturbs settles the configuration.     *)

Seeds(w, k, v) == w.place = Global /\ w.key = k /\ w.value = v
SeedsBoth(q) == Len(q) = 2 /\ Seeds(q[1], "profile_tag", DefaultTag) /\ Seeds(q[2], "machine_id", Machine)
SeedsMachine(q) == Len(q) = 1 /\ Seeds(q[1], "machine_id", Machine)

PointsTo(s) == conf[Global] = Broken \/ (conf[Global] \in Contents /\ conf[Global]["store_path"] = s)
HasKey(k) == Fails(None) \/ Base[k] # None
Settled(s) == PointsTo(s) /\ HasKey("profile_tag") /\ HasKey("machine_id")

(* How far the writes of a scaffold have come, and what they have done.    *)
StageOf(q, s) ==
  \/ q = Scaffold(s)
  \/ SeedsBoth(q) /\ PointsTo(s)
  \/ SeedsMachine(q) /\ PointsTo(s) /\ HasKey("profile_tag")
  \/ q = <<>> /\ Settled(s)
Stage(p) == StageOf(writes[p], path[p])

SettlingBy(p) ==
  undisturbed[p] /\ cmd[p].verb = "provider" /\ ~cmd[p].dry =>
    /\ pc[p] = "create" => writes[p] = Scaffold(path[p])
    /\ pc[p] \in {"write", "replace"} => Stage(p)
    /\ pc[p] = "replace" =>
         LET w == Head(writes[p])
         IN ~w.seed /\ conf[Global] # Broken /\ buf[p] = [Of(conf[Global]) EXCEPT ![w.key] = w.value]
    /\ pc[p] = "handle" => Settled(path[p])

SettlingInv == undisturbed \in [Procs -> BOOLEAN] /\ \A p \in Procs : SettlingBy(p)

(* A key written to the global file is there for every command, and takes  *)
(* the profile or the machine from no other.                               *)
LEMMA KeyWritten ==
  ASSUME ConfOK, conf[Global] # Broken, NEW k \in Keys, NEW v \in ValuesOf(k), None \notin ValuesOf(k),
         conf' = [conf EXCEPT ![Global] = [Of(conf[Global]) EXCEPT ![k] = v]]
  PROVE  /\ k = "store_path" => PointsTo(v)'
         /\ k # "store_path" => /\ HasKey(k)'
                                /\ \A s \in Stores : PointsTo(s) => PointsTo(s)'
                                /\ \A l \in {"profile_tag", "machine_id"} : HasKey(l) => HasKey(l)'
<1> DEFINE g == Of(conf[Global])
           new == [g EXCEPT ![k] = v]
<1>1. Global \in Places /\ GlobalLocal \in Places /\ Global # GlobalLocal
  BY PlaceNames
<1>2. g \in Contents
  BY <1>1, OfFits DEF ConfOK
<1>3. new \in Contents /\ \A l \in Keys : new[l] = IF l = k THEN v ELSE g[l]
  BY <1>2, SetFits
<1>4. conf'[Global] = new /\ conf'[GlobalLocal] = conf[GlobalLocal] /\ ConfOK'
  BY <1>1, <1>3 DEF ConfOK
<1>5. new # Broken /\ new # Missing
  BY <1>3, MarkAssumption
<1> HIDE DEF new, g
<1>6. {"store_path", "profile_tag", "machine_id"} \subseteq Keys
  BY DEF Keys
<1>7. k = "store_path" => PointsTo(v)'
  BY <1>3, <1>4, <1>6 DEF PointsTo
<1>8. ASSUME ~GlobalBroken
      PROVE  /\ ~GlobalBroken'
             /\ \A l \in Keys : Base'[l] = IF l = k THEN (IF Of(conf[GlobalLocal])[l] # None
                                                         THEN Of(conf[GlobalLocal])[l] ELSE v)
                                           ELSE Base[l]
  <2>1. ~GlobalBroken'
    BY <1>4, <1>5, <1>8 DEF GlobalBroken
  <2>2. \A l \in Keys : Base[l] = IF Of(conf[GlobalLocal])[l] # None THEN Of(conf[GlobalLocal])[l] ELSE g[l]
    BY <1>8, BaseFits DEF g
  <2>3. Of(conf'[Global]) = new
    BY <1>4, <1>5 DEF Of
  <2>4. Of(conf[GlobalLocal]) \in Contents
    BY <1>8, BaseFits
  <2>5. Base' = Overlay(new, Of(conf[GlobalLocal]))
    BY <1>4, <2>3 DEF Base
  <2>6. \A l \in Keys : Base'[l] = IF Of(conf[GlobalLocal])[l] # None THEN Of(conf[GlobalLocal])[l] ELSE new[l]
    BY <1>3, <2>4, <2>5, OverlayFits
  <2> QED
    BY <1>3, <2>1, <2>2, <2>6
<1>9. ASSUME k # "store_path"
      PROVE  /\ HasKey(k)'
             /\ \A s \in Stores : PointsTo(s) => PointsTo(s)'
             /\ \A l \in {"profile_tag", "machine_id"} : HasKey(l) => HasKey(l)'
  <2>1. GlobalBroken => GlobalBroken'
    BY <1>1, <1>4 DEF GlobalBroken
  <2>2. HasKey(k)'
    <3>1. GlobalBroken' => Fails(None)'
      BY DEF Fails
    <3>2. ~GlobalBroken => Base'[k] # None
      BY <1>8
    <3> QED
      BY <2>1, <3>1, <3>2 DEF HasKey
  <2>3. ASSUME NEW s \in Stores, PointsTo(s) PROVE PointsTo(s)'
    <3>1. g["store_path"] = s
      BY <2>3, MarkAssumption DEF PointsTo, g, Of
    <3>2. new["store_path"] = s
      BY <1>3, <1>6, <1>9, <3>1
    <3> QED
      BY <1>3, <1>4, <3>2 DEF PointsTo
  <2>4. Fails(None) => Fails(None)'
    <3>1. CASE GlobalBroken
      BY <2>1, <3>1 DEF Fails
    <3>2. CASE ~GlobalBroken
      <4>1. Base'["store_path"] = Base["store_path"] /\ Base["store_path"] \in Stores \cup {None}
        BY <1>6, <1>8, <1>9, <3>2, BaseFits, KeyTypes
      <4>2. ASSUME NEW h \in Stores PROVE StoreBroken(h)' <=> StoreBroken(h)
        <5>1. conf'[<<h, "main">>] = conf[<<h, "main">>] /\ conf'[<<h, "local">>] = conf[<<h, "local">>]
          BY PlaceNames DEF ConfOK
        <5> QED
          BY <5>1 DEF StoreBroken
      <4>3. Home(None)' = Home(None)
        BY <4>1 DEF Home
      <4> QED
        BY <3>2, <4>1, <4>2, <4>3 DEF Fails, Home
    <3> QED
      BY <3>1, <3>2
  <2>5. ASSUME NEW l \in {"profile_tag", "machine_id"}, HasKey(l) PROVE HasKey(l)'
    <3>1. CASE Fails(None)
      BY <2>4, <3>1 DEF HasKey
    <3>2. CASE ~Fails(None)
      BY <1>6, <1>8, <2>5, <3>2 DEF HasKey, Fails
    <3> QED
      BY <3>1, <3>2
  <2> QED
    BY <2>2, <2>3, <2>5
<1> QED
  BY <1>7, <1>9

(* What an undisturbed command has settled is what everybody loads.        *)
LEMMA SettledLoads ==
  ASSUME ConfOK, NEW s \in Stores, Settled(s), Load(None, None) # Failed,
         \A f \in Places \ {Global} : conf[f] = Broken \/ Of(conf[f])["store_path"] \in {None, s}
  PROVE  LET cfg == Load(None, None)
         IN cfg["profile_tag"] # None /\ cfg["machine_id"] # None /\ cfg["store_path"] = s
<1>1. ~Fails(None) /\ ~GlobalBroken /\ None \in Stores \cup {None} /\ None \in Tags \cup {None}
  BY Loads DEF Fails
<1>2. /\ Load(None, None)["profile_tag"] = Base["profile_tag"]
      /\ Load(None, None)["machine_id"] = Base["machine_id"]
  BY <1>1, Loads
<1>3. Base["profile_tag"] # None /\ Base["machine_id"] # None
  BY <1>1 DEF Settled, HasKey
<1>4. /\ Of(conf[Global])["store_path"] = s /\ s # None
      /\ Of(conf[GlobalLocal])["store_path"] \in {None, s}
  BY <1>1, PlaceNames, MarkAssumption, StoreAssumption DEF GlobalBroken, Settled, PointsTo, Of
<1>5. Home(None) = s
  <2>1. "store_path" \in Keys
    BY DEF Keys
  <2> QED
    BY <1>1, <1>4, <2>1, BaseFits DEF Home
<1>6. conf[<<s, "main">>] # Broken /\ conf[<<s, "local">>] # Broken
  BY <1>1, <1>4, <1>5 DEF Fails, StoreBroken
<1>7. Of(conf[<<s, "main">>])["store_path"] \in {None, s} /\ Of(conf[<<s, "local">>])["store_path"] \in {None, s}
  BY <1>6, PlaceNames
<1>8. Load(None, None)["store_path"] = s
  BY <1>1, <1>4, <1>5, <1>7, Loads
<1> QED
  BY <1>2, <1>3, <1>8

(* Every step disturbs all commands but its own.                           *)
OnlyMine(p) ==
  /\ undisturbed' \in [Procs -> BOOLEAN]
  /\ \A q \in Procs \ {p} : ~undisturbed'[q]
  /\ undisturbed'[p] => undisturbed[p] \/ pc'[p] = "start"

LEMMA StepsDisturb ==
  ASSUME TypeInv, undisturbed \in [Procs -> BOOLEAN], NEW p \in Procs,
         Starts(p) \/ Steps(p) \/ KillCommand(p) \/ \E c \in CommandLines : Invoke(p, c)
  PROVE  OnlyMine(p)
<1>1. Disturb(p) => OnlyMine(p)
  BY DEF Disturb, OnlyMine
<1>2. undisturbed' = [q \in Procs |-> FALSE] => OnlyMine(p)
  BY DEF OnlyMine
<1>3. /\ \A ok, s : End(p, ok, s) => OnlyMine(p)
      /\ \A at, s, tag, t, w : Proceed(p, at, s, tag, t, w) => OnlyMine(p)
      /\ Idle(p) => OnlyMine(p)
  BY <1>1, <1>2 DEF End, Idle, Proceed
<1>4. CASE Starts(p) \/ SettleApply(p) \/ Created(p) \/ Written(p) \/ Handle(p)
  BY <1>3, <1>4, Zenon DEF Starts, StartProvider, RunView, StartWrite, StartEdit, StartInit, StartApply,
                           SettleApply, Created, Written, Handle
<1>5. CASE SkipPiece(p) \/ CreatePiece(p) \/ BeginPiece(p) \/ EndPiece(p) \/ CheckSeed(p) \/ ReplaceFile(p)
  BY <1>1, <1>5 DEF SkipPiece, CreatePiece, BeginPiece, EndPiece, CheckSeed, ReplaceFile
<1>6. CASE PieceFails(p) \/ KillCommand(p)
  BY <1>3, <1>6 DEF PieceFails, KillCommand
<1>7. CASE ReadFile(p)
  BY <1>1, <1>3, <1>7 DEF ReadFile
<1>8. CASE ReplaceFails(p)
  BY <1>2, <1>3, <1>8 DEF ReplaceFails
<1>9. CASE \E c \in CommandLines : Invoke(p, c)
  <2>1. /\ undisturbed' = [q \in Procs |-> q = p /\ \A o \in Procs \ {p} : pc[o] = "idle"]
        /\ pc' = [pc EXCEPT ![p] = "start"]
    BY <1>9 DEF Invoke
  <2>2. pc'[p] = "start"
    BY <2>1 DEF TypeInv, ProcsOK
  <2> QED
    BY <2>1, <2>2 DEF OnlyMine
<1> QED
  BY <1>4, <1>5, <1>6, <1>7, <1>8, <1>9 DEF Steps

(* The writes of a scaffold, one after the other.                          *)
LEMMA ScaffoldList ==
  ASSUME NEW s \in Stores
  PROVE  /\ Scaffold(s) # <<>> /\ Head(Scaffold(s)) = Write(Global, "store_path", s, FALSE)
         /\ SeedsBoth(Tail(Scaffold(s)))
<1> DEFINE w1 == Write(Global, "store_path", s, FALSE)
           w2 == Write(Global, "profile_tag", DefaultTag, TRUE)
           w3 == Write(Global, "machine_id", Machine, TRUE)
<1>1. Seeds(w2, "profile_tag", DefaultTag) /\ Seeds(w3, "machine_id", Machine)
  BY DEF Write, Seeds
<1>2. Scaffold(s) = <<w1, w2, w3>>
  BY DEF Scaffold
<1> HIDE DEF w1, w2, w3
<1>3. /\ Scaffold(s) # <<>> /\ Head(Scaffold(s)) = w1 /\ Tail(Scaffold(s)) = <<w2, w3>>
  BY <1>2
<1>4. SeedsBoth(<<w2, w3>>)
  BY <1>1 DEF SeedsBoth
<1> QED
  BY <1>3, <1>4 DEF w1

LEMMA SeedLists ==
  ASSUME NEW q \in Seq(OneWrite), SeedsBoth(q) \/ SeedsMachine(q)
  PROVE  /\ q # <<>>
         /\ SeedsBoth(q) => /\ Seeds(Head(q), "profile_tag", DefaultTag) /\ SeedsMachine(Tail(q))
                            /\ SeedsBoth([q EXCEPT ![1].seed = FALSE])
         /\ SeedsMachine(q) => /\ Seeds(Head(q), "machine_id", Machine) /\ Tail(q) = <<>>
                               /\ SeedsMachine([q EXCEPT ![1].seed = FALSE])
<1> DEFINE r == [q EXCEPT ![1].seed = FALSE]
<1>1. Len(q) \in {1, 2} /\ Len(q) \in Nat /\ DOMAIN q = 1..Len(q) /\ 1 \in DOMAIN q
  BY DEF SeedsBoth, SeedsMachine
<1>2. q # <<>> /\ Head(q) = q[1]
  BY <1>1
<1>3. Tail(q) \in Seq(OneWrite) /\ Len(Tail(q)) = Len(q) - 1
  BY <1>1, <1>2
<1>4. Len(q) = 2 => Len(Tail(q)) = 1 /\ Tail(q)[1] = q[2]
  BY <1>1, <1>2, <1>3
<1>5. Len(q) = 1 => Tail(q) = <<>>
  <2> DEFINE t == Tail(q)
  <2>1. t \in Seq(OneWrite) /\ (Len(q) = 1 => Len(t) = 0)
    BY <1>3
  <2> HIDE DEF t
  <2>2. Len(q) = 1 => t = <<>>
    BY <2>1
  <2> QED
    BY <2>2 DEF t
<1>6. q[1] \in [place : Places, key : Keys, value : Values, seed : BOOLEAN]
  BY <1>1 DEF OneWrite
<1>7. r = [q EXCEPT ![1] = [q[1] EXCEPT !.seed = FALSE]]
  OBVIOUS
<1>8. r \in Seq(OneWrite)
  BY <1>2, WriteSteps
<1>9. DOMAIN r = DOMAIN q /\ r[1] = [q[1] EXCEPT !.seed = FALSE] /\ (Len(q) = 2 => r[2] = q[2])
  BY <1>1, <1>7
<1>10. Len(r) = Len(q)
  BY <1>1, <1>8, <1>9
<1>11. \A k, v : Seeds(q[1], k, v) => Seeds(r[1], k, v)
  BY <1>6, <1>9 DEF Seeds
<1> HIDE DEF r
<1>12. SeedsBoth(q) => Seeds(Head(q), "profile_tag", DefaultTag) /\ SeedsMachine(Tail(q))
  BY <1>2, <1>4 DEF SeedsBoth, SeedsMachine
<1>13. SeedsBoth(q) => SeedsBoth(r)
  BY <1>1, <1>9, <1>10, <1>11 DEF SeedsBoth
<1>14. SeedsMachine(q) => Seeds(Head(q), "machine_id", Machine) /\ Tail(q) = <<>> /\ SeedsMachine(r)
  BY <1>2, <1>5, <1>10, <1>11 DEF SeedsMachine
<1> QED
  BY <1>2, <1>12, <1>13, <1>14 DEF r

LEMMA SameFiles ==
  ASSUME UNCHANGED conf, NEW k, NEW s
  PROVE  (HasKey(k)' <=> HasKey(k)) /\ (PointsTo(s)' <=> PointsTo(s)) /\ (Settled(s)' <=> Settled(s))
BY DEF HasKey, PointsTo, Settled, Fails, GlobalBroken, StoreBroken, Home, Base

LEMMA BrokenSettles == conf[Global] = Broken => \A s : Settled(s)
BY DEF Settled, PointsTo, HasKey, Fails, GlobalBroken

(* A key is seeded only when no file that loads has it.                    *)
LEMMA SeedFound ==
  ASSUME ConfOK, NEW k \in {"profile_tag", "machine_id"},
         Load(None, None) # Failed, Load(None, None)[k] # None
  PROVE  HasKey(k)
<1>1. None \in Stores \cup {None} /\ None \in Tags \cup {None}
  OBVIOUS
<1> QED
  BY <1>1, Loads DEF HasKey

(* What the head of the writes is at each stage.                           *)
LEMMA StageHeads ==
  ASSUME TypeInv, NEW p \in Procs, cmd[p].verb = "provider", pc[p] \in {"write", "replace"},
         Stage(p), writes[p] # <<>>
  PROVE  LET w == Head(writes[p])
         IN /\ w.place = Global /\ w.key \in Keys /\ w.value \in ValuesOf(w.key) /\ None \notin ValuesOf(w.key)
            /\ \/ /\ writes[p] = Scaffold(path[p]) /\ w.key = "store_path" /\ w.value = path[p] /\ ~w.seed
                  /\ SeedsBoth(Tail(writes[p]))
               \/ SeedsBoth(writes[p]) /\ PointsTo(path[p]) /\ w.key = "profile_tag" /\ SeedsMachine(Tail(writes[p]))
               \/ /\ SeedsMachine(writes[p]) /\ PointsTo(path[p]) /\ HasKey("profile_tag")
                  /\ w.key = "machine_id" /\ Tail(writes[p]) = <<>>
<1>1. path[p] \in Stores /\ writes[p] \in Seq(OneWrite)
  BY DEF TypeInv, ControlOK, Control, ProcsOK
<1>2. /\ ValuesOf("store_path") = Stores /\ ValuesOf("profile_tag") = Tags /\ ValuesOf("machine_id") = Machines
      /\ {"store_path", "profile_tag", "machine_id"} \subseteq Keys
  BY DEF ValuesOf, Keys
<1>3. None \notin Stores \cup Tags \cup Machines /\ DefaultTag \in Tags /\ Machine \in Machines
  BY StoreAssumption, TagAssumption, MachineAssumption
<1>4. CASE writes[p] = Scaffold(path[p])
  <2>1. Head(writes[p]) = Write(Global, "store_path", path[p], FALSE) /\ SeedsBoth(Tail(writes[p]))
    BY <1>1, <1>4, ScaffoldList
  <2>2. /\ Head(writes[p]).place = Global /\ Head(writes[p]).key = "store_path"
        /\ Head(writes[p]).value = path[p] /\ ~Head(writes[p]).seed
    BY <2>1 DEF Write
  <2> QED
    BY <1>1, <1>2, <1>3, <1>4, <2>1, <2>2
<1>5. CASE SeedsBoth(writes[p]) /\ PointsTo(path[p])
  <2>1. Seeds(Head(writes[p]), "profile_tag", DefaultTag) /\ SeedsMachine(Tail(writes[p]))
    BY <1>1, <1>5, SeedLists
  <2> QED
    BY <1>2, <1>3, <1>5, <2>1 DEF Seeds
<1>6. CASE SeedsMachine(writes[p]) /\ PointsTo(path[p]) /\ HasKey("profile_tag")
  <2>1. Seeds(Head(writes[p]), "machine_id", Machine) /\ Tail(writes[p]) = <<>>
    BY <1>1, <1>6, SeedLists
  <2> QED
    BY <1>2, <1>3, <1>6, <2>1 DEF Seeds
<1> QED
  BY <1>4, <1>5, <1>6 DEF Stage, StageOf

(* A seed that is not needed, a seed that is, a file that is read.         *)
LEMMA SettlingReads ==
  ASSUME TypeInv, SettlingInv, NEW p \in Procs, CheckSeed(p) \/ ReadFile(p),
         undisturbed[p], cmd[p].verb = "provider", ~cmd[p].dry
  PROVE  /\ pc'[p] \in {"write", "replace"} /\ Stage(p)'
         /\ (pc[p] = "replace" =>
               LET w == Head(writes[p])
               IN ~w.seed /\ conf[Global] # Broken /\ buf[p] = [Of(conf[Global]) EXCEPT ![w.key] = w.value])'
<1> DEFINE q == writes[p]
           w == Head(q)
<1>1. ProcsOK /\ ControlOK /\ ConfOK /\ q \in Seq(OneWrite)
  BY DEF TypeInv, DiskOK, ProcsOK
<1>2. pc[p] = "write" /\ q # <<>> /\ Stage(p)
  BY DEF CheckSeed, ReadFile, SettlingInv, SettlingBy
<1>3. PICK s \in Stores : s = path[p]
  BY <1>1, <1>2 DEF ControlOK, Control
<1>4. /\ w.place = Global /\ w.key \in Keys /\ w.value \in ValuesOf(w.key) /\ None \notin ValuesOf(w.key)
      /\ \/ /\ q = Scaffold(s) /\ w.key = "store_path" /\ w.value = s /\ ~w.seed
            /\ SeedsBoth(Tail(q))
         \/ SeedsBoth(q) /\ PointsTo(s) /\ w.key = "profile_tag" /\ SeedsMachine(Tail(q))
         \/ /\ SeedsMachine(q) /\ PointsTo(s) /\ HasKey("profile_tag")
            /\ w.key = "machine_id" /\ Tail(q) = <<>>
  BY <1>2, <1>3, StageHeads
<1>5. UNCHANGED conf /\ path' = path /\ cmd' = cmd
  BY DEF CheckSeed, ReadFile, End, BestEffort, disk
<1>6. ASSUME NEW r, writes'[p] = r, StageOf(r, s) PROVE Stage(p)'
  <2>1. StageOf(r, s)'
    BY <1>5, <1>6, SameFiles DEF StageOf
  <2> QED
    BY <1>3, <1>5, <1>6, <2>1 DEF Stage, StageOf
<1>7. CASE CheckSeed(p)
  <2>1. pc'[p] = "write" /\ w.seed
    BY <1>2, <1>7 DEF CheckSeed
  <2>2. CASE Load(None, None) # Failed /\ Load(None, None)[w.key] # None
    <3>1. writes'[p] = Tail(q)
      BY <1>1, <1>7, <2>2 DEF CheckSeed, NextWrite, ProcsOK
    <3>2. w.key \in {"profile_tag", "machine_id"} => HasKey(w.key)
      BY <1>1, <2>2, SeedFound
    <3> HIDE DEF w, q
    <3>3. StageOf(Tail(q), s)
      BY <1>4, <2>1, <3>2 DEF StageOf, Settled
    <3> QED
      BY <1>6, <2>1, <3>1, <3>3
  <2>3. CASE ~(Load(None, None) # Failed /\ Load(None, None)[w.key] # None)
    <3> DEFINE r == [q EXCEPT ![1].seed = FALSE]
    <3>1. writes'[p] = r
      BY <1>1, <1>7, <2>3 DEF CheckSeed, ProcsOK
    <3>2. SeedsBoth(q) => SeedsBoth(r)
      BY <1>1, SeedLists
    <3>3. SeedsMachine(q) => SeedsMachine(r)
      BY <1>1, SeedLists
    <3> HIDE DEF w, q, r
    <3>4. StageOf(r, s)
      BY <1>4, <2>1, <3>2, <3>3 DEF StageOf
    <3> QED
      BY <1>6, <2>1, <3>1, <3>4
  <2> QED
    BY <2>2, <2>3
<1>8. CASE ReadFile(p)
  <2>1. BestEffort(p) /\ cmd[p].verb # "unset" /\ ~w.seed
    BY <1>8 DEF BestEffort, ReadFile
  <2>2. CASE conf[Global] = Broken
    <3>1. pc'[p] = "write" /\ writes'[p] = Tail(q)
      BY <1>1, <1>2, <1>4, <1>8, <2>1, <2>2 DEF ReadFile, NextWrite, ProcsOK
    <3>2. Settled(s)
      BY <2>2, BrokenSettles
    <3> HIDE DEF w, q
    <3>3. StageOf(Tail(q), s)
      BY <1>4, <3>2 DEF StageOf, Settled
    <3> QED
      BY <1>6, <3>1, <3>3
  <2>3. CASE conf[Global] # Broken
    <3>1. /\ pc' = [pc EXCEPT ![p] = "replace"] /\ writes' = writes
          /\ buf' = [buf EXCEPT ![p] = [Of(conf[w.place]) EXCEPT ![w.key] = w.value]]
      BY <1>4, <1>8, <2>1, <2>3 DEF ReadFile
    <3>2. Stage(p)'
      BY <1>2, <1>3, <1>6, <3>1 DEF Stage
    <3>3. pc'[p] = "replace" /\ buf'[p] = [Of(conf[Global]) EXCEPT ![w.key] = w.value]
      BY <1>1, <1>4, <3>1 DEF ProcsOK
    <3> QED
      BY <1>5, <2>1, <2>3, <3>1, <3>2, <3>3
  <2> QED
    BY <2>2, <2>3
<1> QED
  BY <1>7, <1>8

(* The key is in the file, and those before it still are.                  *)
LEMMA SettlingReplaces ==
  ASSUME TypeInv, SettlingInv, NEW p \in Procs, ReplaceFile(p),
         undisturbed[p], cmd[p].verb = "provider", ~cmd[p].dry
  PROVE  pc'[p] = "write" /\ Stage(p)'
<1> DEFINE q == writes[p]
           w == Head(q)
<1>1. ProcsOK /\ ControlOK /\ ConfOK
  BY DEF TypeInv, DiskOK
<1>2. /\ pc[p] = "replace" /\ q # <<>> /\ Stage(p) /\ conf[Global] # Broken
      /\ buf[p] = [Of(conf[Global]) EXCEPT ![w.key] = w.value]
  BY <1>1 DEF ReplaceFile, SettlingInv, SettlingBy, ControlOK, Control
<1>3. PICK s \in Stores : s = path[p]
  BY <1>1, <1>2 DEF ControlOK, Control
<1>4. /\ w.place = Global /\ w.key \in Keys /\ w.value \in ValuesOf(w.key) /\ None \notin ValuesOf(w.key)
      /\ \/ /\ q = Scaffold(s) /\ w.key = "store_path" /\ w.value = s /\ ~w.seed
            /\ SeedsBoth(Tail(q))
         \/ SeedsBoth(q) /\ PointsTo(s) /\ w.key = "profile_tag" /\ SeedsMachine(Tail(q))
         \/ /\ SeedsMachine(q) /\ PointsTo(s) /\ HasKey("profile_tag")
            /\ w.key = "machine_id" /\ Tail(q) = <<>>
  BY <1>2, <1>3, StageHeads
<1>5. /\ conf' = [conf EXCEPT ![Global] = [Of(conf[Global]) EXCEPT ![w.key] = w.value]]
      /\ path' = path /\ pc'[p] = "write" /\ writes'[p] = Tail(q)
  BY <1>1, <1>2, <1>4 DEF ReplaceFile, NextWrite, ProcsOK
<1> HIDE DEF w, q
<1>6. PICK k, v, r : k = w.key /\ v = w.value /\ r = Tail(q)
  OBVIOUS
<1>10. k \in Keys /\ v \in ValuesOf(k) /\ None \notin ValuesOf(k)
  BY <1>4, <1>6
<1>7. /\ k = "store_path" => PointsTo(v)'
      /\ k # "store_path" => /\ HasKey(k)'
                             /\ \A t \in Stores : PointsTo(t) => PointsTo(t)'
                             /\ \A l \in {"profile_tag", "machine_id"} : HasKey(l) => HasKey(l)'
  BY <1>1, <1>2, <1>5, <1>6, <1>10, KeyWritten
<1>8. \/ k = "store_path" /\ v = s /\ SeedsBoth(r)
      \/ k = "profile_tag" /\ PointsTo(s) /\ SeedsMachine(r)
      \/ k = "machine_id" /\ PointsTo(s) /\ HasKey("profile_tag") /\ r = <<>>
  BY <1>4, <1>6
<1>9. StageOf(r, s)'
  <2>1. CASE k = "store_path"
    BY <1>7, <1>8, <2>1 DEF StageOf
  <2>2. CASE k = "profile_tag"
    BY <1>7, <1>8, <2>2 DEF StageOf
  <2>3. CASE k = "machine_id"
    BY <1>7, <1>8, <2>3 DEF StageOf, Settled
  <2> QED
    BY <1>8, <2>1, <2>2, <2>3
<1> QED
  BY <1>3, <1>5, <1>6, <1>9 DEF Stage, StageOf

LEMMA SettlingSteps == TypeInv /\ SettlingInv /\ SetupNext => SettlingInv'
<1> SUFFICES ASSUME TypeInv, SettlingInv, SetupNext PROVE SettlingInv'
  OBVIOUS
<1>1. ProcsOK /\ ControlOK /\ ConfOK /\ undisturbed \in [Procs -> BOOLEAN]
  BY DEF TypeInv, DiskOK, SettlingInv
<1>2. ASSUME NEW p \in Procs, OnlyMine(p), undisturbed'[p] => SettlingBy(p)' PROVE SettlingInv'
  BY <1>2 DEF OnlyMine, SettlingInv, SettlingBy
<1>3. ASSUME NEW p \in Procs,
             pc'[p] \in {"idle", "start"} \/ ~undisturbed'[p] \/ cmd'[p].verb # "provider" \/ cmd'[p].dry
      PROVE  SettlingBy(p)'
  BY <1>3 DEF SettlingBy
<1>4. ASSUME NEW p \in Procs, Idle(p) PROVE SettlingBy(p)'
  BY <1>1, <1>3, <1>4 DEF Idle, ProcsOK
<1>5. ASSUME NEW p \in Procs, StartProvider(p) PROVE SettlingBy(p)'
  <2>1. CASE cmd[p].dry
    BY <1>1, <1>3, <1>5, <2>1 DEF StartProvider, Proceed
  <2>2. CASE ~cmd[p].dry
    <3>1. pc'[p] = "create" /\ writes'[p] = Scaffold(path'[p])
      BY <1>1, <1>5, <2>2 DEF StartProvider, Proceed, ProcsOK
    <3> QED
      BY <3>1 DEF SettlingBy, Scaffold, Write
  <2> QED
    BY <2>1, <2>2
<1>6. ASSUME NEW p \in Procs,
             RunView(p) \/ StartWrite(p) \/ StartEdit(p) \/ StartInit(p) \/ StartApply(p) \/ SettleApply(p)
      PROVE  SettlingBy(p)'
  <2>1. cmd[p].verb # "provider"
    BY <1>6 DEF RunView, StartWrite, StartEdit, StartInit, StartApply, SettleApply, Is
  <2>2. Idle(p) \/ cmd' = cmd
    BY <1>6 DEF RunView, StartWrite, StartEdit, StartInit, StartApply, SettleApply, End, Proceed
  <2> QED
    BY <1>3, <1>4, <2>1, <2>2
<1>7. ASSUME NEW p \in Procs, SkipPiece(p) \/ CreatePiece(p) \/ BeginPiece(p) \/ EndPiece(p), OnlyMine(p)
      PROVE  SettlingBy(p)'
  <2>1. pc[p] = "create" /\ pc' = pc /\ cmd' = cmd /\ writes' = writes /\ path' = path
    BY <1>1, <1>7 DEF SkipPiece, CreatePiece, BeginPiece, EndPiece, ControlOK, Control
  <2>2. SettlingBy(p) /\ (undisturbed'[p] => undisturbed[p])
    BY <1>7, <2>1 DEF SettlingInv, OnlyMine
  <2> QED
    BY <2>1, <2>2 DEF SettlingBy, Scaffold, Write
<1>8. ASSUME NEW p \in Procs, PieceFails(p) \/ KillCommand(p) \/ Handle(p) PROVE SettlingBy(p)'
  BY <1>4, <1>8 DEF PieceFails, KillCommand, Handle, End
<1>9. ASSUME NEW p \in Procs, Created(p), OnlyMine(p) PROVE SettlingBy(p)'
  <2>1. CASE cmd[p].verb # "provider"
    BY <1>3, <1>4, <1>9, <2>1 DEF Created, End, Proceed
  <2>2. CASE cmd[p].verb = "provider"
    <3>1. pc[p] = "create" /\ pc'[p] = "write" /\ cmd' = cmd /\ writes'[p] = writes[p] /\ path'[p] = path[p]
      BY <1>1, <1>9, <2>2 DEF Created, Proceed, ProcsOK
    <3>2. SettlingBy(p) /\ (undisturbed'[p] => undisturbed[p])
      BY <1>9, <3>1 DEF SettlingInv, OnlyMine
    <3>3. writes[p] = Scaffold(path[p]) => writes'[p] = Scaffold(path'[p])
      BY <3>1
    <3>4. writes'[p] = Scaffold(path'[p]) => Stage(p)'
      BY DEF Stage, StageOf, Scaffold, Write
    <3> QED
      BY <3>1, <3>2, <3>3, <3>4 DEF SettlingBy
  <2> QED
    BY <2>1, <2>2
<1>10. ASSUME NEW p \in Procs, CheckSeed(p) \/ ReadFile(p) \/ ReplaceFile(p), OnlyMine(p) PROVE SettlingBy(p)'
  <2>1. CASE Idle(p)
    BY <1>4, <2>1
  <2>2. CASE ~Idle(p)
    <3>1. cmd' = cmd /\ pc[p] \in {"write", "replace"}
      BY <1>10, <2>2 DEF CheckSeed, ReadFile, ReplaceFile, End
    <3> SUFFICES ASSUME undisturbed'[p], cmd[p].verb = "provider", ~cmd[p].dry PROVE SettlingBy(p)'
      BY <3>1 DEF SettlingBy
    <3>2. undisturbed[p]
      <4>1. pc'[p] # "start"
        BY <1>1, <1>10, <2>2 DEF CheckSeed, ReadFile, ReplaceFile, End, ProcsOK
      <4> QED
        BY <1>10, <4>1 DEF OnlyMine
    <3>3. /\ pc'[p] \in {"write", "replace"} /\ Stage(p)'
          /\ (pc[p] = "replace" =>
                LET w == Head(writes[p])
                IN ~w.seed /\ conf[Global] # Broken /\ buf[p] = [Of(conf[Global]) EXCEPT ![w.key] = w.value])'
      BY <1>10, <3>2, SettlingReads, SettlingReplaces
    <3> QED
      BY <3>3 DEF SettlingBy
  <2> QED
    BY <2>1, <2>2
<1>11. ASSUME NEW p \in Procs, ReplaceFails(p) PROVE SettlingBy(p)'
  <2>1. Idle(p) \/ undisturbed' = [q \in Procs |-> FALSE]
    BY <1>11 DEF ReplaceFails, End
  <2> QED
    BY <1>3, <1>4, <2>1
<1>12. ASSUME NEW p \in Procs, Written(p), OnlyMine(p) PROVE SettlingBy(p)'
  <2>1. CASE cmd[p].verb # "provider"
    BY <1>3, <1>4, <1>12, <2>1 DEF Written, End, Proceed
  <2>2. CASE cmd[p].verb = "provider"
    <3>1. /\ pc[p] = "write" /\ pc'[p] = "handle" /\ cmd' = cmd /\ path'[p] = path[p]
          /\ writes[p] = <<>> /\ UNCHANGED conf
      BY <1>1, <1>12, <2>2 DEF Written, Proceed, ProcsOK, disk
    <3>2. SettlingBy(p) /\ (undisturbed'[p] => undisturbed[p])
      BY <1>12, <3>1 DEF SettlingInv, OnlyMine
    <3>3. PICK s \in Stores : s = path[p]
      BY <1>1, <2>2, <3>1 DEF ControlOK, Control
    <3>4. Stage(p) => Settled(s)
      <4>1. Len(writes[p]) = 0
        BY <3>1
      <4>2. Scaffold(s) # writes[p]
        BY <3>1, ScaffoldList
      <4>3. ~SeedsBoth(writes[p]) /\ ~SeedsMachine(writes[p])
        BY <4>1 DEF SeedsBoth, SeedsMachine
      <4> QED
        BY <3>3, <4>2, <4>3 DEF Stage, StageOf
    <3>5. Settled(s) => Settled(s)'
      BY <3>1, SameFiles
    <3> QED
      BY <3>1, <3>2, <3>3, <3>4, <3>5 DEF SettlingBy, Settled
  <2> QED
    BY <2>1, <2>2
<1>13. ASSUME NEW e \in Edits, EditByHand(e) PROVE SettlingInv'
  BY <1>13 DEF EditByHand, SettlingInv, SettlingBy
<1>14. ASSUME NEW p \in Procs, Starts(p) \/ Steps(p) \/ KillCommand(p) PROVE SettlingInv'
  <2>1. OnlyMine(p)
    BY <1>1, <1>14, StepsDisturb
  <2>2. SettlingBy(p)'
    BY <1>5, <1>6, <1>7, <1>8, <1>9, <1>10, <1>11, <1>12, <1>14, <2>1 DEF Starts, Steps
  <2> QED
    BY <1>2, <2>1, <2>2
<1>15. ASSUME NEW p \in Procs, NEW c \in Invocations, Invoke(p, c) PROVE SettlingInv'
  <2>1. OnlyMine(p)
    BY <1>1, <1>15, StepsDisturb, InvocationAssumption
  <2>2. pc'[p] = "start"
    BY <1>1, <1>15 DEF Invoke, ProcsOK
  <2> QED
    BY <1>2, <1>3, <2>1, <2>2
<1> QED
  BY <1>13, <1>14, <1>15 DEF SetupNext

LEMMA SettlingAlways == SetupSpec => []SettlingInv
<1>1. SetupInit => SettlingInv
  BY DEF SetupInit, SettlingInv, SettlingBy
<1>2. SettlingInv /\ UNCHANGED setupVars => SettlingInv'
  <2> SUFFICES ASSUME SettlingInv, UNCHANGED setupVars PROVE SettlingInv'
    OBVIOUS
  <2>1. UNCHANGED <<conf, pc, cmd, path, writes, buf, undisturbed>>
    BY DEF setupVars, disk, proc, ghost
  <2> QED
    BY <2>1 DEF SettlingInv, SettlingBy, Stage, StageOf, Settled, HasKey, PointsTo, Fails, GlobalBroken,
                StoreBroken, Home, Base
<1>3. TypeInv /\ SettlingInv /\ [SetupNext]_setupVars => SettlingInv'
  BY <1>2, SettlingSteps
<1> QED
  BY <1>1, <1>3, TypeAlways, PTL DEF SetupSpec

(* A provider command that nothing disturbed settles the configuration:    *)
(* whatever was killed before it, the next command without a flag finds    *)
(* the store this one used, a profile and a machine, unless the files do   *)
(* not load or another file names another store.                           *)
THEOREM ScaffoldsSettle == SetupSpec => ScaffoldSettles
<1>1. TypeInv /\ SettlingInv /\ [SetupNext]_setupVars =>
        (\A p \in Procs :
           Handle(p) /\ last'.ok /\ ~cmd[p].dry /\ undisturbed[p] =>
             LET cfg == Load(None, None)
                 elsewhere == \E f \in Places \ {Global} :
                                conf[f] # Broken /\ Of(conf[f])["store_path"] \notin {None, path[p]}
             IN cfg = Failed \/ elsewhere
                \/ /\ cfg["profile_tag"] # None /\ cfg["machine_id"] # None
                   /\ cfg["store_path"] = path[p])
  <2> SUFFICES ASSUME TypeInv, SettlingInv, NEW p \in Procs, Handle(p), ~cmd[p].dry, undisturbed[p],
                      Load(None, None) # Failed,
                      \A f \in Places \ {Global} : conf[f] = Broken \/ Of(conf[f])["store_path"] \in {None, path[p]}
               PROVE  LET cfg == Load(None, None)
                      IN cfg["profile_tag"] # None /\ cfg["machine_id"] # None /\ cfg["store_path"] = path[p]
    OBVIOUS
  <2>1. cmd[p].verb = "provider" /\ pc[p] = "handle"
    BY DEF Handle, Is
  <2>2. path[p] \in Stores /\ ConfOK
    BY <2>1 DEF TypeInv, DiskOK, ControlOK, Control
  <2>3. Settled(path[p])
    BY <2>1 DEF SettlingInv, SettlingBy
  <2> QED
    BY <2>2, <2>3, SettledLoads
<1> QED
  BY <1>1, TypeAlways, SettlingAlways, PTL DEF SetupSpec, ScaffoldSettles

-----------------------------------------------------------------------------
(* A push that commits and ends well delivers.  What there was when it     *)
(* started moves from the work tree to the index, the history and the      *)
(* remote, and is never behind the step the push has reached; the remote   *)
(* only grows.                                                             *)

OnItsWay ==
  /\ sync \in {"status", "add"} => before \subseteq unstaged \cup staged \cup local
  /\ sync = "commit" => before \subseteq staged \cup local
  /\ sync = "push" => before \subseteq local
  /\ sync \in {"idle", "status", "add", "commit"} => ~made

SyncInv == SyncTypeOK /\ OnItsWay /\ CommitIsDelivered

Pushes == [ok : BOOLEAN, made : BOOLEAN, owed : SUBSET Changes]

LEMMA PushesHold ==
  ASSUME NEW b \in BOOLEAN, NEW c \in BOOLEAN, NEW S, S \subseteq Changes
  PROVE  [ok |-> b, made |-> c, owed |-> S] \in Pushes
BY Zenon DEF Pushes

LEMMA SyncInitOK == SyncInit => SyncInv
<1>1. SyncInit => SyncTypeOK
  <2>1. [ok |-> FALSE, made |-> FALSE, owed |-> {}] \in Pushes
    BY PushesHold
  <2>2. QED
    BY <2>1 DEF SyncInit, SyncTypeOK, Pushes
<1>2. SyncInit => OnItsWay /\ CommitIsDelivered
  BY DEF SyncInit, OnItsWay, CommitIsDelivered
<1>3. QED
  BY <1>1, <1>2 DEF SyncInv

(* A push that ends, ending well only with a commit delivered.             *)
LEMMA PushEndsWell ==
  ASSUME SyncInv, NEW ok \in BOOLEAN, PushEnds(ok),
         unstaged' \subseteq Changes, staged' \subseteq Changes,
         local' \subseteq Changes, remote' \subseteq Changes,
         ok /\ made => before \subseteq remote'
  PROVE  SyncInv'
<1>1. pushed' = [ok |-> ok, made |-> made, owed |-> before]
  BY DEF PushEnds
<1>2. SyncTypeOK'
  <2>1. made \in BOOLEAN /\ before \subseteq Changes
    BY DEF SyncInv, SyncTypeOK
  <2>2. pushed' \in Pushes
    BY <1>1, <2>1, PushesHold, Zenon
  <2>3. QED
    BY <2>2 DEF SyncTypeOK, PushEnds, SyncEnds, Pushes
<1>3. OnItsWay'
  BY DEF OnItsWay, PushEnds, SyncEnds
<1>4. CommitIsDelivered'
  BY <1>1 DEF CommitIsDelivered
<1>5. QED
  BY <1>2, <1>3, <1>4 DEF SyncInv

LEMMA SyncStepOK == SyncInv /\ [SyncNext]_syncVars => SyncInv'
<1> SUFFICES ASSUME SyncInv, [SyncNext]_syncVars PROVE SyncInv'
  OBVIOUS
<1> USE DEF SyncInv, SyncTypeOK, OnItsWay, CommitIsDelivered
<1>1. ASSUME NEW c \in Changes, ChangeStore(c) PROVE SyncInv'
  BY <1>1 DEF ChangeStore
<1>2. ASSUME NEW c \in Changes, OtherMachinePushes(c) PROVE SyncInv'
  BY <1>2 DEF OtherMachinePushes
<1>3. CASE StartPush
  BY <1>3 DEF StartPush, git
<1>4. CASE GitStatus
  <2>1. CASE unstaged \cup staged = {}
    BY <1>4, <2>1, PushEndsWell DEF GitStatus, git
  <2>2. CASE unstaged \cup staged # {}
    BY <1>4, <2>2 DEF GitStatus, git
  <2>3. QED
    BY <2>1, <2>2
<1>5. CASE GitAdd
  BY <1>5 DEF GitAdd
<1>6. CASE GitCommit
  BY <1>6 DEF GitCommit
<1>7. CASE GitPush
  <2>1. CASE remote \subseteq local
    BY <1>7, <2>1, PushEndsWell DEF GitPush
  <2>2. CASE ~(remote \subseteq local)
    BY <1>7, <2>2, PushEndsWell DEF GitPush
  <2>3. QED
    BY <2>1, <2>2
<1>8. CASE GitFails
  BY <1>8, PushEndsWell DEF GitFails, git
<1>9. CASE Pull
  BY <1>9 DEF Pull
<1>10. CASE KillSync
  BY <1>10 DEF KillSync, SyncEnds, git
<1>11. CASE UNCHANGED syncVars
  BY <1>11 DEF syncVars, git
<1>12. QED
  BY <1>1, <1>2, <1>3, <1>4, <1>5, <1>6, <1>7, <1>8, <1>9, <1>10, <1>11 DEF SyncNext

(* The type invariant of the work tree, the histories and the command.     *)
THEOREM SyncTyping == SyncSpec => []SyncTypeOK
<1>1. SyncInv => SyncTypeOK
  BY DEF SyncInv
<1>2. QED
  BY <1>1, SyncInitOK, SyncStepOK, PTL DEF SyncSpec

(* Whatever failed before and whatever other machines push, a push that    *)
(* made a commit and ended well leaves all there was at its start in the   *)
(* history of the remote.                                                  *)
THEOREM Delivered == SyncSpec => []CommitIsDelivered
<1>1. SyncInv => CommitIsDelivered
  BY DEF SyncInv
<1>2. QED
  BY <1>1, SyncInitOK, SyncStepOK, PTL DEF SyncSpec
=============================================================================

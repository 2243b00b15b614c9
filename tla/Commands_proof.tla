--------------------------- MODULE Commands_proof ----------------------------
(***************************************************************************)
(* Upgrades of the binary, then the commands of the store, its pushes and  *)
(* the upgrades together.                                                  *)
(***************************************************************************)
EXTENDS MCCommands, Store_proof

-----------------------------------------------------------------------------
(* The installed binary is genuine, for any number of concurrent upgrades, *)
(* any releases and any failures.                                          *)
(*                                                                         *)
(* The binary is replaced by what a temporary file holds at the last step; *)
(* the invariant follows that file from the download to the rename:        *)
(* nothing is expected of it only if its release publishes no checksums,   *)
(* and from the verification on it has what is expected.                   *)

Fetching   == {"download", "verify", "chmod", "rename"}
Downloaded == {"verify", "chmod", "rename"}
Verified   == {"chmod", "rename"}

Followed(u) ==
  /\ upc[u] \in Fetching /\ sum[u] = "none" => manifest[wanted[u]] = "absent"
  /\ upc[u] \in Downloaded => temp[u].body \in Bodies
  /\ upc[u] \in Verified => sum[u] = "none" \/ temp[u].body = sum[u]
  /\ upc[u] = "rename" => temp[u].runs

UpdateInv == UpdateTypeOK /\ BinaryIsGenuine /\ \A u \in Upgrades : Followed(u)

(* One process takes a step: the others keep what is followed of them.     *)
LEMMA OthersStay ==
  ASSUME UpdateInv, NEW u \in Upgrades,
         manifest' = manifest,
         \A w \in Upgrades \ {u} :
           upc'[w] = upc[w] /\ wanted'[w] = wanted[w] /\ sum'[w] = sum[w] /\ temp'[w] = temp[w]
  PROVE  \A w \in Upgrades \ {u} : Followed(w)'
BY DEF UpdateInv, Followed

LEMMA InitEstablishes == UpdateInit => UpdateInv
<1>1. SUFFICES ASSUME UpdateInit PROVE UpdateInv
  OBVIOUS
<1>2. PICK v \in Versions : /\ exe = [version |-> v, body |-> "genuine", runs |-> TRUE]
                            /\ current = [u \in Upgrades |-> v]
                            /\ wanted = [u \in Upgrades |-> v]
  BY <1>1 DEF UpdateInit
<1>3. UpdateTypeOK
  BY <1>1, <1>2 DEF UpdateInit, UpdateTypeOK, Bodies, Temps, NoTemp
<1>4. BinaryIsGenuine
  BY <1>2 DEF BinaryIsGenuine
<1>5. \A u \in Upgrades : Followed(u)
  BY <1>1 DEF UpdateInit, Followed, Fetching, Downloaded, Verified
<1>6. QED
  BY <1>3, <1>4, <1>5 DEF UpdateInv

LEMMA GiveUpPreserves == ASSUME UpdateInv, NEW u \in Upgrades, GiveUp(u) PROVE UpdateInv'
<1>1. UpdateTypeOK'
  BY DEF UpdateInv, UpdateTypeOK, GiveUp, Goto, NoTemp, Temps, Bodies
<1>2. BinaryIsGenuine'
  BY DEF UpdateInv, BinaryIsGenuine, GiveUp
<1>3. Followed(u)'
  BY DEF UpdateInv, UpdateTypeOK, Followed, GiveUp, Goto, Fetching, Downloaded, Verified
<1>4. \A w \in Upgrades \ {u} : Followed(w)'
  BY OthersStay DEF UpdateInv, UpdateTypeOK, GiveUp, Goto
<1>5. QED
  BY <1>1, <1>2, <1>3, <1>4 DEF UpdateInv

(* A step of one process that leaves the binary alone and keeps what is    *)
(* followed of the process itself.                                         *)
LEMMA QuietStepPreserves ==
  ASSUME UpdateInv, NEW u \in Upgrades,
         UpdateTypeOK', exe' = exe, manifest' = manifest, Followed(u)',
         \A w \in Upgrades \ {u} :
           upc'[w] = upc[w] /\ wanted'[w] = wanted[w] /\ sum'[w] = sum[w] /\ temp'[w] = temp[w]
  PROVE  UpdateInv'
<1>1. BinaryIsGenuine'
  BY DEF UpdateInv, BinaryIsGenuine
<1>2. \A w \in Upgrades \ {u} : Followed(w)'
  BY OthersStay
<1>3. QED
  BY <1>1, <1>2 DEF UpdateInv

LEMMA NextPreserves == UpdateInv /\ [UpdateNext]_updateVars => UpdateInv'
<1>1. SUFFICES ASSUME UpdateInv, [UpdateNext]_updateVars PROVE UpdateInv'
  OBVIOUS
<1>2. ASSUME NEW v \in Versions, Release(v) PROVE UpdateInv'
  <2>1. UpdateTypeOK'
    BY <1>1, <1>2 DEF UpdateInv, UpdateTypeOK, Release, procs
  <2>2. BinaryIsGenuine'
    BY <1>1, <1>2 DEF UpdateInv, BinaryIsGenuine, Release
  <2>3. \A u \in Upgrades : Followed(u)'
    BY <1>1, <1>2 DEF UpdateInv, Followed, Release, procs
  <2>4. QED
    BY <2>1, <2>2, <2>3 DEF UpdateInv
<1>3. ASSUME NEW u \in Upgrades, StartUpgrade(u) PROVE UpdateInv'
  <2>1. UpdateTypeOK'
    BY <1>1, <1>3 DEF UpdateInv, UpdateTypeOK, StartUpgrade, Goto
  <2>2. Followed(u)'
    BY <1>1, <1>3 DEF UpdateInv, UpdateTypeOK, Followed, StartUpgrade, Goto, Fetching, Downloaded, Verified
  <2>3. QED
    BY <1>1, <1>3, <2>1, <2>2, QuietStepPreserves DEF UpdateInv, UpdateTypeOK, StartUpgrade, Goto
<1>4. ASSUME NEW u \in Upgrades, LookUp(u) PROVE UpdateInv'
  <2>1. UpdateTypeOK'
    BY <1>1, <1>4 DEF UpdateInv, UpdateTypeOK, LookUp, Goto
  <2>2. Followed(u)'
    BY <1>1, <1>4 DEF UpdateInv, UpdateTypeOK, Followed, LookUp, Goto, Fetching, Downloaded, Verified
  <2>3. QED
    BY <1>1, <1>4, <2>1, <2>2, QuietStepPreserves DEF UpdateInv, UpdateTypeOK, LookUp, Goto
<1>5. ASSUME NEW u \in Upgrades, LookupChecksum(u) PROVE UpdateInv'
  <2>1. UpdateTypeOK'
    BY <1>1, <1>5 DEF UpdateInv, UpdateTypeOK, LookupChecksum, Goto
  <2>2. Followed(u)'
    <3>1. manifest[wanted[u]] \in {"good", "absent"}
      BY <1>1, <1>5, ManifestAssumption DEF UpdateInv, UpdateTypeOK, LookupChecksum
    <3>2. QED
      BY <1>1, <1>5, <3>1 DEF UpdateInv, UpdateTypeOK, Followed, LookupChecksum, Goto, Fetching, Downloaded, Verified
  <2>3. QED
    BY <1>1, <1>5, <2>1, <2>2, QuietStepPreserves DEF UpdateInv, UpdateTypeOK, LookupChecksum, Goto
<1>6. ASSUME NEW u \in Upgrades, Download(u) PROVE UpdateInv'
  <2>1. UpdateTypeOK'
    BY <1>1, <1>6 DEF UpdateInv, UpdateTypeOK, Download, Goto, Temps
  <2>2. Followed(u)'
    BY <1>1, <1>6 DEF UpdateInv, UpdateTypeOK, Followed, Download, At, Goto, Fetching, Downloaded, Verified
  <2>3. QED
    BY <1>1, <1>6, <2>1, <2>2, QuietStepPreserves DEF UpdateInv, UpdateTypeOK, Download, Goto
<1>7. ASSUME NEW u \in Upgrades, Verify(u) PROVE UpdateInv'
  <2>1. UpdateTypeOK'
    BY <1>1, <1>7 DEF UpdateInv, UpdateTypeOK, Verify, Goto
  <2>2. Followed(u)'
    BY <1>1, <1>7 DEF UpdateInv, UpdateTypeOK, Followed, Verify, At, Goto, Fetching, Downloaded, Verified
  <2>3. QED
    BY <1>1, <1>7, <2>1, <2>2, QuietStepPreserves DEF UpdateInv, UpdateTypeOK, Verify, Goto
<1>8. ASSUME NEW u \in Upgrades, Chmod(u) PROVE UpdateInv'
  <2>1. UpdateTypeOK'
    BY <1>1, <1>8 DEF UpdateInv, UpdateTypeOK, Chmod, Goto, Temps
  <2>2. Followed(u)'
    BY <1>1, <1>8 DEF UpdateInv, UpdateTypeOK, Followed, Chmod, At, Goto, Temps, Fetching, Downloaded, Verified
  <2>3. QED
    BY <1>1, <1>8, <2>1, <2>2, QuietStepPreserves DEF UpdateInv, UpdateTypeOK, Chmod, Goto
<1>9. ASSUME NEW u \in Upgrades, Rename(u) PROVE UpdateInv'
  <2>1. /\ temp[u].runs
        /\ temp[u].body \in Bodies
        /\ temp[u].body = "genuine" \/ manifest[wanted[u]] = "absent"
    BY <1>1, <1>9 DEF UpdateInv, UpdateTypeOK, Followed, Rename, At, Fetching, Downloaded, Verified
  <2>2. UpdateTypeOK'
    BY <1>1, <1>9, <2>1 DEF UpdateInv, UpdateTypeOK, Rename, Goto, NoTemp, Temps
  <2>3. BinaryIsGenuine'
    BY <1>1, <1>9, <2>1 DEF BinaryIsGenuine, Rename
  <2>4. Followed(u)'
    BY <1>1, <1>9 DEF UpdateInv, UpdateTypeOK, Followed, Rename, Goto, Fetching, Downloaded, Verified
  <2>5. \A w \in Upgrades \ {u} : Followed(w)'
    BY <1>1, <1>9, OthersStay DEF UpdateInv, UpdateTypeOK, Rename, Goto
  <2>6. QED
    BY <2>2, <2>3, <2>4, <2>5 DEF UpdateInv
<1>10. CASE UNCHANGED updateVars
  BY <1>1, <1>10 DEF UpdateInv, UpdateTypeOK, BinaryIsGenuine, Followed, updateVars, procs
<1>11. QED
  BY <1>1, <1>2, <1>3, <1>4, <1>5, <1>6, <1>7, <1>8, <1>9, <1>10, GiveUpPreserves
     DEF UpdateNext, ChecksumMissing, Mismatch, UpgradeFails

(* The type invariant of any number of upgrades.                           *)
THEOREM UpdateTyping == UpdateSpec => []UpdateTypeOK
<1>1. UpdateInv => UpdateTypeOK
  BY DEF UpdateInv
<1>2. QED
  BY <1>1, InitEstablishes, NextPreserves, PTL DEF UpdateSpec

(* Whatever the server sends, fails, is killed or runs at once, the        *)
(* installed binary starts and is what its release published, unless that  *)
(* release publishes no checksums.                                         *)
THEOREM Genuine == UpdateSpec => []BinaryIsGenuine
<1>1. UpdateInv => BinaryIsGenuine
  BY DEF UpdateInv
<1>2. QED
  BY <1>1, InitEstablishes, NextPreserves, PTL DEF UpdateSpec

-----------------------------------------------------------------------------
(* The three together.                                                     *)

(* Whichever of the three a behaviour moves, each of them behaves as it    *)
(* does alone: configuration and scaffold, pushes and pulls, and upgrades  *)
(* touch no file in common.                                                *)
THEOREM EachIsItself == Spec => SetupSpec /\ SyncSpec /\ UpdateSpec
<1> DEFINE all == <<setupVars, syncVars, updateVars, part>>
<1>1. Init => SetupInit /\ SyncInit /\ UpdateInit
  BY DEF Init
<1>2. [Next]_all => [SetupNext]_setupVars /\ [SyncNext]_syncVars /\ [UpdateNext]_updateVars
  BY DEF Next
<1> QED
  BY <1>1, <1>2, PTL DEF Spec, SetupSpec, SyncSpec, UpdateSpec

(* The type invariant of all three.                                        *)
THEOREM Typing == Spec => []TypeOK
BY EachIsItself, SetupTyping, SyncTyping, UpdateTyping, PTL DEF TypeOK

(* What is proved of each holds of them together.                          *)
THEOREM CommandsAreSafe ==
  Spec => /\ []StoreIsWhole /\ []CommandsAgree /\ ScaffoldSettles
          /\ []CommitIsDelivered /\ []BinaryIsGenuine
BY EachIsItself, ScaffoldIsWhole, CommandsFindTheSame, ScaffoldsSettle, Delivered, Genuine
=============================================================================

----------------------------- MODULE SelfUpdate ------------------------------
(***************************************************************************)
(* `hams self-upgrade` of a downloaded binary (internal/selfupdate):       *)
(* look up the latest release and its checksum, download the asset into a  *)
(* temporary file beside the binary, verify it, make it executable and     *)
(* rename it into place.  Several upgrades may run at once, requests and   *)
(* writes fail, releases appear, and a process may be killed.              *)
(*                                                                         *)
(* Two upgrades at once may leave the older of two releases in place.     *)
(* A version is its number: what follows a "-" or a "+" is not compared.   *)
(***************************************************************************)
EXTENDS Naturals

CONSTANTS
  Upgrades,    \* processes
  Versions,    \* releases
  Manifests    \* release -> "good", "absent" or "lacks" the asset

ASSUME VersionAssumption == Versions \subseteq Nat
ASSUME ManifestAssumption == Manifests \subseteq [Versions -> {"good", "absent", "lacks"}]

VARIABLES
  manifest,   \* what each release publishes as checksums.txt
  latest,     \* the release that GitHub redirects to
  exe,        \* the installed binary: release, body, mode
  upc,        \* process -> where it is
  current,    \* process -> the release it was built from
  wanted,     \* process -> the release it has found
  sum,        \* process -> the checksum it expects, or "none"
  temp        \* process -> its temporary file, or NoTemp

procs == <<upc, current, wanted, sum, temp>>
updateVars == <<manifest, latest, exe, procs>>

Bodies == {"genuine", "other"}
NoTemp == [body |-> "none", runs |-> FALSE]
Temps == [body : Bodies \cup {"none"}, runs : BOOLEAN]

UpdateInit ==
  /\ manifest \in Manifests
  /\ latest \in Versions
  /\ \E v \in Versions : /\ v <= latest
                         /\ exe = [version |-> v, body |-> "genuine", runs |-> TRUE]
                         /\ current = [u \in Upgrades |-> v]
                         /\ wanted = [u \in Upgrades |-> v]
  /\ upc = [u \in Upgrades |-> "idle"]
  /\ sum = [u \in Upgrades |-> "none"]
  /\ temp = [u \in Upgrades |-> NoTemp]

At(u, step) == upc[u] = step
Goto(u, step) == upc' = [upc EXCEPT ![u] = step]

(* An upgrade that ends removes its temporary file.                        *)
GiveUp(u) ==
  /\ Goto(u, "idle")
  /\ temp' = [temp EXCEPT ![u] = NoTemp]
  /\ sum' = [sum EXCEPT ![u] = "none"]
  /\ UNCHANGED <<manifest, latest, exe, current, wanted>>

Release(v) ==
  /\ v > latest
  /\ latest' = v
  /\ UNCHANGED <<manifest, exe, procs>>

(* The process is the installed binary, which may be replaced under it.    *)
StartUpgrade(u) ==
  /\ At(u, "idle") /\ exe.runs
  /\ Goto(u, "look")
  /\ current' = [current EXCEPT ![u] = exe.version]
  /\ UNCHANGED <<manifest, latest, exe, wanted, sum, temp>>

IsUpToDate(cur, lat) == cur >= lat

LookUp(u) ==
  /\ At(u, "look")
  /\ IF IsUpToDate(current[u], latest) THEN Goto(u, "idle") ELSE Goto(u, "sum")
  /\ wanted' = [wanted EXCEPT ![u] = latest]
  /\ UNCHANGED <<manifest, latest, exe, current, sum, temp>>

(* A release without a manifest is not verified; one whose manifest lacks  *)
(* the asset is refused.                                                   *)
LookupChecksum(u) ==
  /\ At(u, "sum")
  /\ manifest[wanted[u]] # "lacks"
  /\ sum' = [sum EXCEPT ![u] = IF manifest[wanted[u]] = "good" THEN "genuine" ELSE "none"]
  /\ Goto(u, "download")
  /\ UNCHANGED <<manifest, latest, exe, current, wanted, temp>>

ChecksumMissing(u) ==
  /\ At(u, "sum") /\ manifest[wanted[u]] = "lacks"
  /\ GiveUp(u)

(* Whatever the server sends; a body that is cut short is an error.        *)
Download(u) ==
  /\ At(u, "download")
  /\ \E b \in Bodies : temp' = [temp EXCEPT ![u] = [body |-> b, runs |-> FALSE]]
  /\ Goto(u, "verify")
  /\ UNCHANGED <<manifest, latest, exe, current, wanted, sum>>

(* A wrong check: whatever was downloaded will do.                         *)
VerifyNothing(u) ==
  /\ At(u, "verify")
  /\ Goto(u, "chmod")
  /\ UNCHANGED <<manifest, latest, exe, current, wanted, sum, temp>>

Verify(u) ==
  /\ At(u, "verify")
  /\ sum[u] = "none" \/ temp[u].body = sum[u]
  /\ Goto(u, "chmod")
  /\ UNCHANGED <<manifest, latest, exe, current, wanted, sum, temp>>

Mismatch(u) ==
  /\ At(u, "verify") /\ sum[u] # "none" /\ temp[u].body # sum[u]
  /\ GiveUp(u)

Chmod(u) ==
  /\ At(u, "chmod")
  /\ temp' = [temp EXCEPT ![u].runs = TRUE]
  /\ Goto(u, "rename")
  /\ UNCHANGED <<manifest, latest, exe, current, wanted, sum>>

Rename(u) ==
  /\ At(u, "rename")
  /\ exe' = [version |-> wanted[u], body |-> temp[u].body, runs |-> temp[u].runs]
  /\ Goto(u, "idle")
  /\ temp' = [temp EXCEPT ![u] = NoTemp]
  /\ sum' = [sum EXCEPT ![u] = "none"]
  /\ UNCHANGED <<manifest, latest, current, wanted>>

(* A request, a write, a chmod or a rename fails, or the process is killed; *)
(* the temporary file that a kill leaves is never looked at again.         *)
UpgradeFails(u) == ~At(u, "idle") /\ GiveUp(u)

UpdateNext ==
  \/ \E v \in Versions : Release(v)
  \/ \E u \in Upgrades :
       \/ StartUpgrade(u) \/ LookUp(u) \/ LookupChecksum(u) \/ ChecksumMissing(u)
       \/ Download(u) \/ Verify(u) \/ Mismatch(u) \/ Chmod(u) \/ Rename(u)
       \/ UpgradeFails(u)

UpdateSpec == UpdateInit /\ [][UpdateNext]_updateVars

-----------------------------------------------------------------------------
UpdateTypeOK ==
  /\ manifest \in Manifests /\ latest \in Versions
  /\ exe \in [version : Versions, body : Bodies, runs : BOOLEAN]
  /\ upc \in [Upgrades -> {"idle", "look", "sum", "download", "verify", "chmod", "rename"}]
  /\ current \in [Upgrades -> Versions] /\ wanted \in [Upgrades -> Versions]
  /\ sum \in [Upgrades -> {"none", "genuine"}]
  /\ temp \in [Upgrades -> Temps]

(* The installed binary can always be started and is what its release      *)
(* published, unless that release publishes no checksums: no failure, kill *)
(* or concurrent upgrade leaves another.                                   *)
BinaryIsGenuine ==
  /\ exe.runs
  /\ exe.body = "genuine" \/ manifest[exe.version] = "absent"

=============================================================================

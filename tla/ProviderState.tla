---------------------------- MODULE ProviderState ----------------------------
(***************************************************************************)
(* One provider's files and the operators hams computes with: the merged   *)
(* hamsfile (desired), the state file (observed), probing, and the plan.   *)
(*                                                                         *)
(* A hamsfile document gives each resource the content of its entry, or    *)
(* "absent".  The config hash of a document (SHA-256 of its YAML) is the   *)
(* document itself.  A host gives each resource the content last applied   *)
(* to it, or "absent".                                                     *)
(***************************************************************************)
CONSTANTS
  Resources,   \* the resource IDs of the provider
  Contents,    \* what an entry may say about a resource
  NoHash       \* last_apply_config_hash is empty

Docs == [Resources -> Contents \cup {"absent"}]

ASSUME AbsentAssumption == "absent" \notin Contents
ASSUME NoHashAssumption == NoHash \notin Docs

EmptyDoc == [r \in Resources |-> "absent"]

Statuses == {"untracked", "ok", "failed", "pending", "removed", "hook-failed"}
Hashes == Docs \cup {NoHash}

(* state.File: the config hash of the last successful apply, and for each  *)
(* resource its state; "untracked" is a resource with no record.           *)
StateFiles == [hash : Hashes, st : [Resources -> Statuses]]

NewState == [hash |-> NoHash, st |-> [r \in Resources |-> "untracked"]]

SetResource(sf, r, s) == [sf EXCEPT !.st[r] = s]

(* A record that says the resource is, or may be, on the host.             *)
Tracked(sf, r) == sf.st[r] \notin {"untracked", "removed"}

(* A wrong probe, that trusts what is recorded ok.                         *)
ProbeFailedOnly(sf, host) ==
  [sf EXCEPT !.st = [r \in Resources |->
     IF ~Tracked(sf, r) \/ sf.st[r] = "ok" THEN sf.st[r]
     ELSE IF host[r] = "absent" THEN "failed" ELSE "ok"]]

(* ProbeAll over a package provider: every record that is not a tombstone  *)
(* becomes ok or failed, by what the host has.                             *)
Probe(sf, host) ==
  [sf EXCEPT !.st = [r \in Resources |->
     IF ~Tracked(sf, r) THEN sf.st[r]
     ELSE IF host[r] = "absent" THEN "failed" ELSE "ok"]]

Actions == {"none", "skip", "install", "update", "remove"}
Plans == [Resources -> Actions]
NoPlan == [r \in Resources |-> "none"]

(* Two wrong plans: one that only removes what is ok, and one that never   *)
(* retries what failed.                                                    *)
PlanRemovesOnlyOk(doc, sf) ==
  [r \in Resources |->
     IF doc[r] # "absent"
     THEN IF sf.st[r] = "ok" THEN "skip" ELSE "install"
     ELSE IF sf.hash # NoHash /\ sf.st[r] = "ok" THEN "remove" ELSE "none"]

PlanWithoutRetry(doc, sf) ==
  [r \in Resources |->
     IF doc[r] # "absent"
     THEN IF sf.st[r] \in {"ok", "failed"} THEN "skip" ELSE "install"
     ELSE IF sf.hash # NoHash /\ Tracked(sf, r) THEN "remove" ELSE "none"]

(* ComputePlan: desired resources are skipped when ok and installed        *)
(* otherwise; the others are removed, once some apply has set a baseline.  *)
ComputePlan(doc, sf) ==
  [r \in Resources |->
     IF doc[r] # "absent"
     THEN IF sf.st[r] = "ok" THEN "skip" ELSE "install"
     ELSE IF sf.hash # NoHash /\ Tracked(sf, r) THEN "remove" ELSE "none"]

(* A wrong promotion: none.                                                *)
PromoteNothing(plan, doc, sf) == plan

(* runApply's promotion of skips when the document has changed.            *)
Promote(plan, doc, sf) ==
  IF sf.hash # NoHash /\ sf.hash # doc
  THEN [r \in Resources |-> IF plan[r] = "skip" THEN "update" ELSE plan[r]]
  ELSE plan
=============================================================================

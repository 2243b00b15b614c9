---------------------------- MODULE MCCommands -------------------------------
(* StoreSetup, StoreSync and SelfUpdate, which share no state: in each      *)
(* behaviour one of the three runs and the other two stand still, so that   *)
(* their state spaces add up instead of multiplying.                        *)
(*                                                                          *)
(* Three stores: the default one, one of the user's, and the clone of a     *)
(* repository.                                                              *)
EXTENDS StoreSetup, StoreSync, SelfUpdate, TLC

VARIABLE part

CONSTANTS d, a, r, hub, t0, t1, m0, m1, p1, p2, c1, c2, c3

MCStores == {d, a, r}
MCTags == {t0, t1}
MCMachines == {m0, m1}

Run(verb, flags) == flags @@ [NoCommand EXCEPT !.verb = verb]

MCInvocations ==
  { Run("provider", [store |-> a]), Run("provider", [tag |-> t1]), Run("provider", [dry |-> TRUE]) }
  \cup { Run("set", [key |-> "profile_tag", value |-> t1]), Run("set", [value |-> t1, store |-> a]),
         Run("unset", [key |-> "profile_tag"]) }
  \cup { Run("init", [tty |-> t]) : t \in BOOLEAN }
  \cup { Run("view", [store |-> a]), Run("edit", [dry |-> FALSE]) }
  \cup { Run("apply", [tag |-> t, tty |-> t = None]) : t \in {None, t1} }
  \cup { Run("apply", [from |-> hub, tag |-> t1]), Run("apply", [store |-> a, from |-> hub]),
         Run("apply", [store |-> a, tag |-> t1, dry |-> TRUE]) }

One(k, v) == [Empty EXCEPT ![k] = v]
Edit(f, c) == [place |-> f, file |-> c]

First(g, stores) == [global |-> g, cloned |-> stores]
MCFirsts == { First(Missing, {}), First(One("store_repo", hub), {}), First(Missing, {a}),
              First([One("store_path", a) EXCEPT !["machine_id"] = m1], {a}) }

MCEdits ==
  { Edit(Global, Broken), Edit(GlobalLocal, Broken), Edit(GlobalLocal, One("profile_tag", t1)),
    Edit(<<a, "main">>, One("store_path", d)), Edit(<<d, "main">>, One("machine_id", m1)) }

MCVersions == 1..3
MCManifests == { [v \in MCVersions |-> IF v = 3 THEN m ELSE "good"] : m \in {"good", "absent", "lacks"} }

Init ==
  /\ SetupInit /\ SyncInit /\ UpdateInit
  /\ part \in {"setup", "sync", "update"}
  /\ part # "update" => latest = 1 /\ manifest[3] = "good"
  /\ part # "setup" => conf[Global] = Missing /\ profiles[a] = {}

Next ==
  /\ \/ part = "setup" /\ SetupNext /\ UNCHANGED <<syncVars, updateVars>>
     \/ part = "sync" /\ SyncNext /\ UNCHANGED <<setupVars, updateVars>>
     \/ part = "update" /\ UpdateNext /\ UNCHANGED <<setupVars, syncVars>>
  /\ UNCHANGED part

Spec == Init /\ [][Next]_<<setupVars, syncVars, updateVars, part>>

TypeOK == SetupTypeOK /\ SyncTypeOK /\ UpdateTypeOK

Symmetry == Permutations({p1, p2}) \cup Permutations({c1, c2, c3})
=============================================================================

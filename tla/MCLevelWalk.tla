---------------------------- MODULE MCLevelWalk ----------------------------
(***************************************************************************)
(* Small projects for LevelWalk, and the levels of every small graph.      *)
(***************************************************************************)
EXTENDS LevelWalk, TLC

CONSTANTS db, app, db1, app1, app2

MCService == {db, app}
MCContainer == {db1, app1, app2}
MCServiceOf == (db1 :> db) @@ (app1 :> app) @@ (app2 :> app)

File(deps, restart, hooks, patient) ==
    [deps |-> deps, restart |-> restart, level |-> resolve_levels(MCService, deps),
     hooks |-> hooks, patient |-> patient]

NoDeps == [s \in MCService |-> {}]
Needed == [NoDeps EXCEPT ![app] = {db}]
MCFiles == {File(Needed, Needed, {}, FALSE), File(NoDeps, NoDeps, {app}, TRUE)}
MCTargets == {{}, {db}}
\* All running, and mixtures.
At(d, a, o) == (db1 :> d) @@ (app1 :> a) @@ (app2 :> o)
MCStarts ==
    {At("running", "running", "running"), At("exited", "paused", "exited"),
     At("paused", "exited", "gone")}
MCShared == {app1}
AllCommands == Ops \cup {"down"}

\* Over every dependency graph of four services: a service is left unplaced
\* exactly when there is a cycle; otherwise every level is the first its
\* dependencies allow.
Nodes == 1 .. 4
ASSUME LevelsRight ==
    \A deps \in [Nodes -> SUBSET Nodes] :
        LET level == resolve_levels(Nodes, deps)
            cyclic == \E C \in SUBSET Nodes \ {{}} : \A s \in C : deps[s] \cap C # {}
        IN  /\ cyclic <=> CircularDependency(Nodes, deps)
            /\ cyclic \/ \A s \in Nodes :
                 /\ \A d \in deps[s] : level[d] < level[s]
                 /\ level[s] = 0 \/ \E d \in deps[s] : level[s] = level[d] + 1
=============================================================================

--------------------------- MODULE MCUpScheduler ---------------------------
(***************************************************************************)
(* Compose files for UpScheduler: up to four services and two replicas.      *)
(***************************************************************************)
EXTENDS UpScheduler, TLC

CONSTANTS db, app, web, cache

MCService == {db, app, web, cache}

None == [s \in MCService |-> [d \in MCService |-> "none"]]
One == [s \in MCService |-> 1]
NoCheck == [s \in MCService |-> "none"]
Needs(c) == [s \in MCService |-> {d \in MCService : c[s][d] # "none"}]

Edge(c, s, d, v) == [c EXCEPT ![s][d] = v]

Base ==
    [scheduled |-> {db, app, web}, explicit |-> {}, cond |-> None, required |-> Needs(None),
     replicas |-> One, check |-> NoCheck, start |-> TRUE, present |-> {}, keep |-> {},
     endless |-> {}, builds |-> {}]

\* web needs app up and db healthy; app needs db healthy: one shared poller.
SharedCond == Edge(Edge(Edge(None, app, db, "healthy"), web, db, "healthy"), web, app, "started")
Shared ==
    [Base EXCEPT !.cond = SharedCond, !.required = Needs(SharedCond),
                 !.check = [NoCheck EXCEPT ![db] = "declared"]]

\* The same, db optional to app but not to web, and left over from an earlier run.
Mixed ==
    [Shared EXCEPT !.required[app] = {}, !.present = {<<db, 1>>}]

\* db optional to both, kept as it is and healthy or not.
Optional ==
    [Shared EXCEPT !.required = [s \in MCService |-> IF s = web THEN {app} ELSE {}],
                   !.present = {<<db, 1>>}, !.keep = {<<db, 1>>}]

\* Named on the command line, an optional dependency is not tolerated.
Named == [Optional EXCEPT !.explicit = {db}]

\* A migration of two replicas that must complete, and no healthcheck at all;
\* some hooks may never end.
JobCond == Edge(Edge(None, app, db, "completed"), web, db, "healthy")
Job ==
    [Base EXCEPT !.cond = JobCond, !.required = Needs(JobCond), !.replicas[db] = 2,
                 !.endless = {<<db, 2>>, <<app, 1>>}]

\* Two replicas that must be healthy, one of them kept; the other is replaced;
\* init steps, hooks and a build that may never end.
ScaledCond == Edge(None, web, db, "healthy")
Scaled ==
    [Base EXCEPT !.scheduled = {db, web}, !.cond = ScaledCond, !.required = Needs(ScaledCond),
                 !.replicas[db] = 2, !.check[db] = "declared",
                 !.present = {<<db, 1>>, <<db, 2>>}, !.keep = {<<db, 1>>},
                 !.endless = {<<db, 1>>, <<db, 2>>}, !.builds = {web}]

\* A disabled healthcheck, a dependency scaled to zero, one left out of the run.
LooseCond == Edge(Edge(None, app, db, "healthy"), web, app, "completed")
Loose ==
    [Base EXCEPT !.cond = LooseCond, !.required = Needs(LooseCond),
                 !.check[db] = "disabled", !.replicas[app] = 0]
NoDeps == [Shared EXCEPT !.scheduled = {web}, !.explicit = {web}]

\* `create`: nothing is awaited, nothing is started.
Create == [Shared EXCEPT !.start = FALSE, !.present = {<<db, 1>>}, !.keep = {<<db, 1>>}]

\* A diamond: app and cache need db healthy, web needs app and, optionally, a
\* cache warm-up that must have completed.
DiamondCond ==
    Edge(Edge(Edge(Edge(None, app, db, "healthy"), cache, db, "healthy"),
              web, app, "started"), web, cache, "completed")
Diamond ==
    [Base EXCEPT !.scheduled = MCService, !.cond = DiamondCond, !.check[db] = "declared",
                 !.required = [Needs(DiamondCond) EXCEPT ![web] = {app}]]

MCFiles == {Diamond, Shared, Mixed, Optional, Named, Job, Scaled, Loose, NoDeps, Create}

ASSUME FilesAcyclic == \A f \in MCFiles : Acyclic(f)
=============================================================================

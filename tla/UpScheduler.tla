---------------------------- MODULE UpScheduler ----------------------------
(***************************************************************************)
(* How `podup up` brings the scheduled services of a compose file up: one  *)
(* future per service (lifecycle/up/schedule.rs), each of which waits for  *)
(* its own dependencies, takes one of a bounded number of permits, runs    *)
(* the depends_on conditions, acquires the image and fans its replicas out *)
(* (lifecycle/up/up_one.rs).  Dependents of one container share a single   *)
(* healthcheck poller (lifecycle/up/readiness.rs).  The first failure that *)
(* is not tolerated cancels every other future.                            *)
(*                                                                         *)
(* The compose file is a record chosen in Init and never changed:          *)
(*   scheduled  the enabled services of the target set                     *)
(*   explicit   the services named on the command line                     *)
(*   cond       cond[s][d]: the condition s declares on d, or "none"       *)
(*   required   required[s]: the dependencies of s not `required: false`   *)
(*   replicas   the replica count of each service                          *)
(*   check      the effective healthcheck: none, declared or disabled      *)
(*   start      TRUE for `up`, FALSE for `create`                          *)
(*   present    the containers of the snapshot taken before the walk       *)
(*   keep       those that no_recreate or an equal hash leaves in place    *)
(*   endless    the containers whose init steps or hooks may never exit    *)
(*   builds     the services whose image build may never end               *)
(* Containers belong to the environment as well: they exit, and their      *)
(* health flips, whenever they like.                                       *)
(***************************************************************************)
EXTENDS Naturals, FiniteSets

CONSTANTS
    Service,      \* the services of the project
    MaxReplicas,  \* the replica limit the model explores
    Permits,      \* MAX_LIFECYCLE_CONCURRENCY
    Files,        \* the compose files the model explores
    NoWait        \* a service that waits for no container

Container == Service \X (1 .. MaxReplicas)
Conditions == {"started", "healthy", "completed"}

FileType ==
    [scheduled : SUBSET Service,
     explicit  : SUBSET Service,
     cond      : [Service -> [Service -> Conditions \cup {"none"}]],
     required  : [Service -> SUBSET Service],
     replicas  : [Service -> 0 .. MaxReplicas],
     check     : [Service -> {"none", "declared", "disabled"}],
     start     : BOOLEAN,
     present   : SUBSET Container,
     keep      : SUBSET Container,
     endless   : SUBSET Container,
     builds    : SUBSET Service]

\* resolve_levels has rejected every cycle before the walk begins.
Acyclic(f) ==
    \E rank \in [Service -> 1 .. Cardinality(Service)] :
        \A s, d \in Service : f.cond[s][d] # "none" => rank[d] < rank[s]

ASSUME ReplicasAssumption == MaxReplicas \in Nat /\ Permits \in Nat \ {0}
ASSUME NoWaitAssumption   == NoWait \notin Container
ASSUME FilesAssumption    == \A f \in Files : f \in FileType /\ f.keep \subseteq f.present

VARIABLES
    file,     \* the compose file of this run
    phase,    \* try_join_all: still running, all Ok, or the first error
    pc,       \* where the future of each service is
    done,     \* the watch channel each service signals its dependents on
    at,       \* the container whose condition a service is awaiting
    passed,   \* the containers whose condition a service has gone past
    poll,     \* the shared readiness future of each container
    rep,      \* the future of each replica
    cont,     \* the containers as Podman sees them
    healthy,  \* the health status Podman last recorded
    brought,  \* history: the containers this run has left started
    sawHealthy \* history: the containers seen healthy since they were created

vars == <<file, phase, pc, done, at, passed, poll, rep, cont, healthy, brought, sawHealthy>>
contVars == <<cont, healthy, brought, sawHealthy>>

PCs == {"off", "deps", "queued", "conds", "image", "work", "end"}
Running == {"conds", "image", "work"}

TypeOK ==
    /\ file \in Files
    /\ phase \in {"running", "ok", "failed"}
    /\ pc \in [Service -> PCs]
    /\ done \in [Service -> {"none", "true", "false"}]
    /\ at \in [Service -> Container \cup {NoWait}]
    /\ passed \in [Service -> SUBSET Container]
    /\ poll \in [Container -> {"idle", "inspect", "polling", "ok", "err"}]
    /\ rep \in [Container -> {"todo", "created", "started", "ok", "err"}]
    /\ cont \in [Container -> {"absent", "created", "running", "succeeded", "crashed"}]
    /\ healthy \in [Container -> BOOLEAN]
    /\ brought \subseteq Container
    /\ sawHealthy \subseteq Container

-----------------------------------------------------------------------------
\* The dependencies of s that are in this run and will therefore signal.
Deps(s) == {d \in file.scheduled : file.cond[s][d] # "none"}

Replicas(s) == {s} \X (1 .. file.replicas[s])

\* The containers s awaits: service_started is met as soon as the dependency
\* has signalled, and a disabled healthcheck counts as satisfied.
Gates(s, d) ==
    \/ file.cond[s][d] = "completed"
    \/ file.cond[s][d] = "healthy" /\ file.check[d] # "disabled"
\* Mutant: only the first replica of a dependency is awaited.
WaitsFirstReplica(s) ==
    IF file.start
      THEN {<<d, 1>> : d \in {x \in Deps(s) : Gates(s, x) /\ file.replicas[x] > 0}} ELSE {}
Waits(s) ==
    IF file.start THEN UNION {Replicas(d) : d \in {x \in Deps(s) : Gates(s, x)}} ELSE {}

Dependents(d) == {s \in file.scheduled : file.cond[s][d] # "none"}
\* Mutant: one dependent that can do without d is enough.
optional_for_some_dependent(d) ==
    \E s \in Dependents(d) : d \notin file.required[s]
optional_for_every_dependent(d) ==
    /\ Dependents(d) # {}
    /\ \A s \in Dependents(d) : d \notin file.required[s]
\* Mutant: a service named on the command line is tolerated too.
ToleratedEvenNamed(s) == optional_for_every_dependent(s)
Tolerated(s) == s \notin file.explicit /\ optional_for_every_dependent(s)

\* wait_healthy's reading of one inspect: a failed exit first, then the status
\* Podman recorded last, which a dead container keeps.
classify_health(c) ==
    IF cont[c] \in {"crashed", "absent"} THEN "err"
    ELSE IF healthy[c] \/ file.check[c[1]] = "none" THEN "ok"
    ELSE "polling"

Init ==
    /\ file \in Files
    /\ phase = "running"
    /\ pc = [s \in Service |-> IF s \in file.scheduled THEN "deps" ELSE "off"]
    /\ done = [s \in Service |-> "none"]
    /\ at = [s \in Service |-> NoWait]
    /\ passed = [s \in Service |-> {}]
    /\ poll = [c \in Container |-> "idle"]
    /\ rep = [c \in Container |-> "todo"]
    /\ \E present \in [file.present -> {"created", "running", "succeeded", "crashed"}] :
          cont = [c \in Container |-> IF c \in file.present THEN present[c] ELSE "absent"]
    /\ healthy \in [Container -> BOOLEAN]
    /\ \A c \in Container : healthy[c] => file.check[c[1]] # "none" /\ cont[c] \notin {"absent", "created"}
    /\ brought = {}
    /\ sawHealthy = {}

-----------------------------------------------------------------------------
\* Mutant: a failure signals its dependents whoever needs it.
FailSignals(s) ==
    /\ pc' = [pc EXCEPT ![s] = "end"]
    /\ done' = [done EXCEPT ![s] = "false"] /\ UNCHANGED phase

\* The service's future ends with an error: tolerated, it releases its
\* dependents and the run goes on; otherwise try_join_all drops the rest.
Fail(s) ==
    /\ pc' = [pc EXCEPT ![s] = "end"]
    /\ IF Tolerated(s)
         THEN done' = [done EXCEPT ![s] = "false"] /\ UNCHANGED phase
         ELSE phase' = "failed" /\ UNCHANGED done

\* Mutant: a service does not wait for its dependencies to signal.
DepsIgnored(s) ==
    /\ phase = "running" /\ pc[s] = "deps"
    /\ pc' = [pc EXCEPT ![s] = "queued"]
    /\ UNCHANGED <<file, phase, done, at, passed, poll, rep, contVars>>

\* Every dependency in the run has signalled.
DepsSignalled(s) ==
    /\ phase = "running" /\ pc[s] = "deps"
    /\ \A d \in Deps(s) : done[d] # "none"
    /\ pc' = [pc EXCEPT ![s] = "queued"]
    /\ UNCHANGED <<file, phase, done, at, passed, poll, rep, contVars>>

TakePermit(s) ==
    /\ phase = "running" /\ pc[s] = "queued"
    /\ Cardinality({x \in Service : pc[x] \in Running}) < Permits
    /\ pc' = [pc EXCEPT ![s] = "conds"]
    /\ UNCHANGED <<file, phase, done, at, passed, poll, rep, contVars>>

\* The next container of the depends_on loop.  The first dependent to await a
\* container's shared future starts its poller.
Await(s, c) ==
    /\ phase = "running" /\ pc[s] = "conds" /\ at[s] = NoWait
    /\ c \in Waits(s) \ passed[s]
    /\ at' = [at EXCEPT ![s] = c]
    /\ poll' = IF file.cond[s][c[1]] = "healthy" /\ poll[c] = "idle"
                 THEN [poll EXCEPT ![c] = "inspect"] ELSE poll
    /\ UNCHANGED <<file, phase, pc, done, passed, rep, contVars>>

\* wait_healthy, run once for all the dependents of c: one inspect decides the
\* short cuts, later ones and the on-demand check runs only matter when they
\* say healthy or show a failed exit, and the budget ends the wait.
PollInspect(c) ==
    /\ phase = "running" /\ poll[c] = "inspect"
    /\ \/ poll' = [poll EXCEPT ![c] = classify_health(c)]
       \/ poll' = [poll EXCEPT ![c] = "err"]
    /\ UNCHANGED <<file, phase, pc, done, at, passed, rep, contVars>>

PollStep(c) ==
    /\ phase = "running" /\ poll[c] = "polling"
    /\ cont[c] # "absent" /\ classify_health(c) # "polling"
    /\ poll' = [poll EXCEPT ![c] = classify_health(c)]
    /\ UNCHANGED <<file, phase, pc, done, at, passed, rep, contVars>>

\* Mutant: the wait has no budget.
PollUnbounded(c) ==
    phase = "running" /\ poll[c] = "polling" /\ UNCHANGED <<file, phase, pc, done, at, passed, poll, rep, contVars>>
PollTimeout(c) ==
    /\ phase = "running" /\ poll[c] = "polling"
    /\ poll' = [poll EXCEPT ![c] = "err"]
    /\ UNCHANGED <<file, phase, pc, done, at, passed, rep, contVars>>

\* The condition the service awaits is met.
WaitMet(s) ==
    /\ phase = "running" /\ pc[s] = "conds" /\ at[s] # NoWait
    /\ \/ file.cond[s][at[s][1]] = "healthy" /\ poll[at[s]] = "ok"
       \/ file.cond[s][at[s][1]] = "completed" /\ cont[at[s]] = "succeeded"
    /\ passed' = [passed EXCEPT ![s] = @ \cup {at[s]}]
    /\ at' = [at EXCEPT ![s] = NoWait]
    /\ UNCHANGED <<file, phase, pc, done, poll, rep, contVars>>

\* The wait fails: the shared poller's error, or (wait_completed) a non-zero
\* exit, a failed request or the 600 s budget.  An optional dependency is
\* gone past, a required one is the service's own error.
WaitFailed(s) ==
    /\ phase = "running" /\ pc[s] = "conds" /\ at[s] # NoWait
    /\ \/ file.cond[s][at[s][1]] = "healthy" /\ poll[at[s]] = "err"
       \/ file.cond[s][at[s][1]] = "completed"
    /\ at' = [at EXCEPT ![s] = NoWait]
    /\ IF at[s][1] \in file.required[s]
         THEN Fail(s) /\ UNCHANGED passed
         ELSE passed' = [passed EXCEPT ![s] = @ \cup {at[s]}] /\ UNCHANGED <<pc, done, phase>>
    /\ UNCHANGED <<file, poll, rep, contVars>>

\* The loop is over; acquire_service_image is next.
CondsMet(s) ==
    /\ phase = "running" /\ pc[s] = "conds" /\ at[s] = NoWait
    /\ Waits(s) \subseteq passed[s]
    /\ pc' = [pc EXCEPT ![s] = "image"]
    /\ UNCHANGED <<file, phase, done, at, passed, poll, rep, contVars>>

\* The image is there, the replica count is accepted and the environment read.
ImageAcquired(s) ==
    /\ phase = "running" /\ pc[s] = "image"
    /\ pc' = [pc EXCEPT ![s] = "work"]
    /\ UNCHANGED <<file, phase, done, at, passed, poll, rep, contVars>>

ServiceRejected(s) ==
    /\ phase = "running" /\ pc[s] = "image"
    /\ Fail(s)
    /\ UNCHANGED <<file, at, passed, poll, rep, contVars>>

-----------------------------------------------------------------------------
\* up_one_replica, one future per replica of a service that is working.
Working(c) == phase = "running" /\ pc[c[1]] = "work" /\ c \in Replicas(c[1])

\* The container is left in place; `up` makes sure it runs.
KeepReplica(c) ==
    /\ Working(c) /\ rep[c] = "todo" /\ c \in file.keep
    /\ rep' = [rep EXCEPT ![c] = "ok"]
    /\ IF file.start
         THEN /\ cont' = [cont EXCEPT ![c] = "running"]
              /\ healthy' = IF cont[c] = "running" THEN healthy ELSE [healthy EXCEPT ![c] = FALSE]
              /\ brought' = brought \cup {c}
              /\ sawHealthy' = IF cont[c] = "running" /\ healthy[c]
                               THEN sawHealthy \cup {c} ELSE sawHealthy
         ELSE UNCHANGED contVars
    /\ UNCHANGED <<file, phase, pc, done, at, passed, poll>>

\* The old container is replaced by a new one, which `create` leaves as it is.
CreateReplica(c) ==
    /\ Working(c) /\ rep[c] = "todo" /\ c \notin file.keep
    /\ rep' = [rep EXCEPT ![c] = IF file.start THEN "created" ELSE "ok"]
    /\ cont' = [cont EXCEPT ![c] = "created"]
    /\ healthy' = [healthy EXCEPT ![c] = FALSE]
    /\ brought' = brought \ {c}
    /\ sawHealthy' = sawHealthy \ {c}
    /\ UNCHANGED <<file, phase, pc, done, at, passed, poll>>

StartReplica(c) ==
    /\ Working(c) /\ rep[c] = "created"
    /\ rep' = [rep EXCEPT ![c] = "started"]
    /\ cont' = [cont EXCEPT ![c] = "running"]
    /\ brought' = brought \cup {c}
    /\ UNCHANGED <<file, phase, pc, done, at, passed, poll, healthy, sawHealthy>>

PostStartHooks(c) ==
    /\ Working(c) /\ rep[c] = "started"
    /\ rep' = [rep EXCEPT ![c] = "ok"]
    /\ UNCHANGED <<file, phase, pc, done, at, passed, poll, contVars>>

\* A call fails: the name is taken, the old container went and the new one was
\* refused, the start failed, a hook failed.
ReplicaFailed(c) ==
    /\ Working(c) /\ rep[c] \in {"todo", "created", "started"}
    /\ rep' = [rep EXCEPT ![c] = "err"]
    /\ \/ UNCHANGED contVars
       \/ /\ rep[c] = "todo" /\ c \notin file.keep
          /\ cont' = [cont EXCEPT ![c] = "absent"]
          /\ healthy' = [healthy EXCEPT ![c] = FALSE]
          /\ UNCHANGED <<brought, sawHealthy>>
    /\ UNCHANGED <<file, phase, pc, done, at, passed, poll>>

\* join_bounded ran the whole batch; first_error decides.
Joined(s) == pc[s] = "work" /\ \A c \in Replicas(s) : rep[c] \in {"ok", "err"}
FirstError(s) == \E c \in Replicas(s) : rep[c] = "err"

ServiceUp(s) ==
    /\ phase = "running" /\ Joined(s) /\ ~FirstError(s)
    /\ pc' = [pc EXCEPT ![s] = "end"]
    /\ done' = [done EXCEPT ![s] = "true"]
    /\ UNCHANGED <<file, phase, at, passed, poll, rep, contVars>>

ServiceFailed(s) ==
    /\ phase = "running" /\ Joined(s) /\ FirstError(s)
    /\ Fail(s)
    /\ UNCHANGED <<file, at, passed, poll, rep, contVars>>

AllUp ==
    /\ phase = "running" /\ \A s \in file.scheduled : pc[s] = "end"
    /\ phase' = "ok"
    /\ UNCHANGED <<file, pc, done, at, passed, poll, rep, contVars>>

-----------------------------------------------------------------------------
\* What containers do on their own.
Exit(c) ==
    /\ cont[c] = "running"
    /\ \E code \in {"succeeded", "crashed"} : cont' = [cont EXCEPT ![c] = code]
    /\ UNCHANGED <<file, phase, pc, done, at, passed, poll, rep, healthy, brought, sawHealthy>>

HealthFlip(c) ==
    /\ cont[c] = "running" /\ file.check[c[1]] # "none"
    /\ healthy' = [healthy EXCEPT ![c] = ~@]
    /\ sawHealthy' = IF ~healthy[c] THEN sawHealthy \cup {c} ELSE sawHealthy
    /\ UNCHANGED <<file, phase, pc, done, at, passed, poll, rep, cont, brought>>

\* The command has its result; only this lets the walk stop.
Returned == phase # "running" /\ UNCHANGED vars

Advance(s) ==
    \/ DepsSignalled(s) \/ TakePermit(s) \/ WaitMet(s) \/ WaitFailed(s) \/ CondsMet(s)
    \/ ImageAcquired(s) \/ ServiceRejected(s) \/ ServiceUp(s) \/ ServiceFailed(s)
    \/ \E c \in Container : Await(s, c)
Poller(c) == PollInspect(c) \/ PollStep(c) \/ PollTimeout(c)
Replica(c) ==
    KeepReplica(c) \/ CreateReplica(c) \/ StartReplica(c) \/ PostStartHooks(c) \/ ReplicaFailed(c)

Next ==
    \/ \E s \in Service : Advance(s)
    \/ \E c \in Container : Poller(c) \/ Replica(c) \/ Exit(c) \/ HealthFlip(c)
    \/ AllUp \/ Returned

\* The user's own programs that are waited for without a bound: an init step,
\* which runs before a container is made or a kept one that stopped is started
\* (post_empty_json_unbounded); a post_start hook, whose exec stream is followed
\* to its end; a build, whose stream is.
UserCode(c) ==
    /\ Working(c) /\ c \in file.endless
    /\ \/ rep[c] = "started"
       \/ rep[c] = "todo" /\ (c \in file.keep => file.start /\ cont[c] # "running")
Building(s) == phase = "running" /\ pc[s] = "image" /\ s \in file.builds
UserCodeRuns == (\E c \in Container : UserCode(c)) \/ (\E s \in Service : Building(s))

\* Every future is polled, and but for those programs every request is answered
\* or times out and every wait has a budget.  Containers owe nobody a step.
Fairness ==
    /\ \A s \in Service : WF_vars(~Building(s) /\ Advance(s))
    /\ \A c \in Container : WF_vars(Poller(c)) /\ WF_vars(~UserCode(c) /\ Replica(c))
    /\ WF_vars(AllUp)

Spec == Init /\ [][Next]_vars
FairSpec == Spec /\ Fairness

-----------------------------------------------------------------------------
\* A service that has left the dependency wait has every required dependency
\* of this run up: not merely finished, and never given up as optional on
\* behalf of somebody else (schedule.rs, the done channel and `tolerated`).
RequiredDepsUp ==
    \A s \in file.scheduled : pc[s] \notin {"off", "deps"} =>
        \A d \in Deps(s) \cap file.required[s] : done[d] = "true"

\* A service whose image and containers are being dealt with, or which is up,
\* had its required conditions met by the containers of THIS run: each replica
\* of the dependency left running by it, seen healthy since its container was
\* created or started when service_healthy asks for it, and exited with 0 when
\* service_completed_successfully does.  A container of an earlier run, or the
\* verdict of a poller that looked too soon, does not count.
ConditionsHeld ==
    \A s \in file.scheduled :
        file.start /\ (pc[s] \in {"image", "work"} \/ done[s] = "true") =>
            \A d \in Deps(s) \cap file.required[s] : \A c \in Replicas(d) :
                /\ c \in brought
                /\ file.cond[s][d] = "healthy" /\ file.check[d] = "declared" => c \in sawHealthy
                /\ file.cond[s][d] = "completed" => cont[c] = "succeeded"

\* Why these hold: the parts of an inductive invariant.
DoneIsLast == \A s \in Service : done[s] # "none" => pc[s] = "end"
OnlyScheduled == \A s \in Service : pc[s] # "off" => s \in file.scheduled
DepsDone ==
    \A s \in Service : pc[s] \notin {"off", "deps"} => \A d \in Deps(s) : done[d] # "none"
GivenUpTolerated == \A s \in Service : done[s] = "false" => Tolerated(s)
ReplicaState ==
    \A c \in Container :
        /\ rep[c] = "created" => cont[c] = "created" /\ ~healthy[c] /\ file.start
        /\ rep[c] = "started" => c \in brought
        /\ rep[c] = "ok" /\ file.start => c \in brought
        /\ c \in brought /\ healthy[c] => c \in sawHealthy
ReplicasUp == \A s \in Service : done[s] = "true" => \A c \in Replicas(s) : rep[c] = "ok"
PollerAfterDone ==
    \A c \in Container : poll[c] # "idle" =>
        /\ done[c[1]] # "none" /\ c \in Replicas(c[1]) /\ file.start
        /\ poll[c] = "ok" /\ done[c[1]] = "true" /\ file.check[c[1]] = "declared"
              => c \in sawHealthy
Awaited ==
    \A s \in Service :
        /\ at[s] # NoWait => pc[s] = "conds" /\ at[s] \in Waits(s)
        /\ passed[s] \subseteq Waits(s)
        /\ passed[s] # {} => pc[s] \notin {"off", "deps"}
        /\ pc[s] \in {"image", "work"} \/ done[s] = "true" => Waits(s) \subseteq passed[s]
PassedMet ==
    \A s \in Service : \A c \in passed[s] : c[1] \in file.required[s] =>
        /\ file.cond[s][c[1]] = "healthy" => poll[c] = "ok"
        /\ file.cond[s][c[1]] = "completed" => cont[c] = "succeeded"

IInv ==
    /\ TypeOK /\ DoneIsLast /\ OnlyScheduled /\ DepsDone /\ GivenUpTolerated
    /\ ReplicaState /\ ReplicasUp /\ PollerAfterDone /\ Awaited /\ PassedMet

\* `up` returns success only when every scheduled service has all its replicas
\* started, or failed while being named by nobody and needed by nobody.
SuccessMeansUp ==
    phase = "ok" => \A s \in file.scheduled :
        \/ done[s] = "true" /\ (file.start => Replicas(s) \subseteq brought)
        \/ /\ done[s] = "false" /\ s \notin file.explicit
           /\ \A t \in file.scheduled : file.cond[t][s] # "none" => s \notin file.required[t]

\* A service starts on what the compose file says it depends on, and on nothing less:
\* every required dependency up, and every condition met by this run's containers.
DependenciesHonoured == RequiredDepsUp /\ ConditionsHeld

\* The walk ends, unless it stays for ever with an init step, a hook or a build
\* of the user's that never ends: with any number of permits, no set of services
\* can wait for one another, for a permit, for a dependency that never signals
\* or for a condition that is never met.
Terminates == <>(phase # "running") \/ <>[]UserCodeRuns

\* schedule.rs: "the concurrency bound is a semaphore held only across the
\* actual work, never across a dependency wait" and "a blocked service never
\* occupies one".
NoPermitAcrossDependencyWait ==
    \A s \in Service : pc[s] \in Running => at[s] = NoWait

\* The order podup promises, and the mapping of the scheduler to it.
hard_deps == [s \in Service |-> Deps(s) \cap file.required[s]]
run_deps == [s \in Service |-> Deps(s)]
progress ==
    [s \in Service |->
        CASE done[s] = "true" -> "up"
          [] done[s] = "false" -> "given_up"
          [] done[s] = "none" /\ pc[s] \in {"off", "deps", "queued"} -> "waiting"
          [] OTHER -> "starting"]
Order == INSTANCE DependencyOrder WITH
    scheduled <- file.scheduled, needs <- hard_deps, wants <- run_deps,
    named <- file.explicit, state <- progress, verdict <- phase
ImplementsOrder == Order!OSpec
=============================================================================

----------------------------- MODULE ProjectSession -----------------------------
(***************************************************************************)
(* Several podup processes on one project at once (command_line/dispatch,  *)
(* engine/project/lock, lifecycle/scale, lifecycle/run, observe/query/     *)
(* attach).  A command that changes containers holds the project's lock;   *)
(* a foreground up lets go of it while it follows logs; watch never takes  *)
(* it, but an up --watch keeps it while it watches.  Containers are known by name, which others may come to bear, or by *)
(* an ID, which is never given twice.                                      *)
(*                                                                         *)
(* The project has one service.  How its containers are created and what   *)
(* they depend on is in ReplicaLifecycle and UpScheduler; a create or a    *)
(* removal is one step here.                                               *)
(***************************************************************************)
EXTENDS Naturals, FiniteSets

CONSTANTS Terminals,
          CommandsOf,       \* the commands each terminal is used for
          MaxReplicas,      \* max_replicas
          Declared,         \* the replicas the compose file asks for
          FixedName,        \* does the service set container_name
          FixedPort,        \* does it publish a fixed host port
          UniquePids,       \* does no run get the PID of one before it
          Unscaled, Free,
          MaxIds,           \* bound: containers ever created
          MaxRuns,          \* bound: commands of each terminal
          MaxHand           \* bound: things done by hand

\* 0 is the service's name without a number; a terminal stands for its PID.
Names == (0..MaxReplicas) \cup Terminals

Verbs == {"up", "create", "scale", "start", "stop", "down", "run", "watch"}
Modes == {"detach", "attach", "abort", "watch"}

ASSUME CommandAssumption ==
  \A t \in Terminals :
    /\ CommandsOf[t] # {}
    /\ \A c \in CommandsOf[t] :
         /\ c.verb \in Verbs /\ c.mode \in Modes
         /\ c.scale \in Nat \cup {Unscaled}
         /\ c.verb = "scale" => c.scale \in Nat
         /\ c.scale # Unscaled => c.verb \in {"up", "create", "scale"}
         /\ c.name \in Names /\ c.rm \in BOOLEAN /\ c.orphans \in BOOLEAN /\ c.slow \in BOOLEAN
         /\ c.verb = "run" => c.name \in (0..MaxReplicas) \cup {t}

\* max_replicas() is never 0; a name that carries a PID is no replica's.
ASSUME SizeAssumption ==
  /\ MaxReplicas \in Nat \ {0} /\ Declared \in Nat /\ MaxIds \in Nat /\ MaxHand \in Nat
  /\ MaxRuns \in [Terminals -> Nat]
  /\ FixedName \in BOOLEAN /\ FixedPort \in BOOLEAN /\ UniquePids \in BOOLEAN
  /\ Free \notin Terminals /\ Unscaled \notin Nat
  /\ Terminals \cap (0..MaxReplicas) = {}

VARIABLES
  cont,       \* the container of each name
  lock,       \* who holds the project's lock
  cmd,        \* the command of each terminal
  pc,
  work,       \* what it has found out: the containers it listed (existing), the
              \* IDs captured before it attached (snapshot), names still to be
              \* dealt with (todo), whether something failed (err), and the
              \* container its run created (mine)
  ids,        \* containers created so far
  harm,       \* history: what was done to containers that are none of its business
  meddled,    \* history: who had containers changed under it without the lock
  runs, hands

vars == <<cont, lock, cmd, pc, work, ids, harm, meddled, runs, hands>>
outside == <<cmd, runs, hands>>
podman == <<cont, ids, harm, meddled>>

None == [id |-> 0, kind |-> "none", up |-> FALSE]
Ours == {"replica", "oneoff"}
Nothing == [n \in Names |-> None]
Fresh == [existing |-> Nothing, snapshot |-> [n \in Names |-> 0], todo |-> {}, err |-> FALSE, mine |-> 0]
Ended == {"idle", "ok", "failed"}

(***************************************************************************)
(* Which names a service has.                                              *)
(***************************************************************************)

IgnoreOverride(c) == Declared

resolve_replicas(c) == IF c.scale # Unscaled THEN c.scale ELSE Declared

replica_names_for(count) ==
  IF FixedName /\ count <= 1 THEN (IF count = 0 THEN {} ELSE {0}) ELSE 1..count

replica_names(c) == replica_names_for(resolve_replicas(c))

first_replica_name(c) ==
  IF replica_names(c) = {} THEN 0
  ELSE CHOOSE n \in replica_names(c) : \A m \in replica_names(c) : n <= m

check_replica_limit(c) == resolve_replicas(c) <= MaxReplicas

check_scale_port_conflict(c) == resolve_replicas(c) > 1 => ~FixedPort

check_fixed_name_scale(c) == resolve_replicas(c) > 1 => ~FixedName

Accepted(c) == check_replica_limit(c) /\ check_scale_port_conflict(c) /\ check_fixed_name_scale(c)

(***************************************************************************)
(* Listings.                                                               *)
(***************************************************************************)

\* ExistingContainer::snapshot: what the project owns, one-offs included.
project_container_entries == [n \in Names |-> IF cont[n].kind \in Ours THEN cont[n] ELSE None]

is_one_off(entry) == entry.kind = "oneoff"

live_project_replicas == {n \in Names : cont[n].kind \in Ours}

live_service_replicas == {n \in live_project_replicas : ~is_one_off(cont[n])}

orphan_container_names(c) ==
  {n \in live_project_replicas : ~is_one_off(cont[n]) /\ n \notin replica_names(c)}

AllOutside(t) == {n \in Names : work[t].existing[n].kind # "none" /\ n \notin replica_names(cmd[t])}

\* remove_surplus_replicas, from the list the command began with.
surplus(t) ==
  {n \in Names : work[t].existing[n].kind # "none" /\ ~is_one_off(work[t].existing[n])
                 /\ n \notin replica_names(cmd[t])}

snapshot_containers == [n \in Names |-> IF cont[n].kind = "replica" THEN cont[n].id ELSE 0]

(***************************************************************************)
(* The lock.                                                               *)
(***************************************************************************)

is_mutating(c) == c.verb # "watch"

Init ==
  /\ cont = Nothing
  /\ lock = Free
  /\ cmd \in [Terminals -> UNION {CommandsOf[t] : t \in Terminals}]
  /\ \A t \in Terminals : cmd[t] = CHOOSE c \in CommandsOf[t] : TRUE
  /\ pc = [t \in Terminals |-> "idle"]
  /\ work = [t \in Terminals |-> Fresh]
  /\ ids = 0
  /\ harm = {}
  /\ meddled = {}
  /\ runs = [t \in Terminals |-> 0]
  /\ hands = 0

\* Where a command begins once it may.
First(c) ==
  CASE c.verb \in {"up", "create"} -> IF c.orphans THEN "orphans" ELSE "check"
    [] c.verb = "scale" -> "check"
    [] c.verb = "run" -> "name"
    [] c.verb = "watch" -> "watching"
    [] OTHER -> "select"

Begin(t, c) ==
  /\ pc[t] \in Ended /\ runs[t] < MaxRuns[t]
  /\ (c.verb = "run" /\ c.name = t /\ UniquePids) => cont[t] = None
  /\ runs' = [runs EXCEPT ![t] = @ + 1]
  /\ cmd' = [cmd EXCEPT ![t] = c]
  /\ pc' = [pc EXCEPT ![t] = IF is_mutating(c) THEN "lock" ELSE First(c)]
  /\ meddled' = meddled \ {t}
  /\ UNCHANGED <<cont, lock, work, ids, harm, hands>>

Go(t, stage) == pc' = [pc EXCEPT ![t] = stage]

On(t, stage) == Go(t, stage) /\ UNCHANGED <<lock, work>>

\* The guard is dropped with the command, and the kernel drops the flock.
End(t, result) ==
  /\ Go(t, result)
  /\ lock' = IF lock = t THEN Free ELSE lock
  /\ work' = [work EXCEPT ![t] = Fresh]

\* On to these names, one by one.
Over(t, stage, names) ==
  /\ Go(t, stage)
  /\ work' = [work EXCEPT ![t].todo = names]
  /\ UNCHANGED lock

Done(t, n) == work' = [work EXCEPT ![t].todo = @ \ {n}]

Failed(t, n) == work' = [work EXCEPT ![t].todo = @ \ {n}, ![t].err = TRUE]

\* flock(LOCK_EX) waits until nobody has it.
acquire(t, stage) ==
  /\ lock = Free
  /\ lock' = t
  /\ Go(t, stage)
  /\ UNCHANGED <<podman, work, outside>>

lock_project(t) == pc[t] = "lock" /\ acquire(t, First(cmd[t]))

\* An unsafe project name, or a lock file that is not a regular file of ours.
open_lock_file(t) ==
  /\ pc[t] \in {"lock", "relock"}
  /\ End(t, "failed")
  /\ UNCHANGED <<podman, outside>>

(***************************************************************************)
(* Containers come and go.                                                 *)
(***************************************************************************)

\* What it means to lose container x to terminal t, for history.
Harm(t, x, how) ==
  CASE how = "watch" /\ is_one_off(x) -> {"watch"}
    [] how = "walk" /\ is_one_off(x) -> {"oneoff"}
    [] how = "pid" /\ is_one_off(x) -> {"pid"}
    [] how = "stop" /\ (x.kind # "replica" \/ \A n \in Names : x.id # work[t].snapshot[n]) -> {"later"}
    [] how = "clean" /\ (x.kind # "oneoff" \/ x.id # work[t].mine) -> {"others"}
    [] OTHER -> {}

Blame(t, x, how) == harm' = harm \cup Harm(t, x, how)

\* create_container: what bears the name goes, if the project owns it.
Put(t, n, kind, up, how) ==
  /\ cont[n].kind # "foreign" /\ ids < MaxIds
  /\ ids' = ids + 1
  /\ cont' = [cont EXCEPT ![n] = [id |-> ids + 1, kind |-> kind, up |-> up]]
  /\ Blame(t, cont[n], how)

Remove(t, n, how) ==
  /\ cont' = [cont EXCEPT ![n] = None]
  /\ Blame(t, cont[n], how)
  /\ UNCHANGED ids

\* create_container got as far as removing what bore the name.
Cleared(t, n, how) == cont[n].kind \in Ours /\ Remove(t, n, how)

Set(n, up) ==
  /\ cont' = IF cont[n] = None THEN cont ELSE [cont EXCEPT ![n].up = up]
  /\ UNCHANGED <<ids, harm>>

Refused(t, n) == Failed(t, n) /\ UNCHANGED <<cont, ids, harm>>

\* One request about one name of the loop.
Loop(t, n, stage) ==
  /\ pc[t] = stage /\ n \in work[t].todo
  /\ UNCHANGED <<lock, pc, meddled, outside>>

\* The names are through.
Through(t, stage) ==
  /\ pc[t] = stage /\ work[t].todo = {}
  /\ UNCHANGED <<podman, outside>>

(***************************************************************************)
(* up, create and scale.                                                   *)
(***************************************************************************)

remove_orphans(t) ==
  /\ pc[t] = "orphans"
  /\ Over(t, "reap", orphan_container_names(cmd[t])) \/ End(t, "failed")
  /\ UNCHANGED <<podman, outside>>

ReapOrphan(t, n) ==
  /\ Loop(t, n, "reap")
  /\ \/ Remove(t, n, "walk") /\ Done(t, n)
     \/ Refused(t, n)

Reaped(t) ==
  /\ Through(t, "reap")
  /\ IF work[t].err THEN End(t, "failed") ELSE On(t, "check")

\* The counts are checked before a container is touched.
CheckScale(t) ==
  /\ pc[t] = "check"
  /\ IF Accepted(cmd[t]) THEN On(t, "list") ELSE End(t, "failed")
  /\ UNCHANGED <<podman, outside>>

ListExisting(t) ==
  /\ pc[t] = "list"
  /\ \/ /\ work' = [work EXCEPT ![t].existing = project_container_entries,
                               ![t].todo = replica_names(cmd[t])]
        /\ Go(t, "ensure") /\ UNCHANGED lock
     \/ End(t, "failed")
  /\ UNCHANGED <<podman, outside>>

\* The name is already that of a one-off container.
NameTaken(t, n) == is_one_off(work[t].existing[n])

\* Up to date, or not to be recreated: it is started, if it is still there.
KeepReplica(t, n) ==
  /\ work[t].existing[n].kind = "replica"
  /\ IF cmd[t].verb = "create" THEN UNCHANGED <<cont, ids, harm>> ELSE Set(n, TRUE)
  /\ Done(t, n)

\* New, or to be recreated.  scale recreates nothing.  When it fails, what was
\* there may be gone, or a container be there that did not start.
CreateReplica(t, n) ==
  /\ ~NameTaken(t, n)
  /\ work[t].existing[n].kind = "replica" => cmd[t].verb # "scale"
  /\ \/ Put(t, n, "replica", cmd[t].verb # "create", "walk") /\ Done(t, n)
     \/ (Put(t, n, "replica", FALSE, "walk") \/ Cleared(t, n, "walk")) /\ Failed(t, n)

\* A name that is taken is refused; any request may fail.
up_one_replica(t, n) ==
  /\ Loop(t, n, "ensure")
  /\ KeepReplica(t, n) \/ CreateReplica(t, n) \/ Refused(t, n)

\* What an up is followed by: nothing, its logs, or a watch under the lock.
AfterUp(t) ==
  IF cmd[t].verb # "up" \/ cmd[t].mode = "detach" THEN End(t, "ok")
  ELSE On(t, IF cmd[t].mode = "watch" THEN "watching" ELSE "capture")

Ensured(t) ==
  /\ Through(t, "ensure")
  /\ IF work[t].err THEN End(t, "failed")
     ELSE IF cmd[t].scale = Unscaled THEN AfterUp(t) ELSE Over(t, "surplus", surplus(t))

\* Stopped if it can be, and removed by its name; the first error is kept.
stop_and_remove(t, n) ==
  /\ Loop(t, n, "surplus")
  /\ \/ Remove(t, n, "walk") /\ Done(t, n)
     \/ Set(n, FALSE) /\ Failed(t, n)

SurplusGone(t) ==
  /\ Through(t, "surplus")
  /\ IF work[t].err THEN End(t, "failed") ELSE AfterUp(t)

(***************************************************************************)
(* A foreground up.                                                        *)
(***************************************************************************)

NeverLetsGo(c) == FALSE

\* Only an up that may stop the project from inside keeps the lock.
lets_go(c) == c.mode = "attach"

Capture(t) ==
  /\ pc[t] = "capture"
  /\ \/ /\ work' = [work EXCEPT ![t].snapshot = snapshot_containers]
        /\ lock' = IF lets_go(cmd[t]) THEN Free ELSE lock
        /\ Go(t, "attached")
     \/ End(t, "failed")
  /\ UNCHANGED <<podman, outside>>

\* dispatch takes the lock again if it let go of it.
Detach(t, failed) ==
  /\ Go(t, IF lock = t THEN "relist" ELSE "relock")
  /\ work' = [work EXCEPT ![t].err = failed]
  /\ UNCHANGED <<lock, podman, outside>>

Following(n) == cont[n].up

\* A signal, or streams that broke: both are errors, after the stop.
Interrupted(t) == pc[t] = "attached" /\ Detach(t, TRUE)

\* With abort, the first stream that ends with its container is the end of it.
AllEnded(t) ==
  /\ pc[t] = "attached"
  /\ \A n \in replica_names(cmd[t]) : ~Following(n)
  /\ cmd[t].mode = "abort" => replica_names(cmd[t]) = {}
  /\ Detach(t, FALSE)

FirstExited(t) ==
  /\ pc[t] = "attached" /\ cmd[t].mode = "abort"
  /\ \E n \in replica_names(cmd[t]) : ~Following(n)
  /\ On(t, "select")
  /\ UNCHANGED <<podman, outside>>

Relock(t) == pc[t] = "relock" /\ acquire(t, "relist")

\* Only the names that still belong to the containers captured.
SameReplicas(t) ==
  {n \in live_project_replicas : work[t].snapshot[n] # 0 /\ cont[n].id = work[t].snapshot[n]}

stop_snapshot(t) ==
  /\ pc[t] = "relist"
  /\ Over(t, "stopping", SameReplicas(t)) \/ End(t, "failed")
  /\ UNCHANGED <<podman, outside>>

\* ContainerTarget::Id
Target(t, n) == {m \in Names : cont[m].id = work[t].snapshot[n]}

stop_container_target(t, n) ==
  /\ Loop(t, n, "stopping")
  /\ \/ /\ cont' = [m \in Names |-> IF m \in Target(t, n) THEN [cont[m] EXCEPT !.up = FALSE] ELSE cont[m]]
        /\ harm' = harm \cup UNION {Harm(t, cont[m], "stop") : m \in Target(t, n)}
        /\ UNCHANGED ids
        /\ Done(t, n)
     \/ Refused(t, n)

AttachedDone(t) ==
  /\ Through(t, "stopping")
  /\ End(t, IF work[t].err THEN "failed" ELSE "ok")

(***************************************************************************)
(* start, stop, down, and the stop of an aborted up.                       *)
(***************************************************************************)

\* start acts on replicas; stop and down on everything of the project.
Select(t) ==
  /\ pc[t] = "select"
  /\ \/ Over(t, "act", IF cmd[t].verb = "start" THEN live_service_replicas ELSE live_project_replicas)
     \/ End(t, "failed")
  /\ UNCHANGED <<podman, outside>>

Act(t, n) ==
  /\ Loop(t, n, "act")
  /\ \/ /\ IF cmd[t].verb = "down" THEN Remove(t, n, "down") ELSE Set(n, cmd[t].verb = "start")
        /\ Done(t, n)
     \/ Refused(t, n)

\* finish_abort: that the stop failed is only warned about, and the exit code is
\* the up's.
Acted(t) ==
  /\ Through(t, "act")
  /\ \/ cmd[t].verb = "up" /\ (End(t, "ok") \/ End(t, "failed"))
     \/ cmd[t].verb # "up" /\ End(t, IF work[t].err THEN "failed" ELSE "ok")

(***************************************************************************)
(* run.                                                                    *)
(***************************************************************************)

\* A name the user chose must be free; one with the PID is taken to be.
container_exists(t) ==
  /\ pc[t] = "name"
  /\ \/ /\ cmd[t].name = t \/ cont[cmd[t].name] = None
        /\ On(t, "make")
     \/ End(t, "failed")
  /\ UNCHANGED <<podman, outside>>

\* Replacing what bears a name the user chose, or one with the PID.
Replacing(c, t) == IF c.name = t THEN "pid" ELSE "walk"

\* Without an ID in the answer there is nothing to clean up by.
CreateOneOff(t) ==
  /\ pc[t] = "make"
  /\ \/ /\ Put(t, cmd[t].name, "oneoff", FALSE, Replacing(cmd[t], t))
        /\ \/ /\ work' = [work EXCEPT ![t].mine = ids + 1]
              /\ Go(t, "launch") /\ UNCHANGED lock
           \/ End(t, "failed")
     \/ Cleared(t, cmd[t].name, Replacing(cmd[t], t)) /\ End(t, "failed")
     \/ End(t, "failed") /\ UNCHANGED <<cont, ids, harm>>
  /\ UNCHANGED <<meddled, outside>>

Unwell(t) == work' = [work EXCEPT ![t].err = TRUE] /\ Go(t, "clean") /\ UNCHANGED lock

\* Started by name.  Interactive or not, a failed start goes to the cleanup.
StartOneOff(t) ==
  /\ pc[t] = "launch"
  /\ \/ /\ cont[cmd[t].name] # None
        /\ Set(cmd[t].name, TRUE)
        /\ IF cmd[t].mode = "detach" THEN End(t, "ok") ELSE On(t, "follow")
     \/ Unwell(t) /\ UNCHANGED <<cont, ids, harm>>
  /\ UNCHANGED <<meddled, outside>>

\* Its logs end with it, and wait gives the exit code; logs that break while it
\* runs are an error.
FollowOneOff(t) ==
  /\ pc[t] = "follow"
  /\ \/ ~Following(cmd[t].name) /\ On(t, "clean")
     \/ Unwell(t)
  /\ UNCHANGED <<podman, outside>>

\* --rm removes what create answered with, by its ID.
Created(t) == {n \in Names : cont[n].id = work[t].mine}

\* delete_ok: a container that is gone already is fine.
CleanUp(t) ==
  \/ \E n \in Created(t) : Remove(t, n, "clean")
  \/ Created(t) = {} /\ UNCHANGED <<cont, ids, harm>>

finish_run(t) ==
  /\ pc[t] = "clean"
  /\ \/ /\ IF cmd[t].rm THEN CleanUp(t) ELSE UNCHANGED <<cont, ids, harm>>
        /\ End(t, IF work[t].err THEN "failed" ELSE "ok")
     \/ cmd[t].rm /\ End(t, "failed") /\ UNCHANGED <<cont, ids, harm>>
  /\ UNCHANGED <<meddled, outside>>

(***************************************************************************)
(* watch, and what is not podup.                                           *)
(***************************************************************************)

\* watch_rebuild recreates the first replica, whoever else is at work.
watch_rebuild(t) ==
  /\ pc[t] = "watching"
  /\ Put(t, first_replica_name(cmd[t]), "replica", TRUE, "watch")
  /\ meddled' = meddled \cup (Terminals \ {t})
  /\ UNCHANGED <<lock, pc, work, outside>>

EndWatch(t) ==
  /\ pc[t] = "watching"
  /\ End(t, "ok")
  /\ UNCHANGED <<podman, outside>>

\* The process is killed; the kernel gives the lock back.
Kill(t) ==
  /\ pc[t] \notin Ended
  /\ End(t, "failed")
  /\ UNCHANGED <<podman, outside>>

Exit(n) ==
  /\ cont[n].up
  /\ Set(n, FALSE)
  /\ UNCHANGED <<lock, pc, work, meddled, outside>>

ByHand(n) ==
  /\ hands < MaxHand
  /\ hands' = hands + 1
  /\ \/ cont[n] # None /\ cont' = [cont EXCEPT ![n] = None] /\ UNCHANGED ids
     \/ /\ cont[n] = None /\ ids < MaxIds
        /\ cont' = [cont EXCEPT ![n] = [id |-> ids + 1, kind |-> "foreign", up |-> TRUE]]
        /\ ids' = ids + 1
  /\ meddled' = Terminals
  /\ UNCHANGED <<lock, cmd, pc, work, harm, runs>>

Up(t) ==
  \/ remove_orphans(t) \/ Reaped(t) \/ CheckScale(t) \/ ListExisting(t) \/ Ensured(t) \/ SurplusGone(t)
  \/ \E n \in Names : ReapOrphan(t, n) \/ up_one_replica(t, n) \/ stop_and_remove(t, n)

Attach(t) ==
  \/ Capture(t) \/ AllEnded(t) \/ FirstExited(t) \/ Relock(t) \/ stop_snapshot(t) \/ AttachedDone(t)
  \/ \E n \in Names : stop_container_target(t, n)

Lifecycle(t) == Select(t) \/ Acted(t) \/ \E n \in Names : Act(t, n)

RunOnce(t) == container_exists(t) \/ CreateOneOff(t) \/ StartOneOff(t) \/ FollowOneOff(t) \/ finish_run(t)

Step(t) == lock_project(t) \/ Up(t) \/ Attach(t) \/ Lifecycle(t) \/ RunOnce(t)

Next ==
  \/ \E t \in Terminals :
       \/ Step(t) \/ open_lock_file(t) \/ Interrupted(t) \/ Kill(t)
       \/ watch_rebuild(t) \/ EndWatch(t)
       \/ \E c \in CommandsOf[t] : Begin(t, c)
  \/ \E n \in Names : Exit(n) \/ ByHand(n)

Spec == Init /\ [][Next]_vars

\* What nobody bounds.  The init steps, hooks and builds of a slow command may
\* never end, nor a stop that was told to wait indefinitely (pre_start.rs,
\* lifecycle_hooks.rs, stop_deadline); an aborted up whose stop failed waits for
\* the exit code of a container that runs (finish_abort).
Stays(t) ==
  \/ cmd[t].slow /\ pc[t] \in {"ensure", "surplus", "make", "stopping", "act"}
  \/ cmd[t].verb = "up" /\ pc[t] = "act" /\ work[t].todo = {} /\ \E n \in Names : Following(n)

\* But for that, a command goes on as long as it can: every request it makes has
\* a deadline.  When containers exit, who interrupts, when a watch ends and what
\* is typed next are not podup's to decide.
FairSpec == Spec /\ \A t \in Terminals : WF_vars(~Stays(t) /\ Step(t))

(***************************************************************************)
(* Properties                                                              *)
(***************************************************************************)

Stages == Ended \cup {"lock", "orphans", "reap", "check", "list", "ensure", "surplus", "capture",
  "attached", "relock", "relist", "stopping", "select", "act", "name", "make", "launch", "follow",
  "clean", "watching"}

Containers == [id : Nat, kind : Ours \cup {"none", "foreign"}, up : BOOLEAN]

Notes == [existing : [Names -> Containers], snapshot : [Names -> Nat],
          todo : SUBSET Names, err : BOOLEAN, mine : Nat]

\* The types of the state.
TypeOK ==
  /\ cont \in [Names -> Containers]
  /\ lock \in Terminals \cup {Free}
  /\ DOMAIN cmd = Terminals /\ \A t \in Terminals : cmd[t] \in CommandsOf[t]
  /\ pc \in [Terminals -> Stages]
  /\ work \in [Terminals -> Notes]
  /\ ids \in Nat
  /\ harm \subseteq {"watch", "pid", "oneoff", "later", "others"}
  /\ meddled \subseteq Terminals

\* No up or scale stops or deletes the container of a run, no final stop reaches
\* a container created after the up let go of the lock, and no run cleans up a
\* container that is not its own (up_one_replica, remove_surplus_replicas,
\* stop_snapshot, run).  A watch may replace one, and a run whose PID is not new.
Harmless == harm \subseteq {"watch"} \cup (IF UniquePids THEN {} ELSE {"pid"})

\* A scale that reports success leaves exactly the replicas asked for, all of them
\* containers of the service, unless somebody without the lock changed the
\* project's containers meanwhile (Engine::scale, remove_surplus_replicas).
ScaleDelivers ==
  [][\A t \in Terminals :
       (pc[t] # "ok" /\ pc'[t] = "ok" /\ cmd[t].verb # "run" /\ cmd[t].scale # Unscaled
          /\ cmd[t].mode = "detach" /\ t \notin meddled) =>
         {n \in Names : cont'[n].kind = "replica"} = replica_names_for(cmd[t].scale)]_vars

\* Who may have the lock for as long as containers run or the user wishes: an up
\* that may abort, a run, an up that watches, and what nobody bounds.
MayHold(t) ==
  /\ lock = t
  /\ \/ pc[t] = "attached" /\ cmd[t].mode = "abort"
     \/ pc[t] \in {"follow", "watching"}
     \/ Stays(t)

\* Whoever waits for the lock gets it, unless one of those has it: a foreground up
\* that only follows logs holds nobody up, and neither does a command that failed
\* or was killed, at whatever stage (dispatch: a down or a stop is not held up for
\* as long as the stack runs).
Granted ==
  \A t \in Terminals :
    []<>(pc[t] \notin {"lock", "relock"} \/ \E u \in Terminals : MayHold(u))

(***************************************************************************)
(* What the safety of these commands rests on, as one inductive invariant. *)
(***************************************************************************)

\* The stages a command comes through.
Reached(c) ==
  Ended \cup
    (CASE c.verb = "run" -> {"lock", "name", "make", "launch", "follow", "clean"}
       [] c.verb = "watch" -> {"watching"}
       [] c.verb \in {"start", "stop", "down"} -> {"lock", "select", "act"}
       [] OTHER ->
            {"lock", "orphans", "reap", "check", "list", "ensure", "surplus"}
              \cup (IF c.verb = "up" /\ c.mode \in {"attach", "abort"}
                    THEN {"capture", "attached", "relock", "relist", "stopping"} ELSE {})
              \cup (IF c.verb = "up" /\ c.mode = "watch" THEN {"watching"} ELSE {})
              \cup (IF c.verb = "up" /\ c.mode = "abort" THEN {"select", "act"} ELSE {}))

\* A command is at a stage of its own, and comes past the check only with counts
\* that were accepted.
StagedFor(t) ==
  /\ pc[t] \in Reached(cmd[t])
  /\ pc[t] \in {"list", "ensure", "surplus"} => Accepted(cmd[t])

\* A command at work has the lock, except one that waits for it, follows its
\* logs and lets go meanwhile, or watches (run_engine_command, dispatch).
Working == Stages \ (Ended \cup {"lock", "relock", "attached", "watching"})

LockedFor(t) ==
  pc[t] \in Working \/ (pc[t] = "attached" /\ ~lets_go(cmd[t])) => lock = t

\* The list a command works from names every one-off there is, and the name of a
\* one-off to be created is not that of another: nobody else can have made one
\* since.
ListedFor(t) ==
  /\ pc[t] \in {"ensure", "surplus"} =>
       \A n \in Names : is_one_off(cont[n]) => is_one_off(work[t].existing[n])
  /\ pc[t] \in {"reap", "surplus"} => \A n \in work[t].todo : ~is_one_off(cont[n])
  /\ pc[t] = "make" /\ cmd[t].name # t => ~is_one_off(cont[cmd[t].name])
  /\ pc[t] \in {"lock", "name", "make"} /\ cmd[t].verb = "run" /\ cmd[t].name = t /\ UniquePids =>
       ~is_one_off(cont[t])

\* An ID is given once: it means the container it meant when it was noted down.
Numbered ==
  /\ \A n \in Names : cont[n].id <= ids /\ (cont[n].id = 0 <=> cont[n].kind = "none")
  /\ \A n, m \in Names : cont[n].id = cont[m].id => n = m \/ cont[n].id = 0

NotedBy(t) ==
  /\ work[t].mine <= ids /\ \A n \in Names : work[t].snapshot[n] <= ids
  /\ pc[t] \in {"launch", "follow", "clean"} => work[t].mine # 0
  /\ pc[t] = "stopping" => \A n \in work[t].todo : work[t].snapshot[n] # 0
  /\ \A m \in Names : cont[m].id # 0 =>
       /\ cont[m].id = work[t].mine => cont[m].kind = "oneoff"
       /\ \A n \in Names : cont[m].id = work[t].snapshot[n] => cont[m].kind = "replica"

\* How far a scale has come, if nobody meddles: what is ahead is as it was listed,
\* what is behind is as it was asked for.
AsListed(t, n) ==
  work[t].existing[n].kind = (IF cont[n].kind \in Ours THEN cont[n].kind ELSE "none")

ScalingFor(t) ==
  t \notin meddled =>
    /\ pc[t] = "ensure" =>
         /\ work[t].todo \subseteq replica_names(cmd[t])
         /\ \A n \in Names : n \in work[t].todo \/ n \notin replica_names(cmd[t]) => AsListed(t, n)
         /\ work[t].err \/ \A n \in replica_names(cmd[t]) \ work[t].todo : cont[n].kind = "replica"
    /\ pc[t] = "surplus" /\ ~work[t].err =>
         /\ \A n \in replica_names(cmd[t]) : cont[n].kind = "replica" /\ n \notin work[t].todo
         /\ \A n \in Names : cont[n].kind = "replica" =>
              n \in work[t].todo \/ n \in replica_names(cmd[t])

Own(t) == StagedFor(t) /\ LockedFor(t) /\ ListedFor(t) /\ NotedBy(t) /\ ScalingFor(t)

IInv == TypeOK /\ Numbered /\ Harmless /\ \A t \in Terminals : Own(t)
=============================================================================

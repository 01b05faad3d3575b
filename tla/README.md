# podup in TLA+

podup runs Compose files on Podman through its libpod API. This directory
holds models of the parts of podup where order, concurrency, failure or the
combination of many rules decide whether it is right, the TLC configurations
that check them, and TLAPS proofs of what matters most. Paths are relative to
`src/internal/`; `engine/` abbreviates `backends/engine/`.

- [The system](#the-system): the inventory of components
- [The modules](#the-modules): what each one models and how it maps to the code
- [The runs](#the-runs): what is model-checked, with which bounds
- [The proofs](#the-proofs): what holds for every value of the constants
- [Where code and documentation disagree](#where-code-and-documentation-disagree)
- [What is not modelled](#what-is-not-modelled) and [the plan](#the-plan)

Checking it: `tlc -config X.cfg M` for each run of `PROJECT.json`, `tlapm M.tla`
for the eight modules whose name ends in `Proofs`.

## The system

A command line (`command_line/`) is parsed into one command. Commands that
change a project take its lock (`engine/project/lock`), load the compose files
(`parsing/`) and call one operation of the `Engine` (`engine/`). An
operation is one task: it fans out into futures, bounded to 16 by
`MAX_LIFECYCLE_CONCURRENCY`, and every one of them talks to Podman by HTTP over a
pooled Unix socket (`connection/libpod/client`). Only the connections' drivers,
the packers of archives, the watcher's callback and the delete of a dropped
cleanup guard run beside it. There is no state on disk but the lock files, the
generated units, staged secrets and the installed program itself: what a project
is is read from Podman, by labels, at the beginning of each command. Hence the
things that make it hard: a snapshot that is stale by the time it is used, names
that mean something else by the time a request arrives, requests whose answer is
lost, streams whose end cannot be told from their loss, and siblings that are
dropped at whatever await they are at when one of them fails.

| Component | State it keeps | Operations | What is hard | What makes it correct |
|---|---|---|---|---|
| up scheduler `engine/lifecycle/up/{schedule,up_one,readiness}.rs`, `workload/readiness/health.rs` | per-service `watch` channels, a semaphore, shared pollers | `start_services_by_dependency`, `up_one_service`, `build_readiness_map`, `wait_healthy`, `wait_completed` | all services at once; a failure tolerated or not; permits against dependency waits; verdicts shared and cached | a service begins after what it needs is up and its conditions met; success means everything is up; it ends |
| one replica `up/up_one.rs`, `execution/pre_start.rs`, `workload/container` | the container, its label, its anonymous volumes, the init container, the cleanup guard | `up_one_replica`, `run_pre_start`, `recreate_service`, `create_container`, `create_and_start`, `run_post_start_hooks` | delete-then-create; crash or drop between any two requests; stale snapshot and environment | nothing touched before init has succeeded; data inherited; init containers reclaimed; success delivers what was read |
| connection pool `libpod/client/link/pool` | idle queue, live count, closed, `Notify` | `acquire`, `release`, `close`, the guard's drop | cancellation at awaits; sockets closed by the peer or not ready yet; lost wake-ups | one owner per connection; the count covers what is tracked; sleepers are woken |
| lifecycle commands `engine/lifecycle/commands`, `execution/parallel`, `execution/drop_recheck.rs` | the listing taken when the command begins; per-unit results | start, stop, restart, kill, pause, unpause, rm, down's containers | lost, late and wrong answers; escalation; one failure of several; order across levels | levels in order; success means the state asked for; failures reported, none dropped |
| dependency levels `parsing/compose/resolve` | none | `resolve_levels`, `effective_depends_on` | cycles, implicit dependencies | dependencies strictly below, cycles refused |
| project objects `up/mod.rs`, `down`, `engine/objects`, `workload/pod` | networks, volumes, secrets, the pod, with owner labels | create or adopt, recreate, refuse, remove, sweep by label | check-then-act on names two projects share; a list the pod's recreation voids; partial failure | whose objects are removed; what an up delivers and a down leaves |
| sessions `command_line/dispatch`, `project/lock`, `lifecycle/scale`, surplus replicas | the `flock`, lists captured before it was let go | foreground and aborting up, scale, run, start, down, watch | what others do while the lock is released; names reused; a watch takes none | commands exclude each other; only what was captured is stopped; scale leaves what was asked |
| one-off run `lifecycle/run` | the container's name and ID | the flags, dependencies and their conditions, volumes, attach or follow, wait, `--rm` | a container made, started and waited for by a name that others may take; a start that fails, a stream that breaks | the container is the one asked for; its code is told; it goes or stays as asked, and nobody else's does |
| watch `host_files/watch` | bounded queue, overflow flag, batches | sync, restart, exec, rebuild, rescan | events during an action, dropped events, answers lost | the last edit reaches the container; the session rests |
| copy `host_files/copy` | an archive on its way, the extracted tree | cp in both directions | an answer before the archive ends; modes and links put on last | what is reported as copied is there, and nothing else was touched |
| images `engine/images` | context, names, streams | build, pull, push, commit, export | packer and server end in either order; names with ports and digests | what was built is what was asked; every pull and push accounted for |
| observation `engine/observe` | streams, sessions | logs, attach, stats, events, exec, ps, ls, top, port, images | a stream's end against its loss; input against output; containers that go between two requests | lost output reported; a command run once; a listing of what is there |
| parsing `parsing/`, `project/profiles*.rs` | the merged model | -f, extends, include, tags, env files, profiles, targets, jobs | a file reached in two ways; tags found by a second reading; two functions for one selection | files come together as if written as one; what is selected is what is started and waited for |
| units `backends/quadlet`, `backends/autostart` | unit files in directories several projects share | `generate quadlet`, `autostart install`, `uninstall`, `rebuild` | sets of files replaced one by one; modes read off file names; crontab against systemd calendars | timers fire as written; what is left out is said; modes never mix |
| self update `update` | the installed program, its backup, a lock | resolve, verify, back up, swap, self-test, roll back | a kill between two renames; two updaters; a moving "latest" | a program that runs stays; no downgrade unasked |
| identity `container/resolve/hash.rs`, `workload/pod/hash.rs`, `container/inputs.rs`, `objects/secrets` | two labels in Podman | `config_hash`, `pod_config_hash`, `compute_container_labels`, `build_native_secrets` | files read at different moments of an up; two places that compute one hash | a label describes what the container was made of; nothing unchanged is replaced |
| progress display `ui/progress`, `lifecycle/planning/seed.rs` | the board, a region on the terminal, a buffer for a pipe | begin, event, note, tick, end | events, the ticker, cp's counter and Ctrl-C move the cursor from what each believes is there | the log tells each event once; nothing is on the screen twice; the cursor is given back |
| libpod client, command line, values, the fields of the specification | none that lasts | encoding and decoding | - | see [What is not modelled](#what-is-not-modelled) |

They meet in few places. `dispatch` holds the lock around an engine operation
(`ProjectSession`); `run_up` takes the snapshot, creates the project's objects
(`ProjectObjects`) and runs the scheduler (`UpScheduler`), which runs replicas
(`ReplicaLifecycle`); replicas and lifecycle commands (`LevelWalk`) send requests
through the pool (`ConnPool`), and a future dropped by the scheduler drops the
replica's cleanup guard and the pool's guard with it. A watch session uploads
as `cp` does and rebuilds as `up` does. Each module takes the others' effects as
steps that may succeed or fail at any time, so that a composition adds the
shared state and not the steps: the scheduler sees a replica as stages, the
project's commands see the walk as one step. `PROJECT.json` lists the hazards
these meetings produce, each at its line, with the property that covers it or
the reason why none does.

## The modules

### UpScheduler, DependencyOrder

`UpScheduler` is `up`'s walk over the scheduled services. `pc[s]` is the place
of a service's future in the loop of `start_services_by_dependency` and
`up_one_service`: `deps` (awaiting the done channels), `queued` (awaiting a
permit), `conds` (the `depends_on` loop), `image`, `work` (its replicas), `end`.
`done` are the watch channels (`none`, `true`, `false` for `None`,
`Some(true)`, `Some(false)`), `poll` the shared futures of `build_readiness_map`,
`at` and `passed` the position in the `depends_on` loop, `rep` the replicas'
futures. `file.endless` and `file.builds` say where the user's own programs run without a bound: an init
step, a hook, a build. Container state and health are Podman's: containers exit and their
health flips whenever they like. `brought` and `sawHealthy` are history: the
containers this run has left running, and those seen healthy since.

`Fail` is the error path: a *tolerated* failure (the service was not named, has
dependents in the run, and is `required: false` for all of them) signals
`false`; any other ends the run, and since `try_join_all` then drops every
future, no action is enabled after it. `Await` creates a poller on
first use, as `Shared` does; `PollInspect`, `PollStep` and `PollTimeout` are
`wait_healthy`'s first inspect, its loop and its budget.

`DependencyOrder` says what `up` promises of the order in 60 lines, without
permits, pollers or containers: begin after all dependencies are up, or given up
and optional; give up only what nobody needs; succeed when all are settled.
`ImplementsOrder` maps the scheduler to it.

### ReplicaLifecycle

One container name over several runs of `up` or `create`; it details the
single steps of a replica in `UpScheduler`. Every action is one request with
its answer. `Begin` takes the snapshot; `Decide` keeps or replaces (the pair of
configuration and environment is the config hash); `Step...` are
`run_pre_start` with the `InitCleanup` guard (`armed`), whose drop spawns a
delete (`sweep`) that `main` may not wait for. The guard is armed before the create is sent
(`StepSent`): a create still in flight (`pending`) when the run is dropped may be carried out
before the delete or after it (`StepLands`, `Overtaken`). `RefreshEnv` reads the
environment again; `inherit_anonymous_volumes`, `require_owned`, `DeleteOld`,
`Create`, `Start` and `run_post_start_hooks` follow `create_container` and
`create_and_start`. A request may fail with its effect done (`CreateLost`,
`StartLost`, `StepNotRemoved`) or not (`Failed`); a delete's answer is ignored, as
in the code. `Dropped` and `Died` may happen between any two, and at a create in flight. Other tools remove
the container or take its name.

### ConnPool

`acquire`, `release`, `close`, `PoolGuard::drop` and the buffered exchange of
`Client::send`. What the code does under the mutex is one action; the awaits
(`ready`, `open_one`, the waiter) and the notification after the unlock are
actions of their own, and at each await the caller may be dropped (`Cancel...`).
`notify_one` is tokio's: the first queued waiter, or else one stored permit. A
socket is `ready`, `busy` with a response, `settling` (body read, the driver not
yet ready) or `closed`.

### LevelWalk

`LevelWalk` is one command over the levels of a project. `Take` starts a unit
when the bound allows, a unit being a service, whose containers are taken in
turn, or for `down` a container. `Send` writes a request, or gets no connection.
Podman carries a request out at any time later (`Deliver`), also after the
command has moved on; `Effect` is the table of what it does and answers in each
state. `Lost`, `Broken` and `Escalate` are the three ends of a request without
an answer: a cut connection, whose outcome `confirm_lost_response` decides by
the container's state where the code rechecks at all; any other error; and the
deadline of a stop, which sends SIGKILL. A stop or restart with the grace -1 has none
(`file.patient`), nor have the `pre_stop` hooks of `down` (`file.hooks`): `Uncapped`. `LevelDone` joins a level, `Report`
ends the command. `did` and `meddled` are history: our request changed the
container, somebody else did.

At its end `LevelWalk` defines `resolve_levels` by rounds, as the code does, and
`effective_depends_on`. `MCLevelWalk` uses them for its files and compares them with
their definitions over all graphs of four nodes.

### ProjectObjects

What a project owns besides its containers, for any number of projects whose
files may name the same object. `host[o]` is an object's owner (a label, or its
absence), `pc[p]` the loop of `run_up`, `down_with_options` or `down_by_label`
that the project's command is in, and `at[p][o]` where that loop is with an
object: `todo`, `conflict` (a create answered 409), `delete` (checked, about to be
deleted by name), `create` and `recreate`. Check and delete are two requests,
hence two actions, and whatever other projects or podman by hand do falls
between them. A request is carried out with an answer or without one (`Created`,
`Delete`), or fails. `Snapshot` lists the containers once, which `ListAfter` must
give up when the pod is recreated. `Following` is the order of the loops.
History: `saw` (the owner a command found), `lost` (what others took meanwhile),
`hit` (what was known of a foreign object it removed).

### ProjectSession

Processes on one project with one service: the lock (`Take`, `Release`, the
kernel's release at a kill), a foreground `up` that captures its list, lets the
lock go, follows the logs and then stops what it captured, `up --abort-on-...`
with its exit code, `scale` and surplus replicas from a stale list, `run`
attached and detached with `--rm`, `start`, `down`, `up --watch`, which keeps the
lock, and `watch` alone, which takes none. A `slow` command runs init steps, hooks or a build,
or was told to wait for a stop indefinitely. Containers have a name, which may be reused, and an ID, which is not; each
action uses the one the code uses.

### WatchSync

The kernel's queue, which every edit and every open fills and which tells an overflow of its own
(`Raise`, `Opens`, `Overrun`); the watcher's callback, which discards the opens only there
(`Discard`) and passes the rest on (`enqueue`: `try_send`, and on a full queue the flag and a
wake-up); and the loop, which waits, coalesces a batch, applies each rule's
filters and runs its action, run beside each other and beside whoever edits. `host`,
`copy` are versions of files. `turn` is the place in the batch the loop has come to,
`work` the rules still to be run for it, as places in `Order`, and `stage`, `sent` the
step of the job at hand and what it has read. An upload reads, sends, and may fail,
be cut short, or go unanswered, after which a `stat` of the copy decides. A rebuild packs the
context but for what its ignore file leaves out (`Built`) and replaces the container: a copy is
then what the image has, what a volume kept (`Kept`), or gone, and nothing syncs it again. History:
`owed`, the copies the session has promised and not disowned; `dropped`, those with an event the
queue had no room for; `presumed`, those where a lost answer was taken for a success though the
container had something else of the same size; `rebuilt`, those a rebuild did not carry over.

### UpdateInstall

Any number of updaters of one program: three requests to a moving "latest", the
lock, the backup by hard link or by moving the target aside, the staged file,
the rename, the self-test and the roll-back. A path holds an inode, an inode
holds a release and may be broken. `Kill` may happen between any two steps.

### ServiceMerge, ComposeLoad, ProjectScope

Pure functions and one loader. `ServiceMerge` keeps a field for each rule by which
keys are merged. `ComposeLoad` follows the -f files, `extends` chains with their
cache, `include`s with their own directories and env files, the two readings of
`!reset` and `!override` tags, and the limits on depth, files and bytes, one file
per step. `ProjectScope` computes what profiles and targets select by the code's
several functions, so that they can be compared with each other.

### CronCalendar, QuadletUnits, QuadletExport, Autostart

`CronCalendar` translates the five fields of a crontab expression to
`OnCalendar=` as `jobs/calendar` does, and says when either of them fires.
`QuadletUnits` makes a project's units with what refers to what.
`QuadletExport` writes them file by file into a directory that earlier runs and
other projects have used. `Autostart` is `install`, `uninstall` and `rebuild` in
the two modes over two directories and the manager's enabled units, one file or
one `systemctl` call per action, each of which may fail. No lock keeps two commands apart:
`Slots` of one project may be at work at once, and each looks at the directories when its code
does. `MCUnitFiles` runs an export or
the installers.

### CopyUpload, CopyExtract, BuildContext, ImageBuild, ImageTransfers, StreamFollow, ExecSession, Listing, ConfigHash, OneOffRun, ProgressBoard, EngineCalls

One machine for each kind of call of the engine, composed in `EngineCalls`, which
makes one call at a time. `CopyUpload`: where the copy lands, the packer and the
PUT on the two ends of a bounded channel, the verification after a lost answer.
`CopyExtract`: the shapes of a destination, then the archive entry by entry with
open directory handles, deferred modes, hard links whose mode is put on the shared file, and the
flattening of a single root.
`BuildContext`: ignore patterns, the two glob matchers and the pruned walk.
`ImageBuild`: names, extra tags, the packer against the server.
`ImageTransfers`: pulls with policies and shared images, pushes, commits,
exports. `StreamFollow`: logs, a console, stats and events, with a body that ends
in order, is cut, or ends inside a record, and the container's state asked
afterwards. `ExecSession`: create (sent once more when its answer is cut off), start, the two
pumps, the exit code. `Listing`: list, then ask about each item, while containers go.

`ConfigHash`: one service over successive `up`s, and a user who edits the compose file and the
files it refers to between any two steps. A hash is the tuple of what is fed to it;
a container is its label and what it was made of, which has more in it: the bytes
of the secret as Podman copies them at the create, the networks, the pod, the
names of siblings. The steps are those of `run_up` that read or write any of
this: the parse with the list of containers, the read of a secret's file, its
upload, the pod, the hash that decides, the request with its label, the delete
of what has the name, the create. `up` may be killed between any two.

`OneOffRun`: one `run` from its flags to its exit code. Flags become the
service of the one-off (`Overridden`: words of an entrypoint, layers of the
environment, labels, ports); the dependencies are brought up and their conditions
waited for, one dependency after the other; then the image, networks, the volumes it
`Mounted`, secrets and pod, the init steps, the look at who has the name, the
create, and one of three ways on: detached, attached before the start, or
followed by its log. Each request is an action that may fail or lose its answer,
and between any two others remove the container with the name or make one.
`bearer` is whoever has the name, `own` the container of the run; start, logs and
wait act on `bearer`, deletes on the ID (`mine`). How a text becomes words
(`split_words`) is compared with a table, `WordsAreSplit`, that every run of the
module evaluates.

`ProgressBoard`: the rows a command expects (`Seeds`), the board that events are
recorded on, and what is written: for a terminal the lines on the screen, which a
repaint goes back over (`Repainted`), for a pipe a log with buffered verbs.
Recording an event and showing it are two actions (the lock of the session
is released between them), and the ticker, cp's counter and the task that waits
for Ctrl-C take their turns anywhere. `told` is the history of events.

No module with a theorem reaches a `RECURSIVE` operator: recursion there is a
recursive function or a set defined by what it satisfies.

## The runs

| Run | Question | Bounds |
|---|---|---|
| `up_order` | Does every interleaving of services, pollers, replicas and containers keep the conditions, tolerate only what may be tolerated, implement `DependencyOrder` and end? | ten files of two to four services: init steps, hooks and builds that may never end, shared and mixed optional dependencies, named targets, completed jobs with two replicas, kept containers, disabled checks, zero replicas, `--no-deps`, `create`, a diamond; two permits, fewer than services |
| `pool` | Can callers that fail and are dropped anywhere share a pool, and is a sleeper woken? | two callers, a cap of one, three connections, every await cancellable |
| `replica` | What does a run that succeeds deliver, and one that fails leave alone, after any history? | three runs, two init steps, two contents of the env file, three volumes, five sets of flags |
| `walk` | Order, delivery and reporting of nine commands under lost, late and refused answers | two services with and without a dependency, with and without hooks and a grace of -1, three containers, one of them a one-off, three starting states, at most two units at once; other clients act once, on one container |
| `objects` | Whose objects do the commands remove; what does an up deliver and a down leave? | two projects that mean the same volume and the same network, a secret, a pod, six commands; two runs of one project and one of the other; one object made and removed by hand once |
| `session` | Do commands on one project exclude each other where they should? | two terminals, five commands (one slow, one that watches) against seven, two replicas, three container IDs, one container made or removed by hand |
| `watch` | Does the last edit reach the container, and does the session rest? | two files with two contents each, three rules of one service (sync with a bind mount and a tmpfs, sync+restart of what the image has, rebuild), an ignore file, a queue of one and a kernel queue of one, one edit of each file |
| `update` | Can two updaters, killed anywhere, leave no program, or an older one? | two updaters, four releases of which one does not run, with and without hard links |
| `load` | Do files come together as if written as one, and do the selections agree? | four families of projects: -f files with tags and bases, includes with cycles and limits, -f files in two directories under a relative env file, services and jobs with profiles and targets |
| `units` | Do timers fire as written, is what is left out said, and do modes never mix? | two projects whose unit names are prefixes of each other's; thirty-odd crontab expressions of each field; chains of three jobs; two exports; two installer commands, of one project or of both, in any order and beside each other, over units of this or an older release, one failing call |
| `calls` | Is what a call reports what happened? Does a label say what its container was made of, and is what is unchanged kept? | a tree of ten nodes and eighteen uploads; five archives against fourteen hosts; all pairs of thirteen ignore patterns; two builds, pulls of four services, follows and execs of two frames, listings of two services; thirty-odd one-offs with names that are taken, absent images, volumes of every kind, layers of variables, quoted entrypoints, conditions that fail, and two acts of others on the name; sixteen displays of nine commands, each on a terminal and a pipe, two ticks of the counter; for `up`, two ups and two edits of one service, over every key it has, four sources of a secret, names of a network and a volume, an env file, a passed variable, the bytes and bits of a file |
| `pool_slots` | a comment that the code contradicts, see below | as `pool` |

What the properties say:

- **DependenciesHonoured** - past the dependency wait every required dependency
  is up, not merely finished (`RequiredDepsUp`); past the conditions every replica
  of it was left running *by this run*, and seen healthy since, or has completed
  (`ConditionsHeld`). A verdict cached from an older container would break the second.
- **SuccessMeansUp, ImplementsOrder** - success hides no failure but the
  tolerated ones; the order is `DependencyOrder`'s.
- **Terminates** (scheduler) - no circular wait among dependencies, permits,
  and pollers: an up ends, or is for ever in an init step, a hook or a build.
- **OneOwner, HandedOutReady** - no connection with two owners; a caller about to
  send holds one that is ready, or that the peer has closed.
- **SlotsCovered, SleeperWoken** - tracked connections never exceed the count, nor
  the count the cap; no caller sleeps for ever while no slot was lost (see
  `pool_slots`).
- **InitReclaimed** - an init container is left behind, or made by a create still in flight, only
  if Podman refused the delete, the process died, it exited before the delete it had spawned, or
  that delete overtook the create.
- **FailedInitKeeps, SuccessDelivers, VolumeInherited** - a failed init leaves the
  previous service running; success means the labelled state, from the
  environment the steps left; the anonymous volume survives unless `-V` asks otherwise.
- **WalkOrder** - no container is contacted before all those it must come after are
  dealt with. **Delivered** - success leaves every container as the command
  promised, though answers were lost and requests may still be on their way.
  **NothingDropped** - an error exactly when something failed, and everything
  tried, but for the levels `stop` and `kill` skip. **Terminates** (walk) - the
  recheck and the escalation cannot go on for ever: what does not end is a stop without a
  limit, or a hook.
- **OnlyIfSeenAbsent** - a command removes an object of somebody else only if it
  found the name free when it looked, or if its own object was taken from it after
  it looked. **UpDelivers, DownLeavesNothing** - a success means everything of the
  file is there as the project's own, or everything of the project is gone,
  unless others took it meanwhile.
- **Harmless** - no up or scale stops or deletes the container of a run, no final
  stop reaches a container made after the lock was let go, no run cleans up a
  container that is not its own. **ScaleDelivers** - a scale leaves exactly the
  replicas asked for. **Granted** - whoever waits for the lock gets it, unless a
  command keeps it by design (a run, an up that may abort or that watches) or runs what nobody
  bounds (`MayHold`).
- **CaughtUp** - when a session is idle, every copy it owes is what the host has, but for
  four kinds: taken for done without an answer, where the container has something else of the
  same size or a removal's output broke off; a removal that was dropped; what a rebuilt
  container has neither in its image nor in a volume; and what failed or was named in a warning,
  which is not owed. **Rests** - the session's own reads and copies do
  not keep it going, unless they overflow the kernel's queue each time, and unless a command, a
  build, an init step or a hook never ends.
- **Recoverable** - one of two paths holds a program that runs, unless a killed updater's
  backup was the only one that did and had to be removed. **NoDowngrade,
  UpdatedIsResolved** - what is put in place is not older than what was found
  under the lock, and is the release resolved at the start.
- **FilesMerged** - no port is lost or spared by a merge (`PortsMerged`), an
  extended file is read with the environment of the file that extends it, but for the bases of a
  -f file outside the project directory under a relative --env-file
  (`ContextKept`, `Displaced`), limits hold for the project (`WithinBudget`). **ScopeFaithful** -
  what up starts is what it waits for and stops, and a job is kept exactly when all
  it needs can be.
- **ExportFaithful** - a timer fires on exactly the minutes of its crontab
  expression, compared by evaluating both (`CalendarAgrees`); every entry is a
  timer or a warning, units refer to units that are written, and no timer of an
  earlier export is left without a word. **OneMode, CommandsDeliver** - two
  modes never coexist, but where two installs of different modes ran at once (`contended`); a
  command that ends well, with no other of its project beside it, did all it says, and none touches
  another project's files.
- **CopyFaithful, ImagesFaithful, FollowAccounted, ExecFaithful, ListingFaithful** - for
  each kind of call, a success means that it happened as asked and a reported doubt or loss has a
  reason; a command is run once though its session may be created twice; what a
  listing shows was there. A file of several names has the mode of the last of them in the archive;
  a Dockerfile is in the context when its name is written as the walk writes it; of a stream
  that was cut when its container had stopped nothing is told, and `up` in the foreground and
  `stats` (alone) say as little of a record they could not read by then (`Overlooked`); an exec
  excepts a connection severed between two frames, a terminal that cannot be read and one whose
  input is closed.
- **HashFaithful** - `LabelHonest`: a container that carries the hash of the present file and host
  was made of what they hold: no edit between the upload of a secret, the hash and
  the create can hide behind an equal hash. `UpSettles`: an undisturbed up leaves
  what the next one and a start-mode unit take for current. `KeptWhenUnchanged`:
  a container is only replaced when something was edited since the up that made it began.
- **RunFaithful** - the code a run tells is its own container's, unless others removed that
  (`CodeIsOwn`); with
  `--rm` nothing stays unless the delete failed, and then the run does not succeed
  (`CleansUp`); what it deletes besides is the project's container that had the name, or took it
  after the last look (`OthersSpared`); it is made when its required dependencies are ready
  (`DepsFirst`), from the flags and files in their order of precedence
  (`AsAsked`), and mounts no volume that Podman had to invent (`MountsReady`).
- **BoardFaithful** - a log tells each event once and in order, and its error last
  (`LogTells`, `CopyClosed`); a screen never shows a row twice and in the end shows the
  finished ones (`ScreenSound`), unless the region outgrew the terminal or was written
  past; the cursor is given back (`CaretGiven`).

Why the bounds are enough to be telling: four services hold the shapes that
interact (a shared dependency, a chain, a diamond, an optional one); two
permits are fewer than the services that can run; a third run sees what two runs
in a row have left; two callers and a cap of one give one that sleeps and one
that releases or is dropped; two levels and two containers per service give
order between levels and inside a unit; two projects with one shared name of
each removable kind give the race between a check and a delete, a queue of one
overflows with the second edit, two edits around an up are one that the secret sees
and one that the container sees, and a second up meets what a killed or a finished one
left; two updaters and four releases let one install a
newer release while another is about to install an older one; channels of one
element make packer and sender, or input and output, wait for each other. Each
property of each passing run has a fault in the code's translation (`mutants`)
that the same run finds. The safety properties that are proved do not depend on
the bounds at all.

`CHECK_DEADLOCK FALSE` is said where the system really stops: when the bounded
number of runs, commands, edits or exports is used up (`replica`, `update`,
`objects`, `session`, `watch`, `load`, `units`). In the others only the end of the
command may stop the model, by an explicit step; `calls` names one more place, the
terminal of an exec (`TerminalStuck`, below).

**Fairness.** What the code bounds is fair, and what it does not is excepted in the property.

- `UpScheduler`: weak fairness of each service's future, each poller and each replica, because
  tokio polls every woken future of `try_join_all`, and requests and waits have a timeout
  (`PollTimeout` and the failure actions are always enabled where an answer is awaited). Not fair
  are the user's own programs: init steps, awaited by a post without a timeout
  (`pre_start.rs:159-164`), hooks, whose exec stream is followed to its end
  (`lifecycle_hooks.rs:86-107`), and builds. `Terminates` allows that one of them
  runs for ever. Containers owe nothing.
- `ConnPool`: weak fairness of each caller's own steps and of hyper's driver. Opens and bodies
  have timeouts, heads as well but for such posts (`post.rs:98-101`); a caller asleep behind
  one of these is ended by `CONNECT_TIMEOUT`, which the model does not need.
- `LevelWalk`: weak fairness of the command as a whole, but for a step that has no deadline
  (`Uncapped`): a stop or restart with the grace -1 (`planning/targets.rs:57-71`), and `down`'s
  `pre_stop` hooks. Nothing is asked of Podman.
- `ProjectSession`: weak fairness of each command's own steps, but for a slow command in its
  init steps, hooks, build or stop, and for an aborted `up` that waits for the exit code of a
  container it failed to stop (`Stays`). Containers need not exit, nobody need interrupt.
- `WatchSync`: weak fairness of the callback's thread, and of the loop but where it follows a
  command in a container, a build, init steps or hooks (`Executing`; `actions.rs:345-355`).
  Nobody need edit.

## The proofs

All are of the form `Spec => []P`, `Spec => [][A]_vars` or, once, `Spec => Abstract`,
for every value of the constants under the named assumptions of the modules: files
are well-typed, `Cap` and `Permits` at least one, callers, services and containers
finite where they are counted, every service above its dependencies, owners that are
different from projects. Each model has its inductive invariant (`IInv`) at its end, so
that TLC could look for a reachable state outside it, on the instances of the runs,
before it was proved.

- `UpSchedulerProofs` - `DependenciesHonoured` and `SuccessMeansUp`. `IInv` adds to
  the types why conditions survive a shared poller: a poller exists only after
  its container's service has ended (`PollerAfterDone`), replicas of a service that
  is up are `brought`, and what a service has `passed` is met (`PassedMet`). The hard
  step is the replica: it may replace a container only while its service is
  `work`ing, hence before anyone polls it. `SuccessMeansUp` follows from what `done`
  says of each service that has ended.
  `ImplementsOrder` is the refinement: the abstract state is read off `pc`, `done` and
  `phase`, `TakePermit` is the abstract beginning of a service and needs from `IInv` that
  its dependencies have ended as they should, `ServiceUp` is its completion, a tolerated
  failure gives it up, any other aborts, `AllUp` succeeds; all that pollers, replicas,
  permits and containers do is a stutter. `progress`, `hard_deps` and `run_deps` are the
  mapping.
- `ConnPoolProofs` - `OneOwner`, `SlotsCovered`, `HandedOutReady`. `Holding` relates `pc`
  to who holds what, and `SlotsCovered` is proved by counting: the set of slot
  holders changes by at most the acting caller, so each step moves `Len(idle)`,
  the cardinality and the count together. `HandedOutReady` needs that a socket in
  the idle queue has no request of anyone's outstanding.
- `ReplicaLifecycleProofs` - `AsSnapshotted` (the container is what the snapshot
  saw until this run deletes it, if nobody meddled), `StepsFirst`, `EnvRead` and
  `Replaced` follow a run through its stages; the four properties are read off
  at its end; `InitReclaimed` is a conjunct, and covers a create in flight. Two action properties
  use the same invariant.
- `LevelWalkProofs` - `Progress` says which levels are done and untouched;
  `Requests` that only the command's own kinds of requests are outstanding, so
  that `Plausible` and `Answers` can say what a container may look like now and
  later: `Good` is preserved by every request that may still be delivered.
  `WalkOrder` then needs only that a dependency's level is lower
  (`FilesAssumption`).
- `CommandProofs` - five machines, each under its own specification. The engine's
  calls (`EngineCalls`) run one command of one machine at a time from its initial state
  and leave the variables of the others alone, so that a step of `calls` is a step of
  the machine's specification or a stutter; the theorems are of these specifications,
  and `calls` checks the same properties of the composition.
  `UpdateInstall`, for any number of updaters: whoever is between backup and
  swap holds the lock, a staged file is nobody else's inode, and the backup holds
  what was found under the lock until it is rolled back or replaced. `Recoverable`
  excepts the one case the model's history marks (`stale`): the backup just removed was the
  only binary that ran.
  `ExecSession`, for any input, output, status and length of the connection's queues:
  what the command wrote is what was printed, then what is on the way out or held back
  (`OutputKept`), what was given is what it read and what is on the way in
  (`InputKept`), and whatever cut either short was noted when it did (`EndsExplained`).
  `ConfigHash`, for any file and any state of the machine: what is proved inductive is
  stronger than what is checked. `AlwaysHonest` says of the container that *any* file
  and machine with its hash would have made it (`RequestHonest`: a hash tells the
  options, the identities of volumes and networks and, in `PayloadTells`, the bytes
  and modes of secrets apart), so it survives edits without looking at them; `Current`
  that while nothing was edited what was made is what would be.
  `StreamFollow`, for any number of containers and chunks: a stream has an
  account (`ReadAhead`) of what reading the rest of its wire would show and hold back,
  chunk by chunk, which is all that was written unless the server broke off; a chunk that
  is sent extends it (`ChainLonger`) and one that is read shortens it (`ChainShorter`),
  so no induction over the wire is needed. How a stream ended is `Justified` by that
  account at its end, and the command's result by the ends of its streams (`Settled`).
  `OneOffRun`, for any service, flags, files and host: what the run knows and what the
  engine has agree as long as nobody else took the container (`IdsAgree`), so a
  code read by name is the run's own (`Staged`); whoever may still be cleared
  came by the name after the check or is the project's (`Cleared`); conditions, once
  seen, stay seen (`DepsSeen`). `Specified` says that the container is made of exactly
  the flags over the service, from which the lemmas read off each field and, for
  each variable, its order of precedence (`EnvironmentOf`). `Provided` with
  `InitStepsMount` is why no volume is left for Podman to invent: the init steps mount
  what the service does, without the flags.
- `ProjectObjectsProofs` - for any number of projects whose files name whatever
  they like. `Placed` says which steps an object may be at in which loop (so that
  nothing is created on the way down, and nothing deleted in a loop that only
  creates); `Vouched` that what is about to be deleted was free or this project's
  when it was looked at, and is so still unless somebody took it. Loops are
  functions of the command (`Following`), so the first lemmas compute them.
  `DownLeavesNothing` and `UpDelivers` say of the end what `Cleared` and `Delivering` say
  of every point of the way: of each kind of object there are loops that are past
  it, and once there, what was promised is gone, or made, unless others took it.
  Each step is seen once as the project's own (`...Clears`, `...Makes`, `...Lists`) and
  once as a bystander's (`DeleteBystander`, `CreatedBystander`, `ByHandBystander`):
  another project never makes an object this one's, and if it removes one, that is
  in `lost`.
- `ProjectSessionProofs` - for any terminals and any commands on them. Of each terminal
  `Own(t)` says: its stage is one its command comes through (`StagedFor`); it holds the
  lock when it works (`LockedFor`); the list it works from names every one-off there
  is, and no other has the name it is about to use (`ListedFor`); the IDs it noted
  mean what they meant (`NotedBy`, since IDs are `Numbered`); and how far a scale has
  come (`ScalingFor`). A step is taken apart in two: what it is to all others
  (`Aside`), from which everything they know is kept (`OthersKeep`), and one lemma per
  step for the terminal that takes it. `Harmless` is a conjunct; `ScaleDelivers` is an
  action property read off `ScalingFor` at the last step. That the name made of a PID
  is free needs `UniquePids`, without which the exception `pid` is real.
- `WatchSyncProofs` - a loop that is asleep with the overflow flag set has a permit
  or a callback about to give it one (`WakesForOverflow`); and `CaughtUp`, for any
  files, rules and length of the queue. Its invariant is an account of every copy
  owed: it is what the host has, or is `presumed` or `rebuilt`, or something `Newer` is
  known (an event on its way, in the queue or in the batch at a place where it is
  not a repetition; or a drop that a resync, due or going on, makes up for), or a
  job still ahead will read the file (`Dispatching`). `ReadFresh` says the same of
  what was read and not yet put, by an upload or by a build. An edit makes an event and the callback passes it on or
  raises the flag (`EditNews`, `CallbackNews`); the loop hands news from one place to
  the next (`QuietAccounted`); a job's step lands a copy, gives it up, or leaves it
  alone (`LandAccounts`, `FailAccounts`, `AccountMoves`). The next job and the first
  of several equal events exist because numbers are well-founded (`WFMin`).

Only model-checked:

- liveness under fairness, which TLAPS cannot reason about: `Terminates` of the scheduler
  and of the walk, `SleeperWoken`, `Granted`, `Rests`;
- what recurses over data, which would need induction with an operator as a parameter:
  `resolve_levels`; `ComposeLoad` with `ServiceMerge` and `ProjectScope`
  (`FilesMerged`, `ScopeFaithful`); the unit files, whose timers, job chains and names are
  computed (`ExportFaithful`, and `OneMode` and `CommandsDeliver`, which are above
  them); of the engine's calls those whose archives, trees, patterns and rows are
  (`CopyFaithful`, `ImagesFaithful`, `ListingFaithful`, `BoardFaithful`), and the words
  of an entrypoint (`WordsAreSplit`);
- disagreements and refutations (`SlotsGivenBack` and the next section).

## Where code and documentation disagree

One is a run whose property is violated. The others that are properties stay in
the modules as definitions, each with the sentence it states; naming one in a
`.cfg` shows its counterexample. The rest was found while translating the code and
shows in a definition's text.

*Lifecycle.*

- `pool_slots` (`SlotsGivenBack`): a failed open is said to give its slot back
  (`pool/mod.rs:94-96`); dropped callers do not.
- `NoPermitAcrossDependencyWait`: the permit is said never to be held across a
  dependency wait (`schedule.rs:57-58`, `126-127`); it is held through every `depends_on`
  condition. With all 16 held by waiting services others queue, though
  `up_order` shows that no deadlock follows.
- `DataSurvives`: data in anonymous volumes is said to survive a recreate
  (`container/mod.rs:142-147`); not if it fails between the delete and the create.
- `SuccessMeansHooked`: a failing `post_start` is said never to pass for success
  (`lifecycle_hooks.rs:109-112`); the next `up` succeeds without running it.
- `LandedWhenConfirmed`: success without confirmation is what the recheck exists to
  prevent (`drop_recheck.rs:1`, `78-80`); a restart is confirmed by the container
  that was running before.
- `StoppedMeansStopped`: `stop` is said to report only containers that were running
  (`stop.rs:193-197`); the 304 it relies on is turned into success below it.
- `KilledAfterStop`: the escalation is said to follow a stop that did not complete
  (`stop.rs:80`); a stop that was never sent is escalated as well.
- `engine/lifecycle/up/mod.rs:296-300` describes a barrier between dependency levels,
  where the scheduler starts each service as soon as its own dependencies allow.

*Project objects and sessions.*

- `BoundaryKept`: a volume this project did not label is not removed
  (`down/mod.rs:229-230`); one that was absent at the check is deleted by name all the
  same, whoever has created it by then (238).
- `PodOnDeclaredNetworks`: the pod hash is said to be over the
  resolved names of the declared networks (`pod/hash.rs:36-38`); it is over their keys
  (50), so a network given another `name:` leaves the pod where it was.
- `ServiceInPod`: `x-podman-pod` is said to put every service
  into the pod (`docs/commands-reference.md:298`); turned on later, it leaves
  unchanged containers outside, whose hash does not look at it (`up_one.rs:153`).
- `VolumesOwned`: a volume that is there already is success only if the project
  owns it (`objects/volume/mod.rs:87`); one that is gone again when its owner is
  asked for passes too, and is then missing.
- Every command that changes containers must hold the lock
  (`command_line/startup/mod.rs:26-27`); a standalone watch rebuilds and restarts
  without it, which is why `Harmless` excepts `watch`.
- The default name of a one-off is unique because it carries the PID
  (`lifecycle/run/command.rs:119`); PIDs are given again while a container of that
  name still exists, which the check that is skipped would have found: `Harmless`
  excepts `pid` unless `UniquePids`.
- `EveryReplicaReady`: a run is said to wait for every condition its target states
  (`run/deps_wait.rs:16`); of a dependency with several replicas it asks the first
  (34), where `up` asks all (`up/readiness.rs:88`). A bad entrypoint or a missing
  `--env-file` is only found when the dependencies are up.
- A run deletes by ID because another container may have taken the name
  (`run/command.rs:301`); it starts, follows and waits by the name (311, 346, 407), so
  in that case the code it tells is the other's: `CodeIsOwn` excepts it.
- A run that Ctrl-C ends leaves its container, though `--rm` is the default: no
  handler is there on a pipe, and the display's exits at once on a terminal.
- An `up --exit-code-from` whose service was stopped by a failed stop waits for
  its exit without a bound.

*Watch, copy.*

- An overflow is said to recover any state, deletions included
  (`watch/mod.rs:246-248`); the resync uploads and removes nothing. `CaughtUp` says so.
- After a rebuild the session still believes that the target directory it had
  ensured exists. Nor does it sync the other rules' files again, which the new container may have
  only as its image has them (`actions.rs:249-281`): `CaughtUp` excepts them (`rebuilt`).
- The session's reads are said never to push out real edits, because the callback drops their
  events (`watch/mod.rs:266-272`); they are in the kernel's queue by then, whose overflow leads to
  a resync, which reads again: `Rests` excepts trees larger than that queue.
- `directory.rs:429`: a copied directory holding a child of its own name cannot be
  flattened, and leaves a half-moved tree; `directory.rs:339`: hard links do not
  replace what an earlier copy left, as files and links do.
- `to_container.rs:143` says libpod creates a missing destination; the second HEAD
  (156) refuses it.
- A source that is a link to a directory, copied without `--follow-link`, is
  confirmed by the directory it points to.
- Every error of the body while an archive is buffered is reported as a size limit. An archive of
  several entries for one file is refused when the first has replaced the destination
  (`extract/unix/mod.rs:73-85`).
- `docs/security-model.md:18` says any symlink in a destination's path is
  refused; those of the system at the root (`/tmp` and the like) are followed.

*Images, observation.*

- `host:5000/name` without a tag is split at the port's colon by `extra_tags.rs:49` and
  not by `export.rs:60`.
- An untagged short name that matches an image of several names is built under the
  first of them (`normalize.rs:72`).
- A Dockerfile is said to be kept in the context wherever it is
  (`build/context/mod.rs:54-58`, `231-232`); named `./v/D`, in an ignored directory, it is dropped
  (59-62, 114-121), and the build fails. `ContextComplete` says so.
- A packer that fails after the server's error is not mentioned; a server that
  ends before it has read the last chunk makes a successful build fail.
- A frame that does not parse is said to be reported whatever the container was
  doing (`libpod/error/mod.rs:259-264`); `up` in the foreground and `stats` decide it by the
  container's state like a connection that died (`attach/streams.rs:131-146`,
  `stats/mod.rs:123-172`): `Overlooked`.
- The limit on a line counts everything buffered, not the line
  (`stream.rs:171`, `piped.rs:92`).
- An exec closed between frames while its command runs ends as a success.
- On a terminal the exec's pump can wait for the server to take input while the
  server waits for its output to be taken (`pump.rs:92`): `TerminalStuck`.
- `--index` is the number in a name for exec and cp, a position including one-off
  containers for port, and a position in the order of names for attach.

*Display.*

- `AttachedStops`: the handler of Ctrl-C is said not to disturb commands that handle
  their own interrupt, none of which open a region (`ui/progress/output/live.rs:146-150`);
  an attached `up` on a terminal opens one first, and its handler, which stays when the
  region is closed, ends the process beside `attach`'s own stop.
- The rows of the live region are said to stay when it is closed (`live.rs:85-95`,
  `session.rs:256-263`); `close_out` goes back over them and clears.
- "a row never goes backwards" (`rows/board.rs:80-81`); a finished row whose container
  is started again does, and is not shown again if it was flushed.
- Lines without a row (the pod's, warnings) and regions higher than the terminal break
  the arithmetic of the repaint: `ScreenSound` excepts them (`disturbed`).
- cp's counter is spawned before the board is opened, and may still write after
  the row is finished.

*Files.*

- `!reset` and `!override` do nothing on the keys outside `clear_service_key`
  (`tagged.rs:7-9`, `tags.rs:34`); tags are lost in a file read from the standard input,
  in the includes of a second -f file and under names written with variables
  (`tags.rs:14-18` calls silence worse than refusal).
- Chains of `extends` are said to retain the env paths of the root compose file
  (`docs/commands.md:22`). A -f file outside the project directory is read with a relative
  `--env-file` taken from the project directory (`parsing.rs:103-105`), the bases it extends with
  the path taken from the file's own (111-116): `Displaced`.
- `RequiredJobsHaveUnits`: a job that requires one without a unit is not exported
  (`docs/commands-reference.md:58`, `quadlet/jobs/mod.rs:114-119`); it is when that job
  is left out last, because another unit has its container's name (226).
- A project's pod unit is not among those that uninstall and a later install find
  (`quadlet/installed.rs:91`); a failed uninstall can leave a timer beside which
  another mode is then installed (`docs/autostart.md:38`), or units that no
  longer count as installed; installs of two modes at once may both pass their checks and both
  write (`quadlet/mod.rs:149-150`, `install/mod.rs:58-59`), since no lock is taken
  (`main.rs:325-335`): `OneMode` excepts it (`contended`); whether a project has quadlet units is decided by
  the prefix of names, which another project's may share.
- `AlwaysRollback`: a failed self-test always has something to roll back to
  (`update/install/mod.rs:107-108`); not where hard links are missing and a killed
  updater's backup had to be removed first (`backup.rs:28`).

## What is not modelled

`PROJECT.json` has the list with reasons. Whole components: the decoding of values and
its messages, the encoding of requests and framing of streams, the discovery of the socket, the command line with its
static checks. In the modelled parts:

- the container specification: the translation of a service's own fields (a pure
  function of hundreds of them), which `ConfigHash` takes as one value;
- replicas: joining a pod, the keep-id mutex, more than one anonymous volume, a create of the
  service's own container that is carried out after its run is gone;
- level walk: `--no-deps`, what `pre_stop` hooks do, the waits of `start --wait`,
  `unpause_paused`, the recreating branch of `restart`, `kill` and `wait`;
- the pool with a cap of zero, streamed bodies; `--wait` after `up`;
- objects: options of networks and volumes, `--rmi`;
- sessions: more than one service; one-off run: what `UpScheduler`, `ReplicaLifecycle`
  and `ExecSession` detail of it, and Ctrl-C;
- display: tables, headers, colours, padding, the width of a line;
- copy: sparse members, extended headers, owners, the Windows variants;
- images: build options that are passed through, credentials;
- observation: formats, colours, resizing;
- units: `--purge`, dry runs, linger, the text beyond what other units and the
  installer read; compose: the syntax of interpolation;
- update: signatures, the Windows variant that renames the running file aside.

## The plan

1. Proofs: `OneMode`, once `Autostart`'s file sets are separated from the generation of
   units; that a step of `EngineCalls` is a step of one of its machines. Eight modules
   hold theorems; new ones go where they belong among these, or are joined with one.
2. Composition by refinement: `ReplicaLifecycle` implements the stages of a
   replica in `UpScheduler`; `LevelWalk` implements `RemoveMembers` of `ProjectObjects`.
3. `ProjectSession` with two services and `OneOffRun` in the place of its `run`.
4. The multiplexed frames of logs and exec over the pool's streamed bodies.

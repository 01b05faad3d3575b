-------------------------- MODULE ReplicaLifecycle --------------------------
(***************************************************************************)
(* One container name over successive runs of `podup up` or `create`: what *)
(* up_one_replica (lifecycle/up/up_one.rs) decides from the snapshot, the  *)
(* pre_start steps (lifecycle/execution/pre_start.rs), the replacement of  *)
(* the container with its anonymous volumes (workload/container), the      *)
(* start and the post_start hooks.                                         *)
(*                                                                         *)
(* Each action is one request to Podman with its answer, but for the       *)
(* create of an init container, which Podman may carry out after the run   *)
(* has given up on it.  The future can be dropped between two of them, or  *)
(* with that create in flight (a sibling failed), and the process can die  *)
(* there; a request whose answer is lost fails with its effect done or     *)
(* not.  Meanwhile containers exit, and a user or another tool removes the *)
(* container or takes its name.                                            *)
(*                                                                         *)
(* A configuration stands for the service's definition with the image its  *)
(* tag resolves to, env for the content of its env_file, which a pre_start *)
(* step may write.  The pair is the config hash.                           *)
(***************************************************************************)
EXTENDS Naturals, FiniteSets

CONSTANTS
    Config,     \* the versions of the service
    Env,        \* the contents of its env_file
    NoHash,     \* no container in the snapshot
    Vol,        \* anonymous volumes
    NoVol,
    Steps,      \* how many pre_start steps the service has
    Options,    \* the flags of a run
    MaxRuns     \* how many runs the model follows

Hash == Config \X Env
OptionType == [no_recreate : BOOLEAN, force_recreate : BOOLEAN, renew : BOOLEAN, start : BOOLEAN]

ASSUME StepsAssumption   == Steps \in Nat /\ MaxRuns \in Nat
ASSUME OptionsAssumption == Options \subseteq OptionType /\ Options # {}
ASSUME NoneAssumption    == NoHash \notin Hash /\ NoVol \notin Vol

VARIABLES
    \* Podman
    owner,     \* who holds the container name
    st,        \* the state of the container
    hash,      \* its podup.config-hash label
    vol,       \* the anonymous volume it mounts
    vols,      \* the volumes that exist
    init,      \* whether an init container of this run exists
    pending,   \* its create has been sent, and Podman is still to deal with it
    \* the project on disk
    cfg, env,
    \* the run
    pc, opt,
    snap,      \* the hash in the snapshot taken when the run began
    used,      \* the environment the run last read
    keep,      \* whether the container is left in place
    step,      \* the pre_start step it is at
    failed,    \* the step failed
    inherited, \* the volume the replacement will mount
    armed,     \* the InitCleanup guard
    sweep,     \* the delete a dropped guard spawned
    outcome,   \* how the last run ended
    runs,
    \* history
    hooked,    \* the container's post_start hooks have all succeeded
    before,    \* the volume the container had when the run began
    data,      \* the volume that holds the service's data
    excuse,    \* why an init container may be left behind
    meddled    \* somebody else touched the name since the run began

podman == <<owner, st, hash, vol, vols, hooked, data>>
disk   == <<cfg, env>>
plan   == <<opt, snap, used, keep, before>>
inits  == <<init, pending, step, failed, armed, sweep, excuse>>
ends   == <<outcome, runs, meddled>>
vars   == <<podman, disk, plan, inits, ends, pc, inherited>>

PCs == {"idle", "decide", "check", "init", "initcreate", "initrun", "initrm", "env", "inherit", "owner",
        "delete", "create", "start", "hooks"}

FlagsOK ==
    /\ init \in BOOLEAN /\ pending \in BOOLEAN /\ armed \in BOOLEAN /\ sweep \in BOOLEAN
    /\ keep \in BOOLEAN /\ failed \in BOOLEAN /\ hooked \in BOOLEAN /\ meddled \in BOOLEAN

TypeOK ==
    /\ FlagsOK
    /\ owner \in {"absent", "ours", "foreign"}
    /\ st \in {"none", "created", "running", "exited"}
    /\ hash \in Hash \cup {NoHash} /\ snap \in Hash \cup {NoHash}
    /\ vol \in Vol \cup {NoVol} /\ inherited \in Vol \cup {NoVol}
    /\ before \in Vol \cup {NoVol} /\ data \in Vol \cup {NoVol}
    /\ vols \subseteq Vol
    /\ cfg \in Config /\ env \in Env /\ used \in Env
    /\ pc \in PCs /\ opt \in Options
    /\ step \in 1 .. Steps + 1
    /\ outcome \in {"none", "ok", "err", "dropped", "died"}
    /\ runs \in 0 .. MaxRuns
    /\ excuse \subseteq {"died", "refused", "exited", "overtaken"}

Init ==
    /\ owner = "absent" /\ st = "none" /\ hash = NoHash /\ vol = NoVol /\ vols = {}
    /\ init = FALSE /\ pending = FALSE /\ armed = FALSE /\ sweep = FALSE /\ excuse = {}
    /\ cfg \in Config /\ env \in Env /\ used = env
    /\ pc = "idle" /\ opt \in Options
    /\ snap = NoHash /\ inherited = NoVol /\ before = NoVol /\ data = NoVol
    /\ keep = FALSE /\ failed = FALSE /\ hooked = FALSE /\ meddled = FALSE
    /\ step = 1 /\ outcome = "none" /\ runs = 0

Goto(l) == pc' = l

-----------------------------------------------------------------------------
\* The run ends, and with it the futures that hold the guard.
End(o) ==
    /\ Goto("idle") /\ outcome' = o
    /\ sweep' = armed /\ armed' = FALSE
    /\ UNCHANGED <<init, pending, step, failed, excuse, runs, meddled>>

\* A request fails without effect.
Fail(l) == pc = l /\ End("err") /\ UNCHANGED <<podman, disk, plan, inherited>>

\* A run begins: the user may have edited the file and its env_file, and the
\* containers of the project are listed.  It is a new process, with init
\* containers of its own: what the last one spawned is over.
Begin ==
    /\ pc = "idle" /\ ~sweep /\ runs < MaxRuns
    /\ runs' = runs + 1
    /\ cfg' \in Config /\ env' \in Env /\ opt' \in Options
    /\ snap' = IF owner = "ours" THEN hash ELSE NoHash
    /\ before' = IF owner = "ours" THEN vol ELSE NoVol
    /\ used' = env' /\ keep' = FALSE /\ inherited' = NoVol
    /\ init' = FALSE /\ pending' = FALSE /\ step' = 1 /\ failed' = FALSE /\ excuse' = {}
    /\ outcome' = "none" /\ meddled' = FALSE
    /\ Goto("decide")
    /\ UNCHANGED <<podman, armed, sweep>>

\* Whether the snapshot's container can be left in place.
unchanged == snap # NoHash /\ snap = <<cfg, used>>

Decide ==
    /\ pc = "decide"
    /\ keep' = (~opt.force_recreate /\ ((opt.no_recreate /\ snap # NoHash) \/ unchanged))
    /\ IF ~keep' THEN Goto("init") /\ UNCHANGED outcome
       ELSE IF opt.start THEN Goto("check") /\ UNCHANGED outcome
       ELSE Goto("idle") /\ outcome' = "ok"
    /\ UNCHANGED <<podman, disk, opt, snap, used, before, inits, runs, meddled, inherited>>

\* ensure_initialized_started: a container not seen running is initialized
\* again before it is started; a listing that fails counts as not running.
Check ==
    /\ pc = "check"
    /\ \/ Steps > 0 /\ Goto("init")
       \/ (Steps = 0 \/ (owner = "ours" /\ st = "running")) /\ Goto("start")
    /\ UNCHANGED <<podman, disk, plan, inits, ends, inherited>>

-----------------------------------------------------------------------------
\* run_pre_start.
AllStepsDone ==
    /\ pc = "init" /\ step > Steps
    /\ Goto(IF keep THEN "start" ELSE "env")
    /\ UNCHANGED <<podman, disk, plan, inits, ends, inherited>>

\* All the steps are validated before the first runs.
NotValid == step = 1 /\ Steps > 0 /\ Fail("init")

\* The step's image is not there: there is no guard yet.
StepImageFailed ==
    /\ pc = "init" /\ step <= Steps
    /\ failed' = TRUE /\ Goto("initrm")
    /\ UNCHANGED <<podman, disk, plan, init, pending, step, armed, sweep, excuse, ends, inherited>>

\* The guard is armed; then the environment is read, which may fail, and the
\* create is sent.
StepSent ==
    /\ pc = "init" /\ step <= Steps
    /\ armed' = TRUE
    /\ \/ pending' = TRUE /\ Goto("initcreate") /\ UNCHANGED failed
       \/ failed' = TRUE /\ Goto("initrm") /\ UNCHANGED pending
    /\ UNCHANGED <<podman, disk, plan, init, step, sweep, excuse, ends, inherited>>

\* Podman carries the create out or refuses it, whoever still waits for it.
StepLands ==
    /\ pending /\ pending' = FALSE
    /\ init' \in {init, TRUE}
    /\ UNCHANGED <<podman, disk, plan, step, failed, armed, sweep, excuse, ends, pc, inherited>>

\* The create has answered; the start that follows may fail.
StepCreated ==
    /\ pc = "initcreate" /\ init
    /\ \/ Goto("initrun") /\ UNCHANGED failed
       \/ failed' = TRUE /\ Goto("initrm")
    /\ UNCHANGED <<podman, disk, plan, init, pending, step, armed, sweep, excuse, ends, inherited>>

\* It was refused, or its answer is lost or late.
StepNotCreated ==
    /\ pc = "initcreate"
    /\ failed' = TRUE /\ Goto("initrm")
    /\ UNCHANGED <<podman, disk, plan, init, pending, step, armed, sweep, excuse, ends, inherited>>

\* The wait answers with the exit code, or is lost.
StepExited ==
    /\ pc = "initrun"
    /\ failed' \in BOOLEAN /\ env' \in Env
    /\ Goto("initrm")
    /\ UNCHANGED <<podman, cfg, plan, init, pending, step, armed, sweep, excuse, ends, inherited>>

\* Mutants: the guard is disarmed whatever the delete answered; a step that
\* failed does not stop the sequence.
StepDisarmedEarly ==
    /\ pc = "initrm"
    /\ init' \in {init, FALSE} /\ outcome' = "err" /\ Goto("idle")
    /\ armed' = FALSE /\ sweep' = FALSE
    /\ UNCHANGED <<podman, disk, plan, pending, step, failed, excuse, runs, meddled, inherited>>
StepFailureIgnored ==
    /\ pc = "initrm"
    /\ init' = FALSE /\ armed' = FALSE
    /\ step' = step + 1 /\ Goto("init")
    /\ UNCHANGED <<podman, disk, plan, pending, failed, sweep, excuse, ends, inherited>>

\* The init container is removed, or was not there, and the guard disarmed.
StepRemoved ==
    /\ pc = "initrm" /\ ~failed
    /\ init' = FALSE /\ armed' = FALSE
    /\ step' = step + 1 /\ Goto("init")
    /\ UNCHANGED <<podman, disk, plan, pending, failed, sweep, excuse, ends, inherited>>

\* The delete found nothing because the create is still to come: the 404 is
\* taken for done.
Overtaken == IF pending THEN {"overtaken"} ELSE {}

FailedStepRemoved ==
    /\ pc = "initrm" /\ failed
    /\ init' = FALSE /\ armed' = FALSE /\ excuse' = excuse \cup Overtaken
    /\ outcome' = "err" /\ Goto("idle")
    /\ UNCHANGED <<podman, disk, plan, pending, step, failed, sweep, runs, meddled, inherited>>

\* The removal fails, done or not: the guard goes with the function.
StepNotRemoved ==
    /\ pc = "initrm"
    /\ init' \in {init, FALSE}
    /\ outcome' = "err" /\ Goto("idle")
    /\ sweep' = armed /\ armed' = FALSE
    /\ UNCHANGED <<podman, disk, plan, pending, step, failed, excuse, runs, meddled, inherited>>

\* The delete a dropped guard spawned, over a connection of its own, which
\* Podman may refuse.
Sweep ==
    /\ sweep /\ sweep' = FALSE
    /\ \/ init' = FALSE /\ excuse' = excuse \cup Overtaken
       \/ excuse' = excuse \cup {"refused"} /\ UNCHANGED init
    /\ UNCHANGED <<podman, disk, plan, pending, step, failed, armed, ends, pc, inherited>>

\* main shuts the runtime down without waiting for what was spawned.
ProcessExits ==
    /\ pc = "idle" /\ sweep /\ sweep' = FALSE
    /\ excuse' = excuse \cup {"exited"}
    /\ UNCHANGED <<podman, disk, plan, init, pending, step, failed, armed, ends, pc, inherited>>

-----------------------------------------------------------------------------
\* recreate_service: the environment is read again if a step may have written it.
\* Mutant: it is not.
KeepEnv == pc = "env" /\ Goto("inherit") /\ UNCHANGED <<podman, disk, plan, inits, ends, inherited>>

RefreshEnv ==
    /\ pc = "env"
    /\ used' = IF Steps = 0 THEN used ELSE env
    /\ Goto("inherit")
    /\ UNCHANGED <<podman, disk, opt, snap, keep, before, inits, ends, inherited>>

\* Mutant: nothing is inherited.
RenewAlways ==
    /\ pc = "inherit" /\ Goto("owner")
    /\ UNCHANGED <<podman, disk, plan, inits, ends, inherited>>

inherit_anonymous_volumes ==
    /\ pc = "inherit"
    /\ inherited' = IF opt.renew \/ owner = "absent" THEN NoVol ELSE vol
    /\ Goto("owner")
    /\ UNCHANGED <<podman, disk, plan, inits, ends>>

require_owned ==
    /\ pc = "owner" /\ owner # "foreign"
    /\ Goto(IF owner = "absent" THEN "create" ELSE "delete")
    /\ UNCHANGED <<podman, disk, plan, inits, ends, inherited>>

NotOwned == owner = "foreign" /\ Fail("owner")

\* Mutant: the delete takes the volumes along whatever the flags say.
DeleteWithVolumes ==
    /\ pc = "delete" /\ Goto("create")
    /\ owner' = "absent" /\ st' = "none" /\ hash' = NoHash /\ vol' = NoVol /\ hooked' = FALSE
    /\ vols' = vols \ {vol} /\ data' = NoVol
    /\ UNCHANGED <<disk, plan, inits, ends, inherited>>

\* The forced delete, by name.  Its answer is ignored.
DeleteOld ==
    /\ pc = "delete" /\ Goto("create")
    /\ owner' = "absent" /\ st' = "none" /\ hash' = NoHash /\ vol' = NoVol /\ hooked' = FALSE
    /\ vols' = IF opt.renew THEN vols \ {vol} ELSE vols
    /\ data' = IF opt.renew THEN NoVol ELSE data
    /\ UNCHANGED <<disk, plan, inits, ends, inherited>>

DeleteFailed ==
    /\ pc = "delete" /\ Goto("create")
    /\ UNCHANGED <<podman, disk, plan, inits, ends, inherited>>

\* The create lands; Podman makes a volume when the spec names none.
Created(v) ==
    /\ owner = "absent"
    /\ IF inherited = NoVol THEN v \in Vol \ vols ELSE v = inherited
    /\ owner' = "ours" /\ st' = "created" /\ hash' = <<cfg, used>> /\ hooked' = FALSE
    /\ vol' = v /\ vols' = vols \cup {v}
    /\ data' = IF data = NoVol THEN v ELSE data

Create ==
    /\ pc = "create" /\ \E v \in Vol : Created(v)
    /\ IF opt.start
         THEN Goto("start") /\ UNCHANGED <<inits, ends>>
         ELSE End("ok")
    /\ UNCHANGED <<disk, plan, inherited>>

CreateLost ==
    /\ pc = "create" /\ \E v \in Vol : Created(v)
    /\ End("err")
    /\ UNCHANGED <<disk, plan, inherited>>

\* The start answers: a container that is gone is an error for one this run
\* has created (create_and_start), not for one it keeps (ensure_started).
Start ==
    /\ pc = "start"
    /\ owner # "absent" \/ keep
    /\ st' = IF owner = "absent" THEN st ELSE "running"
    /\ IF keep THEN End("ok") ELSE Goto("hooks") /\ UNCHANGED <<inits, ends>>
    /\ UNCHANGED <<owner, hash, vol, vols, hooked, data, disk, plan, inherited>>

StartLost ==
    /\ pc = "start" /\ owner # "absent"
    /\ st' = "running" /\ End("err")
    /\ UNCHANGED <<owner, hash, vol, vols, hooked, data, disk, plan, inherited>>

run_post_start_hooks ==
    /\ pc = "hooks" /\ st = "running"
    /\ hooked' = TRUE /\ End("ok")
    /\ UNCHANGED <<owner, st, hash, vol, vols, data, disk, plan, inherited>>

Failed == \E l \in PCs \ {"idle", "init", "initcreate", "initrun", "initrm", "delete", "check"} : Fail(l)

\* A sibling's failure drops the future at an await; the process dies.
Dropped ==
    /\ pc # "idle" /\ End("dropped") /\ UNCHANGED <<podman, disk, plan, inherited>>

Died ==
    /\ pc # "idle" \/ sweep
    /\ Goto("idle") /\ outcome' = "died"
    /\ armed' = FALSE /\ sweep' = FALSE /\ excuse' = excuse \cup {"died"}
    /\ UNCHANGED <<podman, disk, plan, init, pending, step, failed, runs, meddled, inherited>>

-----------------------------------------------------------------------------
\* Containers exit; users and other tools act on the name.
ContainerExits ==
    /\ st = "running" /\ st' = "exited"
    /\ UNCHANGED <<owner, hash, vol, vols, hooked, data, disk, plan, inits, ends, pc, inherited>>

Removed ==
    /\ owner # "absent"
    /\ owner' = "absent" /\ st' = "none" /\ hash' = NoHash /\ vol' = NoVol /\ hooked' = FALSE
    /\ data' = NoVol /\ meddled' = TRUE
    /\ UNCHANGED <<vols, disk, plan, inits, outcome, runs, pc, inherited>>

NameTaken ==
    /\ owner = "absent"
    /\ owner' = "foreign" /\ st' = "running" /\ meddled' = TRUE
    /\ UNCHANGED <<hash, vol, vols, hooked, data, disk, plan, inits, outcome, runs, pc, inherited>>

Run ==
    \/ Begin \/ Decide \/ Check
    \/ AllStepsDone \/ NotValid \/ StepImageFailed \/ StepSent \/ StepCreated \/ StepNotCreated \/ StepExited
    \/ StepRemoved \/ FailedStepRemoved \/ StepNotRemoved
    \/ RefreshEnv \/ inherit_anonymous_volumes \/ require_owned \/ NotOwned
    \/ DeleteOld \/ DeleteFailed \/ Create \/ CreateLost \/ Start \/ StartLost
    \/ run_post_start_hooks \/ Failed

Environment == ContainerExits \/ Removed \/ NameTaken

Next == Run \/ StepLands \/ Sweep \/ ProcessExits \/ Dropped \/ Died \/ Environment

Spec == Init /\ [][Next]_vars
-----------------------------------------------------------------------------
\* An init container of the run, there or still to be created, outlives its step
\* only while a delete of it is to come.  There are four exceptions: Podman
\* refused a delete, the process died, it exited before the delete it had
\* spawned, and a delete overtook the create, whose answer the run never saw, and
\* took Podman's 404 for done.
InitReclaimed == init \/ pending => armed \/ sweep \/ excuse # {}

\* "A failed init leaves the previous service running" (docs/commands.md): a
\* run removes the project's container only after all its init steps succeeded.
FailedInitKeeps ==
    [][owner = "ours" /\ owner' # "ours" /\ pc = "delete" => step > Steps /\ ~failed]_vars

\* What a run that succeeded delivers when nobody else touched the name: the
\* service's own container, started, labelled with what the run read; if it is
\* a new one, that is the environment its init steps left, and its hooks ran.
SuccessDelivers ==
    outcome = "ok" /\ ~meddled =>
        /\ owner = "ours"
        /\ opt.start => st \in {"running", "exited"}
        /\ hash = <<cfg, used>> \/ (keep /\ opt.no_recreate)
        /\ ~keep => hash = <<cfg, env>>
        /\ ~keep /\ opt.start => hooked

\* A run that succeeds without --renew-anon-volumes leaves the service with the
\* anonymous volume it had, whether it kept or replaced the container.
VolumeInherited ==
    outcome = "ok" /\ ~meddled /\ ~opt.renew /\ before # NoVol => vol = before

\* What the four rest on.  The container stays as the snapshot saw it until the
\* run deletes it; what comes after the init steps has seen them all succeed
\* and has read the environment they left.
BeforeDelete == {"decide", "check", "init", "initcreate", "initrun", "initrm", "env", "inherit", "owner", "delete"}
AfterSteps   == {"inherit", "owner", "delete", "create", "start", "hooks"}

NameHeld ==
    /\ owner = "ours" => hash \in Hash /\ vol \in Vol /\ st # "none"
    /\ owner # "ours" => hash = NoHash /\ vol = NoVol

AsSnapshotted ==
    ~meddled /\ pc # "idle" /\ (pc \in BeforeDelete \/ keep) =>
        /\ snap # NoHash => owner = "ours" /\ hash = snap
        /\ before = vol

StepsFirst ==
    /\ pc \in {"initcreate", "initrun", "initrm"} => step <= Steps
    /\ pc \in {"decide", "check", "init", "initcreate", "initrun"} => ~failed
    /\ pending => pc \in {"initcreate", "idle"} \/ (pc = "initrm" /\ failed)
    /\ init /\ pc # "idle" => ~pending /\ pc \in {"initcreate", "initrun", "initrm"}
    /\ pc \in AfterSteps \cup {"env"} /\ ~keep => step > Steps /\ ~failed
    /\ pc \in (AfterSteps \ {"start"}) \cup {"env"} => ~keep
    /\ pc = "check" => keep

EnvRead ==
    /\ pc \in AfterSteps /\ ~keep => used = env
    /\ Steps = 0 /\ pc # "idle" => used = env
    /\ keep /\ pc # "idle" => snap # NoHash /\ (opt.no_recreate \/ snap = <<cfg, used>>) /\ opt.start

Replaced ==
    ~meddled /\ ~keep =>
        /\ pc \in {"owner", "delete", "create"} /\ ~opt.renew /\ before # NoVol => inherited = before
        /\ pc \in {"start", "hooks"} =>
              /\ owner = "ours" /\ hash = <<cfg, used>> /\ opt.start
              /\ ~opt.renew /\ before # NoVol => vol = before
        /\ pc = "hooks" => st \in {"running", "exited"}

AtEnd == sweep \/ outcome # "none" => pc = "idle"

IInv ==
    /\ TypeOK /\ InitReclaimed /\ AtEnd /\ NameHeld /\ AsSnapshotted /\ StepsFirst
    /\ EnvRead /\ Replaced /\ SuccessDelivers /\ VolumeInherited

\* Only a run asked to renew them removes anonymous volumes.
VolumesOnlyRenewed == [][vols \ vols' # {} => opt.renew /\ pc = "delete"]_vars

-----------------------------------------------------------------------------
\* container/mod.rs: "The replacement inherits them by destination, so the data
\* they hold survives the recreate instead of staying behind in a volume nothing
\* points at.  `-V/--renew-anon-volumes` is the way to ask for fresh ones".
DataSurvives == outcome = "ok" /\ ~opt.renew /\ data # NoVol => vol = data

\* lifecycle_hooks.rs: a hook that exits non-zero must surface as an error,
\* "otherwise a failing `post_start` readiness/init step is silently treated as
\* success and dependents start against a container that never initialised".
SuccessMeansHooked == outcome = "ok" /\ opt.start /\ ~meddled => hooked
=============================================================================

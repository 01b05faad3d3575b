---------------------------- MODULE QuadletUnits ----------------------------
(***************************************************************************)
(* `podup generate quadlet` and the unit set that quadlet-mode autostart   *)
(* installs: a compose file becomes network, volume, pod, build, container *)
(* and timer units (backends/quadlet).  A unit keeps what the other units  *)
(* and the installer read of it: its file name, its owner marker, the      *)
(* container it creates and the units its keys refer to.                   *)
(*                                                                         *)
(* A name is a sequence of words: <<"app", "web">> stands for "app-web".   *)
(* A compose file is a record                                              *)
(*   pod       x-podman-pod: true                                          *)
(*   networks, volumes   sequences of [name, external]                     *)
(*   services  a sequence of services                                      *)
(*   jobs      a sequence of [service, schedule, plainName]                *)
(* and a service is                                                        *)
(*   name, image (has one), build ("none", "context" or "inline"),         *)
(*   container (a container_name, or <<>>), needs (name -> required),      *)
(*   networks, volumes (sets of names), joins (the service whose network   *)
(*   namespace it shares, or <<>>).                                        *)
(***************************************************************************)
EXTENDS CronCalendar, Sequences, SequencesExt, TLC

CONSTANTS
    Projects,      \* project names, some of them a prefix of another
    Sanitized,     \* a function: words with unsafe characters -> safe words
    Entries        \* the schedule entries the compose files use

\* The plan of each entry, worked out once.
Plans == [entry \in Entries |-> plan(entry)]

\* render.rs:140: the stem of a unit file carries the project's name.
safe_unit_stem(name) ==
    [i \in DOMAIN name |-> IF name[i] \in DOMAIN Sanitized THEN Sanitized[name[i]] ELSE name[i]]

unit_stem(project, name) == safe_unit_stem(project \o name)

UnitFile(project, name, suffix) == <<unit_stem(project, name), <<suffix>>>>

emits_build_unit(svc) == svc.build = "context"

container_name(project, svc) ==
    IF svc.container # <<>> THEN svc.container ELSE project \o svc.name

\* The parts of a unit others read.  `requires` are units it cannot start
\* without (Requires=, Network=, Volume=, Pod=, Image=...build).
Unit(project, file, container, requires) ==
    [file |-> file, owner |-> project, container |-> container, requires |-> requires]

DeclaredAll(resources) == {r.name : r \in ToSet(resources)}

Declared(resources) == {r.name : r \in {r \in ToSet(resources) : ~r.external}}

network_units(file, project) ==
    [i \in DOMAIN SelectSeq(file.networks, LAMBDA n : ~n.external) |->
        Unit(project,
             UnitFile(project, SelectSeq(file.networks, LAMBDA n : ~n.external)[i].name, "network"),
             <<>>, {})]

volume_units(file, project) ==
    [i \in DOMAIN SelectSeq(file.volumes, LAMBDA v : ~v.external) |->
        Unit(project,
             UnitFile(project, SelectSeq(file.volumes, LAMBDA v : ~v.external)[i].name, "volume"),
             <<>>, {})]

\* unit/pod/mod.rs: the pod's unit is named after the project alone.
pod_file(project) == <<safe_unit_stem(project), <<"pod">>>>

pod_unit(file, project) ==
    IF file.pod
    THEN <<Unit(project, pod_file(project), <<>>,
                {UnitFile(project, n, "network") : n \in Declared(file.networks)})>>
    ELSE <<>>

build_unit(svc, project) ==
    IF emits_build_unit(svc)
    THEN <<Unit(project, UnitFile(project, svc.name, "build"), <<>>, {})>> ELSE <<>>

\* unit/container/networking: a member of the pod uses the pod's networks.
NetworkRefs(file, svc, project) ==
    (IF file.pod THEN {} ELSE {UnitFile(project, n, "network") :
                                  n \in svc.networks \cap Declared(file.networks)})
    \cup (IF svc.joins = <<>> THEN {} ELSE {UnitFile(project, svc.joins, "container")})

\* unit/container/mod.rs.  In the prebuilt shape the image is the build's tag, so
\* the container does not depend on the build unit.
container_unit(file, svc, project, mode) ==
    Unit(project, UnitFile(project, svc.name, "container"), container_name(project, svc),
         {UnitFile(project, d, "container") : d \in {d \in DOMAIN svc.needs : svc.needs[d]}}
         \cup (IF file.pod THEN {pod_file(project)} ELSE {})
         \cup (IF emits_build_unit(svc) /\ mode = "standard"
               THEN {UnitFile(project, svc.name, "build")} ELSE {})
         \cup {UnitFile(project, v, "volume") : v \in svc.volumes \cap Declared(file.volumes)}
         \cup NetworkRefs(file, svc, project))

\* exported_names.rs and mod.rs:42: what no unit can express is refused, and so
\* is a service with nothing to run.
validate_for_quadlet(file) ==
    \A s \in ToSet(file.services) \cup {j.service : j \in ToSet(file.jobs)} :
        s.image \/ s.build # "none"

----------------------------------------------------------------------------
(* The jobs (jobs/mod.rs).  A job is exported with the entries of its       *)
(* schedule that a timer can express.                                       *)

\* A reason that keeps the whole job out, or "".
job_blocker(file, job) ==
    IF file.pod THEN "pod"
    ELSE IF ~job.service.image /\ ~emits_build_unit(job.service) THEN "image"
    ELSE IF ~job.plainName THEN "unit name" ELSE ""

\* The positions of the schedule that are exported.
Exportable(file, job) ==
    IF job_blocker(file, job) # "" THEN {}
    ELSE {i \in DOMAIN job.schedule : Plans[job.schedule[i]].ok}

JobNames(file) == {j.service.name : j \in ToSet(file.jobs)}

BlockOnce(file, exported) ==
    LET present == {j.service.name : j \in ToSet(exported)}
    IN SelectSeq(exported, LAMBDA j : \A d \in DOMAIN j.service.needs :
                               j.service.needs[d] /\ d \in JobNames(file) => d \in present)

\* jobs/mod.rs:120: a job that requires a job without a unit is dropped, until
\* nothing changes.
RECURSIVE block_unsatisfied_dependents(_, _)
block_unsatisfied_dependents(file, exported) ==
    LET present == {j.service.name : j \in ToSet(exported)}
        Satisfied(j) == \A d \in DOMAIN j.service.needs :
                            j.service.needs[d] /\ d \in JobNames(file) => d \in present
        kept == SelectSeq(exported, Satisfied)
    IN IF kept = exported THEN exported ELSE block_unsatisfied_dependents(file, kept)

exported_jobs(file) ==
    block_unsatisfied_dependents(file, SelectSeq(file.jobs, LAMBDA j : Exportable(file, j) # {}))

\* jobs/mod.rs:289: an optional dependency on a job without a unit is dropped.
drop_unexported_dependencies(svc, known) ==
    [svc EXCEPT !.needs = [d \in DOMAIN svc.needs \cap known |-> svc.needs[d]]]

timer_units(job, project, positions) ==
    LET at == SelectSeq([i \in DOMAIN job.schedule |-> i], LAMBDA i : i \in positions)
    IN [i \in DOMAIN at |->
           Unit(project, <<unit_stem(project, job.service.name), <<"timer", at[i]>>>>, <<>>,
                {UnitFile(project, job.service.name, "container")})]

\* jobs/mod.rs:186.  `state` carries the units written, the container names in
\* use and what is reported: <<job, position, reason>>.
export_job(file, project, known, state, job) ==
    LET svc  == drop_unexported_dependencies(job.service, known)
        name == container_name(project, svc)
        at   == Exportable(file, job)
    IN IF name \in state.taken
       THEN [state EXCEPT !.warned = @ \cup {<<svc.name, i, "container name">> : i \in at}]
       ELSE [units  |-> state.units \o build_unit(svc, project)
                            \o <<container_unit(file, svc, project, "standard")>>
                            \o timer_units(job, project, at),
             taken  |-> state.taken \cup {name},
             warned |-> state.warned]

\* The entries that are not exported, each with its reason.
EntryWarnings(file, job) ==
    LET Why(i) == IF job_blocker(file, job) # "" THEN job_blocker(file, job)
                  ELSE Plans[job.schedule[i]].why
    IN {<<job.service.name, i, Why(i)>> : i \in DOMAIN job.schedule \ Exportable(file, job)}

NoDependencyWarnings(file) == {}

DependencyWarnings(file) ==
    UNION {{<<j.service.name, i, "dependency">> : i \in Exportable(file, j)} :
              j \in ToSet(file.jobs) \ ToSet(exported_jobs(file))}

append_job_units(file, project, units) ==
    LET kept  == exported_jobs(file)
        known == {s.name : s \in ToSet(file.services)} \cup {j.service.name : j \in ToSet(kept)}
        start == [units  |-> units,
                  taken  |-> {container_name(project, s) : s \in ToSet(file.services)},
                  warned |-> UNION {EntryWarnings(file, j) : j \in ToSet(file.jobs)}
                             \cup DependencyWarnings(file)]
    IN FoldLeft(LAMBDA s, j : export_job(file, project, known, s, j), start, kept)

----------------------------------------------------------------------------
\* mod.rs:223.  Autostart installs the prebuilt shape, without jobs; a job is
\* then reported as a whole (position 0).
generate_with_mode(file, project, mode) ==
    LET Units(i) == build_unit(file.services[i], project)
                      \o <<container_unit(file, file.services[i], project, mode)>>
        base == network_units(file, project) \o volume_units(file, project)
                  \o pod_unit(file, project)
                  \o FlattenSeq([i \in DOMAIN file.services |-> Units(i)])
    IN IF mode = "standard" THEN append_job_units(file, project, base)
       ELSE [units  |-> base, taken |-> {},
             warned |-> {<<n, 0, "autostart">> : n \in JobNames(file)}]

FilesOf(units) == {u.file : u \in ToSet(units)}

\* mod.rs:171: two resources that map to one file are refused.
duplicate_filename(units) == Cardinality(FilesOf(units)) < Len(units)

NoStaleTimers(dir, project, units) == {}

\* jobs/stale: the project's timers of an earlier run that this one does not write.
stale_timers(dir, project, units) ==
    {name \in DOMAIN dir : /\ name \notin FilesOf(units)
                           /\ name[2][1] = "timer"
                           /\ dir[name] = project}
=============================================================================

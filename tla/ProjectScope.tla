----------------------------- MODULE ProjectScope -----------------------------
(***************************************************************************)
(* What a command acts on: the services and jobs of a loaded project that  *)
(* its profiles and its targets select                                     *)
(* (backends/engine/project/profiles.rs, profiles_jobs.rs,                 *)
(* lifecycle/planning/targets.rs, parsing/compose/jobs/views/view.rs), for *)
(* `up`, for `config` and for `run` of a job.                              *)
(***************************************************************************)
EXTENDS ComposeLoad

CONSTANTS
    Profiles,           \* the sets of profiles a user may activate
    Targets,            \* the lists of names a user may give, as sets
    EnvValues,          \* what each env file sets, a map
    Direct              \* the extends of a service whose base extends nothing

VARIABLES
    scope,      \* the model the command works on
    started     \* the services `up` starts, the jobs `run` reaches

vars == <<disk, argv, envs, project_dir, at, file, spent, log, phase, error, scope, started>>

RECURSIVE Closure(_, _)
Closure(deps, names) ==
    LET more == names \cup UNION {deps[n] : n \in names \cap DOMAIN deps} IN
    IF more = names THEN names ELSE Closure(deps, more)

DepsOf(services) == [n \in DOMAIN services |-> DOMAIN effective_depends_on(services[n], services)]

Restricted(map, names) == [n \in DOMAIN map \cap names |-> map[n]]

service_in_profiles(svc, active) ==
    svc.profiles = {} \/ "*" \in active \/ svc.profiles \cap active # {}

\* A service of no profile, of an active one or named by the user, and every
\* service of the file that one of those depends on.
enabled_profile_services(f, active, targets) ==
    Closure(DepsOf(f.services),
            {n \in DOMAIN f.services : service_in_profiles(f.services[n], active) \/ n \in targets})
        \cap DOMAIN f.services

\* Mutant operator: only the jobs that need a service are looked at.
LostServices(f, kept, enabled) ==
    {n \in kept : \E d \in required_for(effective_depends_on(f.jobs[n].service,
                                                             with_jobs_as_services(f))) :
        d \in DOMAIN f.services /\ d \notin enabled}

\* The jobs of kept that lost something they need: a job that is not kept, a
\* service of an inactive profile.
Lost(f, kept, enabled) ==
    {n \in kept : \E d \in required_for(effective_depends_on(f.jobs[n].service,
                                                             with_jobs_as_services(f))) :
        IF d \in DOMAIN f.jobs THEN d \notin kept
        ELSE d \in DOMAIN f.services /\ d \notin enabled}

RECURSIVE Supported(_, _, _)
Supported(f, kept, enabled) ==
    LET lost == Lost(f, kept, enabled) IN
    IF lost = {} THEN kept ELSE Supported(f, kept \ lost, enabled)

retain_jobs(f, active, targets, enabled) ==
    Supported(f, {n \in DOMAIN f.jobs : service_in_profiles(f.jobs[n].service, active)
                                        \/ n \in targets}, enabled)

retain_active_profiles_with_targets(f, active, targets) ==
    LET enabled == enabled_profile_services(f, active, targets) IN
    [f EXCEPT !.services = Restricted(@, enabled),
              !.jobs = Restricted(@, retain_jobs(f, active, targets, enabled))]

\* Mutant operator: the targets alone, without what they depend on.
TargetsOnly(f, active, targets, no_deps) ==
    [f EXCEPT !.services = Restricted(@, IF targets = {} THEN DOMAIN @ ELSE targets)]

\* The services an `up` waits for, attaches to and stops.
retain_up_scope(f, active, targets, no_deps) ==
    LET kept == retain_active_profiles_with_targets(f, active, targets) IN
    IF targets = {} THEN kept
    ELSE [kept EXCEPT !.services =
            Restricted(@, IF no_deps THEN targets ELSE Closure(DepsOf(@), targets))]

\* The services an `up` starts, when the user named some.
expand_targets(f, targets, no_deps) ==
    IF targets = {} THEN DOMAIN f.services
    ELSE IF no_deps THEN targets ELSE Closure(DepsOf(f.services), targets)

(***************************************************************************)
(* `run` of a job: the job, the jobs it reaches, and every service.        *)
(***************************************************************************)
allows_manual(job) == job.triggers.manual # FALSE

JobDeps(f) ==
    [n \in DOMAIN f.jobs |->
        DOMAIN effective_depends_on(f.jobs[n].service, with_jobs_as_services(f))
            \cap DOMAIN f.jobs]

Reached(f, target) == Closure(JobDeps(f), {target})

run_view(f, target) ==
    IF \E n \in Reached(f, target) : ~allows_manual(f.jobs[n])
    THEN [err |-> "manual", services |-> <<>>]
    ELSE [err |-> None,
          services |-> Restricted(with_jobs_as_services(f),
                                  DOMAIN f.services \cup Reached(f, target))]

(***************************************************************************)
(* `config`: the env files folded into the environment, then the checks a  *)
(* rendered project goes through.                                          *)
(***************************************************************************)
load_env_file_entries(entries) ==
    FoldLeft(LAMBDA map, e : EnvValues[e.path.base] @@ map, <<>>, entries)

MissingEntry(entries) ==
    \E i \in DOMAIN entries :
        entries[i].required /\ Join(project_dir, entries[i].path) \notin EnvFiles

MissingIn(services) == \E n \in DOMAIN services : MissingEntry(services[n].env_file)

Readable(entries) ==
    SelectSeq(entries, LAMBDA e : Join(project_dir, e.path) \in EnvFiles)

materialize_service(svc) ==
    [svc EXCEPT !.environment = @ @@ load_env_file_entries(Readable(svc.env_file)),
                !.env_file = <<>>]

materialize_env_files(f) ==
    [f EXCEPT !.services = [n \in DOMAIN @ |-> materialize_service(@[n])],
              !.jobs = [n \in DOMAIN @ |-> [@[n] EXCEPT !.service = materialize_service(@)]]]

\* Every container has an image or a build, every required dependency of a job
\* is defined, and nothing depends on itself.
validate_config(f) ==
    LET all  == with_jobs_as_services(f)
        deps == DepsOf(all)
    IN  /\ DOMAIN all # {}
        /\ \A n \in DOMAIN all : all[n].image # None \/ all[n].build # None
        /\ \A n \in DOMAIN all :
              required_for(effective_depends_on(all[n], all)) \subseteq DOMAIN all
        /\ \A n \in DOMAIN all : n \notin Closure(deps, deps[n])

(***************************************************************************)
(* The commands.                                                           *)
(***************************************************************************)
Stop(why) ==
    /\ phase' = "failed"
    /\ error' = why
    /\ UNCHANGED <<disk, argv, envs, project_dir, at, file, spent, log, scope, started>>

Done(f, names) ==
    /\ scope' = f
    /\ started' = names
    /\ phase' = "done"
    /\ UNCHANGED <<disk, argv, envs, project_dir, at, file, spent, log, error>>

Up(targets, active, no_deps) ==
    /\ phase = "loaded"
    /\ IF ~(targets \subseteq DOMAIN file.services) THEN Stop("unknown service")
       ELSE Done(retain_up_scope(file, active, targets, no_deps),
                 enabled_profile_services(file, active, targets)
                     \cap expand_targets(file, targets, no_deps))

Config(active) ==
    /\ phase = "loaded"
    /\ \E kept \in {retain_active_profiles_with_targets(file, active, {})} :
          IF MissingIn(with_jobs_as_services(kept)) THEN Stop("env file")
          ELSE IF ~validate_config(materialize_env_files(kept)) THEN Stop("config")
          ELSE Done(materialize_env_files(kept), {})

RunJob(target) ==
    /\ phase = "loaded"
    /\ target \in DOMAIN file.jobs \ DOMAIN file.services
    /\ LET view == run_view(file, target) IN
       IF view.err # None THEN Stop(view.err)
       ELSE Done([file EXCEPT !.services = view.services], Reached(file, target))

Load == (ParseFile \/ Loaded) /\ UNCHANGED <<scope, started>>

Next ==
    \/ Load
    \/ \E targets \in Targets, active \in Profiles, no_deps \in BOOLEAN :
          Up(targets, active, no_deps)
    \/ \E active \in Profiles : Config(active)
    \/ \E target \in DOMAIN file.jobs : RunJob(target)

ScopeInit == LoadInit /\ scope = EmptyFile /\ started = {}

(***************************************************************************)
(* What the load and the selection promise.                                *)
(***************************************************************************)
Written(i, n) == disk[argv[i]].services[n]

Names(i, n) == n \in DOMAIN disk[argv[i]].services

\* File i makes a list of service n its own: it tags it where the tag is seen.
Cuts(i, n) ==
    /\ Names(i, n)
    /\ ~is_stdin(argv[i]) /\ disk[argv[i]].literal
    /\ "ports" \in DOMAIN Written(i, n).merge_tags

\* What file i adds to the ports of n: its own, unless it resets them where
\* there is something to reset, and those of the base it extends, unless it tags
\* them.
Adds(i, n) ==
    IF ~Names(i, n) THEN {}
    ELSE LET svc  == Written(i, n)
             tag  == TagOf(svc.merge_tags, "ports")
             ext  == svc.extends
             base == disk[Join(dir_of(argv[i]), ext.file)].services[ext.service]
         IN  IF tag = "reset" /\ (ext # None \/ (Cuts(i, n) /\ \E k \in 1 .. i - 1 : Names(k, n))) THEN {}
             ELSE Range(svc.ports) \cup
                  (IF ext # None /\ tag = None THEN Range(base.ports) ELSE {})

\* The ports of a service are those some file wrote and no later file cut away
\* with a tag: a merge loses nothing and a tag spares nothing
\* (merge_service_tagged, merge_override, collect_from_file).
PortsMerged ==
    \A n \in DOMAIN file.services :
        (\A i \in 1 .. at : Names(i, n) => Written(i, n).extends \in Direct) =>
        Range(file.services[n].ports) =
            UNION {Adds(i, n) : i \in {k \in 1 .. at : \A j \in k + 1 .. at : ~Cuts(j, n)}}

\* A -f file outside the project directory: its text is read with the --env-file
\* paths of the project directory, the bases its services extend with those of
\* its own (parsing.rs 103-111).
Displaced(own, base) ==
    \E f \in Range(argv) : /\ dir_of(f) # project_dir
                           /\ own  = build_vars(project_dir, envs)
                           /\ base = build_vars(dir_of(f), envs)

\* A service read with env files and the base it extends in another file are
\* interpolated with the same ones, along the whole chain and whatever include
\* brought the service (resolution.rs resolve_one_extends, include.rs
\* merge_includes_in), but for the services of a -f file outside the project
\* directory when --env-file is relative: their bases are read with that path
\* taken from the file's directory.
ContextKept ==
    \A pair \in log : "env" \in DOMAIN pair[1] =>
        pair[2] = pair[1] \/ Displaced(pair[1], pair[2])

\* The -f files together stay within the limit on what interpolation puts out:
\* the limit is one for the project, however many files it is spread over
\* (substitute/project_budget.rs).
WithinBudget ==
    FoldLeft(LAMBDA sum, path : sum + disk[path].bytes, 0, SubSeq(argv, 1, at))
        <= MaxDocumentBytes

\* An `up` waits for, attaches to and stops the services it started and no
\* other, though the two sets come from two functions
\* (profiles.rs retain_up_scope, targets.rs expand_targets).
ScopeIsStarted ==
    phase = "done" /\ started # {} /\ DOMAIN scope.services \cap DOMAIN file.jobs = {} =>
        DOMAIN scope.services = started

\* A project of a profile keeps a job exactly when some set of the jobs the
\* profile selects holds everything its members need, the job among them
\* (profiles_jobs.rs).
JobsKept ==
    \A active \in Profiles :
        LET enabled  == enabled_profile_services(file, active, {})
            selected == {n \in DOMAIN file.jobs : service_in_profiles(file.jobs[n].service, active)}
            all      == with_jobs_as_services(file)
            needs(n) == required_for(effective_depends_on(all[n], all)) \cap DOMAIN all
            supports == {s \in SUBSET selected : \A n \in s : needs(n) \subseteq s \cup enabled}
        IN  phase = "loaded" => retain_jobs(file, active, {}, enabled) = UNION supports

\* Files come together as if they had been written as one: each keeps the ports and,
\* but for a -f file displaced from the project directory, the env files it was
\* read with, and the limit on them is that of the project.
FilesMerged == PortsMerged /\ ContextKept /\ WithinBudget

\* What a profile or a target selects is what runs and what is waited for, jobs included.
ScopeFaithful == ScopeIsStarted /\ JobsKept
=============================================================================

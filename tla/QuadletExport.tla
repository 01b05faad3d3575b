--------------------------- MODULE QuadletExport ---------------------------
(***************************************************************************)
(* `podup generate quadlet -o DIR`, run again and again by several projects *)
(* that share the directory while their compose files change                *)
(* (main_runner/commands/generate.rs).  A run may be killed between two of  *)
(* its writes; nothing locks the directory.                                 *)
(***************************************************************************)
EXTENDS QuadletUnits

CONSTANTS
    ComposeFiles,   \* the compose files of each project
    MaxExports      \* runs in a behaviour

VARIABLES
    dir,        \* the directory: file name -> owner
    run,        \* the last run of each project
    exports     \* runs so far

exportVars == <<dir, run, exports>>

NoRun == [stage |-> "none", file |-> <<>>, units |-> <<>>,
          warned |-> {}, stale |-> {}, written |-> 0]

ExportInit ==
    /\ dir = <<>>
    /\ run = [p \in Projects |-> NoRun]
    /\ exports = 0

\* write_quadlet: the units, the warnings, and the timers of earlier runs that are
\* reported because this one does not write them.  A file that quadlet cannot take and
\* one whose names collide are refused before anything is written.
write_quadlet(p) ==
    /\ run[p].stage \in {"none", "done", "refused", "killed"}
    /\ exports < MaxExports
    /\ exports' = exports + 1
    /\ \E file \in ComposeFiles[p] :
       \E result \in {generate_with_mode(file, p, "standard")} :
          run' = [run EXCEPT ![p] =
                    [file    |-> file,
                     stage   |-> IF ~validate_for_quadlet(file) \/ duplicate_filename(result.units)
                                 THEN "refused" ELSE "guard",
                     units   |-> result.units,
                     warned  |-> result.warned,
                     stale   |-> stale_timers(dir, p, result.units),
                     written |-> 0]]
    /\ UNCHANGED dir

\* publishing/mod.rs:25: every owner is read before the first file is written.
guard_export(p) ==
    /\ run[p].stage = "guard"
    /\ run' = [run EXCEPT ![p].stage =
                 IF \E f \in FilesOf(run[p].units) \cap DOMAIN dir : dir[f] # p THEN "refused" ELSE "write"]
    /\ UNCHANGED <<dir, exports>>

\* publishing/mod.rs:94: one file after the other, each of them whole.
write_unit_file(p) ==
    /\ run[p].stage = "write"
    /\ IF run[p].written = Len(run[p].units)
       THEN run' = [run EXCEPT ![p].stage = "done"] /\ UNCHANGED dir
       ELSE \E f \in {run[p].units[run[p].written + 1].file} :
               /\ dir' = (f :> p) @@ dir
               /\ run' = [run EXCEPT ![p].written = @ + 1]
    /\ UNCHANGED exports

Kill(p) ==
    /\ run[p].stage = "write"
    /\ run' = [run EXCEPT ![p].stage = "killed"]
    /\ UNCHANGED <<dir, exports>>

ExportNext == \E p \in Projects :
    write_quadlet(p) \/ guard_export(p) \/ write_unit_file(p) \/ Kill(p)

----------------------------------------------------------------------------
\* Planned, and not yet anything written: what a run plans does not change later.
Planned(p) == run[p].stage = "guard"

Timer(p, job, i) == <<unit_stem(p, job.service.name), <<"timer", i>>>>

\* Every timer fires exactly when the crontab expression it was made from would: the
\* weekday numbering, the steps, the wrapped Sunday and the rule that joins the two day
\* fields all survive the translation to systemd's calendar (jobs/calendar).
CalendarAgrees ==
    \A p \in Projects : Planned(p) =>
        \A j \in ToSet(run[p].file.jobs) : \A i \in DOMAIN j.schedule :
            Timer(p, j, i) \in FilesOf(run[p].units)
                => Fires(Plans[j.schedule[i]].calendar) = CronFires(j.schedule[i].cron)

\* Every entry of every schedule either has its timer among the units or is reported,
\* never both, whatever kept it out: the expression, the job, a dependency without a unit
\* or a container name in use (jobs/mod.rs).
EntriesAccounted ==
    \A p \in Projects : Planned(p) =>
        \A j \in ToSet(run[p].file.jobs) : \A i \in DOMAIN j.schedule :
            (Timer(p, j, i) \in FilesOf(run[p].units))
                <=> ~\E w \in run[p].warned : w[1] = j.service.name /\ w[2] = i

\* The jobs a file may export together: each has every job it requires.
Supported(file, jobs) ==
    \A j \in jobs : \A d \in DOMAIN j.service.needs :
        j.service.needs[d] /\ d \in JobNames(file) => \E k \in jobs : k.service.name = d

\* jobs/mod.rs:114: no job is exported without the jobs it requires, and no more jobs are
\* left out than that takes.
JobsSupported ==
    \A p \in Projects : Planned(p) =>
        LET able == {j \in ToSet(run[p].file.jobs) : Exportable(run[p].file, j) # {}}
        IN ToSet(exported_jobs(run[p].file))
             = UNION {jobs \in SUBSET able : Supported(run[p].file, jobs)}

\* A unit refers only to units written with it, so that systemd can resolve them, unless
\* it requires a job that export_job leaves out for its container name (jobs/mod.rs:226).
ReferencesResolve ==
    \A p \in Projects : Planned(p) =>
        \A u \in ToSet(run[p].units) : \A f \in u.requires :
            \/ f \in FilesOf(run[p].units)
            \/ \E w \in run[p].warned : /\ w[3] = "container name"
                                        /\ f = UnitFile(p, w[1], "container")

\* docs/commands-reference.md:58 without that exception: a job that requires a job without
\* a unit is not exported.
RequiredJobsHaveUnits ==
    \A p \in Projects : Planned(p) =>
        \A u \in ToSet(run[p].units) : u.requires \subseteq FilesOf(run[p].units)

\* After a run that ended well, each timer of the project in the directory was written by
\* it or was reported as still firing: nothing an earlier file scheduled goes on unseen
\* (jobs/stale, generate.rs:76), even when an earlier run was killed halfway.
StaleTimersReported ==
    \A p \in Projects : run[p].stage = "done" =>
        \A f \in DOMAIN dir :
            dir[f] = p /\ f[2][1] = "timer" => f \in FilesOf(run[p].units) \cup run[p].stale

\* What an export writes does what the file asked for and hangs together, and what it
\* leaves out, or leaves behind, is said: a timer fires when its crontab expression does,
\* every entry is a timer or a warning, every job is exported that can be, every unit it
\* refers to is written with it, and no timer of an earlier export fires on unseen.
ExportFaithful ==
    /\ CalendarAgrees
    /\ EntriesAccounted
    /\ JobsSupported
    /\ ReferencesResolve
    /\ StaleTimersReported
=============================================================================

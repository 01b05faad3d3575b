----------------------------- MODULE Autostart -----------------------------
(***************************************************************************)
(* `podup autostart install | uninstall | rebuild`: the unit files of two  *)
(* directories and the user manager's view of them, as the commands of     *)
(* several projects change them (backends/autostart).  No command takes a  *)
(* lock: those of one project and of different projects interleave, and    *)
(* any `systemctl` call or write can fail or be the last thing a killed    *)
(* command did.                                                            *)
(*                                                                         *)
(* A file is named <<directory, stem, suffix>>; a project name and a stem  *)
(* are sequences of words.  Its content is [owner, marked, role, exec]:    *)
(* whose unit it is, whether it carries the `# podup-owner:` marker, what  *)
(* it is for and, for a main unit, what its ExecStart= runs.               *)
(***************************************************************************)
EXTENDS QuadletUnits

CONSTANTS
    Stacks,         \* the compose files a project may be installed from, by name
    Slots,          \* commands of one project that may be under way at once
    MaxCommands,    \* commands in a behaviour
    MaxFaults       \* failed calls and kills in a behaviour

VARIABLES
    generated,  \* the units of each project and stack, which never change
    disk,       \* the unit files: name -> content
    enabled,    \* units the user manager starts at boot or on a timer
    active,     \* units that run
    proc,       \* the commands under way
    last,       \* how the last command of each slot ended, "none" while one runs
    broken,     \* projects of which some command did not run to its end, or ran
                \*   beside another one
    contended,  \* projects of which an install of a single unit and one of quadlet
                \*   units were under way at once
    ran,        \* commands started
    faults      \* failures and kills so far

Commands == [project : Projects, slot : 1 .. Slots]

autostartVars == <<generated, disk, enabled, active, proc, last, broken, contended, ran, faults>>

----------------------------------------------------------------------------
Main(p)          == <<"user", p, <<"service">>>>
UpdateService(p) == <<"user", p, <<"update", "service">>>>
UpdateTimer(p)   == <<"user", p, <<"update", "timer">>>>

\* unit_files/service.rs:315: the names of older releases.  The service's is the
\* main unit's name for a project called <project>-update.
LegacyService(p) == <<"user", p \o <<"update">>, <<"service">>>>
LegacyTimer(p)   == <<"user", p \o <<"update">>, <<"timer">>>>

\* What the units of single-unit mode say (unit_files/service.rs, start.rs): whose they
\* are, and for a main unit whether podup brings the project up at boot or podman starts
\* its one container.
Content(p, role, exec) == [owner |-> p, marked |-> TRUE, role |-> role, exec |-> exec]

ServiceUnit(p)       == Content(p, "main", "service")
StartUnit(p)         == Content(p, "main", "start")
UpdateServiceUnit(p) == Content(p, "upservice", "up")
UpdateTimerUnit(p)   == Content(p, "uptimer", "up")

Legacy(p, role)        == [owner |-> p, marked |-> FALSE, role |-> role, exec |-> "unknown"]

Quadlet(file) == <<"quadlet", file[1], file[2]>>

Exists(name) == name \in DOMAIN disk

Without(names) == Restrict(disk, DOMAIN disk \ names)

UnitNames(p, stack) == {Quadlet(f) : f \in FilesOf(generated[p][stack])}

IsContainer(name) == name[1] = "quadlet" /\ name[3] = <<"container">>
IsBuild(name)     == name[1] = "quadlet" /\ name[3] = <<"build">>

ContainersUnseen(p) == {}

\* install/conflict.rs:20: the names alone decide, not their owner.
quadlet_units_present(p) == {n \in DOMAIN disk : IsContainer(n) /\ IsStrictPrefix(p, n[2])}

\* quadlet/installed.rs:91: the project's prefix and its marker.
installed_units(p) ==
    {n \in DOMAIN disk : /\ n[1] = "quadlet"
                         /\ IsStrictPrefix(p, n[2])
                         /\ disk[n].marked
                         /\ disk[n].owner = p}

\* install/detect.rs:25.
installed_mode(p) == IF Exists(Main(p)) THEN "service"
                     ELSE IF quadlet_units_present(p) # {} THEN "quadlet" ELSE "none"

\* install/conflict.rs:137-235: what the main unit's ExecStart= runs must be what
\* the new one runs.
classify_exec_start(content) == content.exec

refuse_if_other_single_unit_mode(p, mode) ==
    Exists(Main(p)) /\ classify_exec_start(disk[Main(p)]) # mode

\* install/mod.rs:228: a file that proves another owner is not overwritten.
refuse_foreign_owner(name, p) == Exists(name) /\ disk[name].owner \notin {p, <<>>}

\* unit_files/owner.rs:105.
legacy_role(name) == IF Exists(name) /\ ~disk[name].marked THEN disk[name].role ELSE "none"

\* install/mod.rs:287.
unit_is_known(name) == Exists(name) \/ name \in enabled \cup active

----------------------------------------------------------------------------
Idle == [op |-> "idle", mode |-> "none", start |-> TRUE, auto |-> FALSE,
         stack |-> "", stage |-> "idle", todo |-> {},
         seen |-> {}, err |-> FALSE, alone |-> TRUE]

At(c, stage)   == proc[c].stage = stage
Goto(c, stage) == proc' = [proc EXCEPT ![c].stage = stage]

\* The other commands of the project that are under way.
Beside(c) == {d \in Commands \ {c} : d.project = c.project /\ ~At(d, "idle")}

\* A command ends; one that wrote something and did not succeed leaves the
\* project broken.
End(c, outcome) ==
    /\ proc' = [proc EXCEPT ![c] = Idle]
    /\ last' = [last EXCEPT ![c] = outcome]
    /\ broken' = IF outcome \in {"ok", "refused"} THEN broken ELSE broken \cup {c.project}
    /\ UNCHANGED contended

Refuse(c) == End(c, "refused") /\ UNCHANGED <<disk, enabled, active, ran, faults>>

Succeed(c) == End(c, "ok") /\ UNCHANGED <<disk, enabled, active, ran, faults>>

\* A call that cannot work for what another command did.
Thwarted(c) == End(c, "failed") /\ UNCHANGED <<disk, enabled, active, ran, faults>>

\* A file seen there is gone when it is disabled or removed.
Overtaken(c) == Beside(c) # {} /\ Thwarted(c)

\* A call that fails, or a kill, ends the command where it is, its effect done or not.
Fault(c) == faults < MaxFaults /\ faults' = faults + 1 /\ End(c, "failed") /\ UNCHANGED ran

\* The files of a command are taken in one fixed order.
FirstOf(files) == {CHOOSE n \in files : TRUE}

FailHere(c) == Fault(c) /\ UNCHANGED <<disk, enabled, active>>

\* One step of a command that works: the new disk and manager, and what is next.
Step(c, stage, files, boot, running) ==
    /\ disk' = files
    /\ enabled' = boot
    /\ active' = running
    /\ Goto(c, stage)
    /\ UNCHANGED <<last, broken, contended, ran, faults>>

\* main.rs 325-335: autostart takes no project lock, so a command starts whatever
\* others of its project are doing. The slots are taken in order.
Begin(c, op, mode, start, auto, stack, stage) ==
    LET rival(d) == op = "install" /\ proc[d].op = "install"
                      /\ (proc[d].mode = "quadlet") # (mode = "quadlet")
    IN  /\ At(c, "idle")
        /\ \A d \in Commands : d.project = c.project /\ d.slot < c.slot => ~At(d, "idle")
        /\ ran < MaxCommands
        /\ ran' = ran + 1
        /\ proc' = [d \in Commands |->
                      IF d = c THEN [Idle EXCEPT !.op = op, !.mode = mode, !.start = start,
                                                 !.auto = auto, !.stack = stack, !.stage = stage,
                                                 !.alone = Beside(c) = {}]
                      ELSE [proc[d] EXCEPT !.alone = @ /\ d \notin Beside(c)]]
        /\ last' = [last EXCEPT ![c] = "none"]
        /\ broken' = IF Beside(c) = {} THEN broken ELSE broken \cup {c.project}
        /\ contended' = IF \E d \in Beside(c) : rival(d) THEN contended \cup {c.project}
                        ELSE contended
        /\ UNCHANGED <<disk, enabled, active, faults>>

----------------------------------------------------------------------------
(* install, service and start mode (install/mod.rs:41-155).                 *)

InstallSingle(c) ==
    \/ \E start, auto \in BOOLEAN : Begin(c, "install", "service", start, auto, "", "check")
    \/ \E start \in BOOLEAN, stack \in DOMAIN Stacks :
          Begin(c, "install", "start", start, FALSE, stack, "precheck")

\* unit_files/start.rs:147: start mode is for a project of one container.
sole_container(stack) == Len(stack.services) = 1

\* commands/autostart.rs:294: start mode resumes a container, which must be there and
\* match the file; Podman answers.
precheck_start_mode(c) ==
    /\ At(c, "precheck")
    /\ \/ Refuse(c)
       \/ sole_container(Stacks[proc[c].stack]) /\ Step(c, "check", disk, enabled, active)

\* Nothing is written before every check has passed.
CheckSingle(c) ==
    LET refused == \/ quadlet_units_present(c.project) # {}
                   \/ refuse_if_other_single_unit_mode(c.project, proc[c].mode)
    IN /\ At(c, "check")
       /\ IF refused THEN Refuse(c) ELSE Step(c, "place", disk, enabled, active)

\* install/mod.rs:111 and files.rs:62: the file appears whole or not at all.
place_unit(c) ==
    /\ At(c, "place")
    /\ \/ refuse_foreign_owner(Main(c.project), c.project) /\ Refuse(c)
       \/ /\ ~refuse_foreign_owner(Main(c.project), c.project)
          /\ \/ Step(c, "reload",
                     (Main(c.project) :> IF proc[c].mode = "start" THEN StartUnit(c.project)
                                         ELSE ServiceUnit(c.project)) @@ disk,
                     enabled, active)
             \/ FailHere(c)

ReloadSingle(c) ==
    /\ At(c, "reload")
    /\ \/ Step(c, IF proc[c].start THEN "enable" ELSE "update", disk, enabled, active)
       \/ FailHere(c)

\* `enable --now` can enable the unit and then fail to start it.
Enable(c, name, stage, next) ==
    /\ At(c, stage)
    /\ \/ Exists(name) /\ Step(c, next, disk, enabled \cup {name}, active \cup {name})
       \/ Exists(name) /\ Fault(c) /\ enabled' = enabled \cup {name} /\ UNCHANGED <<disk, active>>
       \/ FailHere(c)
       \/ ~Exists(name) /\ Thwarted(c)

EnableMain(c) == Enable(c, Main(c.project), "enable", "update")

----------------------------------------------------------------------------
(* The auto-update pair (install/mod.rs:163) and the pair of older releases. *)

PlaceUpdate(c) ==
    /\ At(c, "update")
    /\ IF ~proc[c].auto THEN Succeed(c)
       ELSE IF \E n \in {UpdateService(c.project), UpdateTimer(c.project)} :
                  refuse_foreign_owner(n, c.project)
       THEN Thwarted(c)
       ELSE \/ Step(c, "timer", (UpdateService(c.project) :> UpdateServiceUnit(c.project)) @@ disk,
                    enabled, active)
            \/ FailHere(c)

PlaceTimer(c) ==
    /\ At(c, "timer")
    /\ \/ Step(c, "retire timer", (UpdateTimer(c.project) :> UpdateTimerUnit(c.project)) @@ disk,
               enabled, active)
       \/ FailHere(c)

\* install/mod.rs:248: only a file that says it is this project's pair is
\* touched.  It is disabled when the manager knows it, then removed.
RetireLegacy(c, name, role, stage, next) ==
    /\ At(c, stage)
    /\ IF legacy_role(name) # role THEN Step(c, next, disk, enabled, active)
       ELSE \/ Step(c, next, Without({name}), enabled \ {name}, active \ {name})
            \/ Fault(c) /\ enabled' = enabled \ {name} /\ active' = active \ {name}
                        /\ UNCHANGED disk
            \/ FailHere(c)
            \/ Overtaken(c)

retire_legacy_update_units(c) ==
    LET after == IF proc[c].op = "install" THEN "reload update" ELSE "reload gone"
    IN \/ RetireLegacy(c, LegacyTimer(c.project), "uptimer", "retire timer", "retire service")
       \/ RetireLegacy(c, LegacyService(c.project), "upservice", "retire service", after)

ReloadUpdate(c) ==
    /\ At(c, "reload update")
    /\ IF proc[c].start
       THEN \/ Step(c, "enable timer", disk, enabled, active)
            \/ FailHere(c)
       ELSE Succeed(c) \/ FailHere(c)

EnableTimer(c) == Enable(c, UpdateTimer(c.project), "enable timer", "done")

Done(c) == At(c, "done") /\ Succeed(c)

----------------------------------------------------------------------------
(* install, quadlet mode (quadlet/mod.rs:139).                              *)

InstallQuadlet(c) ==
    \E stack \in DOMAIN Stacks, start \in BOOLEAN :
        Begin(c, "install", "quadlet", start, FALSE, stack, "check quadlet")

CheckQuadlet(c) ==
    /\ At(c, "check quadlet")
    /\ LET bad == \/ Exists(Main(c.project))
                  \/ ~validate_for_quadlet(Stacks[proc[c].stack])
                  \/ duplicate_filename(generated[c.project][proc[c].stack])
       IN IF bad THEN Refuse(c) ELSE Step(c, "guard", disk, enabled, active)

\* publishing/mod.rs:25 and 73: the owner of every file is read before the first
\* one is written.  A file without a marker is overwritten.
guard_existing_owner(p, name) == Exists(name) /\ disk[name].marked /\ disk[name].owner # p

\* The files of others when a command read whose they are; it acts on that later.
Foreign(p) == {n \in DOMAIN disk : disk[n].marked /\ disk[n].owner # p}

GuardUnits(c) ==
    /\ At(c, "guard")
    /\ IF \E n \in UnitNames(c.project, proc[c].stack) : guard_existing_owner(c.project, n)
       THEN Refuse(c)
       ELSE /\ proc' = [proc EXCEPT ![c].stage = "write",
                                    ![c].todo = UnitNames(c.project, proc[c].stack),
                                    ![c].seen = Foreign(c.project)]
            /\ UNCHANGED <<disk, enabled, active, last, broken, contended, ran, faults>>

\* Each file is written on its own, and nothing undoes the earlier ones.
write_units(c) ==
    /\ At(c, "write")
    /\ IF proc[c].todo = {}
       THEN Step(c, "scan", disk, enabled, active)
       ELSE \/ \E n \in FirstOf(proc[c].todo) :
                  /\ disk' = (n :> Content(c.project, "unit", "none")) @@ disk
                  /\ proc' = [proc EXCEPT ![c].todo = @ \ {n}]
                  /\ UNCHANGED <<enabled, active, last, broken, contended, ran, faults>>
            \/ FailHere(c)

ScanNothing(c) ==
    /\ At(c, "scan")
    /\ proc' = [proc EXCEPT ![c].stage = "retire", ![c].todo = {}, ![c].seen = Foreign(c.project)]
    /\ UNCHANGED <<disk, enabled, active, last, broken, contended, ran, faults>>

\* quadlet/mod.rs:96: the units of an earlier install that are not written now.
ScanObsolete(c) ==
    /\ At(c, "scan")
    /\ proc' = [proc EXCEPT ![c].stage = "retire",
                            ![c].todo = installed_units(c.project) \ UnitNames(c.project, proc[c].stack),
                            ![c].seen = Foreign(c.project)]
    /\ UNCHANGED <<disk, enabled, active, last, broken, contended, ran, faults>>

Gone(names) == ~(names \subseteq DOMAIN disk)

retire_obsolete_units(c) ==
    /\ At(c, "retire")
    /\ IF proc[c].todo = {}
       THEN Step(c, "reload quadlet", disk, enabled, active)
       ELSE \/ \E n \in FirstOf(proc[c].todo) \cap DOMAIN disk :
                  /\ disk' = Without({n})
                  /\ active' = active \ {n}
                  /\ proc' = [proc EXCEPT ![c].todo = @ \ {n}]
                  /\ UNCHANGED <<enabled, last, broken, contended, ran, faults>>
            \/ \E n \in FirstOf(proc[c].todo) :
                  Fault(c) /\ active' = active \ {n} /\ UNCHANGED <<disk, enabled>>
            \/ FailHere(c)
            \/ Gone(FirstOf(proc[c].todo)) /\ Thwarted(c)

ReloadQuadlet(c) ==
    /\ At(c, "reload quadlet")
    /\ \/ Step(c, "build", disk, enabled, active)
       \/ FailHere(c)

\* One restart builds the images, --no-start or not.
BuildImages(c) ==
    /\ At(c, "build")
    /\ \/ Step(c, IF proc[c].start THEN "start" ELSE "done", disk, enabled, active)
       \/ \E n \in UnitNames(c.project, proc[c].stack) :
             IsBuild(n) /\ (FailHere(c) \/ (~Exists(n) /\ Thwarted(c)))

StartContainers(c) ==
    LET services == {n \in UnitNames(c.project, proc[c].stack) : IsContainer(n)}
    IN /\ At(c, "start")
       /\ \/ Step(c, "done", disk, enabled, active \cup services)
          \/ \E up \in SUBSET services :
                Fault(c) /\ active' = active \cup up /\ UNCHANGED <<disk, enabled>>
          \/ Gone(services) /\ Thwarted(c)

----------------------------------------------------------------------------
(* uninstall (commands/autostart.rs:146, install/mod.rs:305).               *)

Uninstall(c) ==
    Begin(c, "uninstall", installed_mode(c.project), FALSE, FALSE, Idle.stack,
          IF installed_mode(c.project) = "quadlet" THEN "scan installed" ELSE "disable main")

DisableKnown(c, name, stage, next) ==
    /\ At(c, stage)
    /\ IF unit_is_known(name)
       THEN \/ Step(c, next, disk, enabled \ {name}, active \ {name})
            \/ FailHere(c)
            \/ Overtaken(c)
       ELSE Step(c, next, disk, enabled, active)

RemoveFile(c, name, stage, next) ==
    /\ At(c, stage)
    /\ \/ Step(c, next, Without({name}), enabled, active)
       \/ Exists(name) /\ FailHere(c)
       \/ Overtaken(c)

uninstall(c) ==
    \/ DisableKnown(c, Main(c.project), "disable main", "remove main")
    \/ RemoveFile(c, Main(c.project), "remove main", "disable timer")
    \/ DisableKnown(c, UpdateTimer(c.project), "disable timer", "disable update")
    \/ DisableKnown(c, UpdateService(c.project), "disable update", "remove update")
    \/ RemoveFile(c, UpdateService(c.project), "remove update", "remove timer")
    \/ RemoveFile(c, UpdateTimer(c.project), "remove timer", "retire timer")

ReloadGone(c) ==
    /\ At(c, "reload gone")
    /\ IF proc[c].err THEN Thwarted(c)
       ELSE Succeed(c) \/ FailHere(c)

\* quadlet/mod.rs:281: every container service is asked to stop, the first error is
\* kept, and the files are removed all the same.
ScanInstalled(c) ==
    /\ At(c, "scan installed")
    /\ proc' = [proc EXCEPT ![c].stage = "stop", ![c].todo = installed_units(c.project),
                            ![c].seen = Foreign(c.project)]
    /\ UNCHANGED <<disk, enabled, active, last, broken, contended, ran, faults>>

StopContainers(c) ==
    LET services == {n \in proc[c].todo : IsContainer(n)}
    IN /\ At(c, "stop")
       /\ \/ Step(c, "remove units", disk, enabled, active \ services)
          \/ \E n \in services :
                /\ faults < MaxFaults
                /\ faults' = faults + 1
                /\ active' = active \ (services \ {n})
                /\ proc' = [proc EXCEPT ![c].stage = "remove units", ![c].err = TRUE]
                /\ UNCHANGED <<disk, enabled, last, broken, contended, ran>>
          \/ /\ Gone(services)
             /\ active' = active \ services
             /\ proc' = [proc EXCEPT ![c].stage = "remove units", ![c].err = TRUE]
             /\ UNCHANGED <<disk, enabled, last, broken, contended, ran, faults>>

RemoveUnits(c) ==
    /\ At(c, "remove units")
    /\ IF proc[c].todo = {}
       THEN Step(c, "reload gone", disk, enabled, active)
       ELSE \/ \E n \in FirstOf(proc[c].todo) \cap DOMAIN disk :
                  /\ disk' = Without({n})
                  /\ proc' = [proc EXCEPT ![c].todo = @ \ {n}]
                  /\ UNCHANGED <<enabled, active, last, broken, contended, ran, faults>>
            \/ FailHere(c)
            \/ Gone(FirstOf(proc[c].todo)) /\ Thwarted(c)

\* quadlet/mod.rs:335: each build service and then its container is restarted.
Rebuild(c) ==
    /\ \E n \in installed_units(c.project) : IsBuild(n)
    /\ Begin(c, "rebuild", "quadlet", TRUE, FALSE, Idle.stack, "rebuild")

rebuild_quadlet(c) ==
    LET built == {n \in DOMAIN disk : /\ IsContainer(n)
                                      /\ <<n[1], n[2], <<"build">>>> \in installed_units(c.project)}
    IN /\ At(c, "rebuild")
       /\ \/ Step(c, "done", disk, enabled, active \cup built)
          \/ \E up \in SUBSET built :
                Fault(c) /\ active' = active \cup up /\ UNCHANGED <<disk, enabled>>
          \/ built = {} /\ Thwarted(c)

----------------------------------------------------------------------------
(* status (systemd/status.rs) asks the manager about the units of the mode  *)
(* the disk shows, and folds the answers into one word.                     *)

aggregate(values) ==
    IF values = {} THEN "unknown"
    ELSE IF values = {TRUE} THEN "yes" ELSE IF values = {FALSE} THEN "no" ELSE "mixed"

\* is-active of each unit, as a set of answers.
Answers(units) == {(n \in active) : n \in units}

collect_service_status(p) ==
    [mode   |-> IF Exists(Main(p)) THEN "service" ELSE "none",
     units  |-> IF Exists(Main(p)) THEN 1 ELSE 0,
     active |-> aggregate(Answers({Main(p)}))]

quadlet_services(units) == {n \in units : IsContainer(n)}

collect_quadlet_status(p) ==
    [mode   |-> "quadlet",
     units  |-> Cardinality(installed_units(p)),
     active |-> aggregate(Answers(quadlet_services(installed_units(p))))]

collect_status(p) ==
    IF installed_mode(p) = "quadlet" THEN collect_quadlet_status(p) ELSE collect_service_status(p)

----------------------------------------------------------------------------
\* Nothing installed, or what an older release left: its main unit and its auto-update
\* pair, none of them marked.
Leftovers(p) ==
    {<<>>, (Main(p) :> [Legacy(p, "main") EXCEPT !.exec = "service"])
             @@ (LegacyService(p) :> Legacy(p, "upservice"))
             @@ (LegacyTimer(p) :> Legacy(p, "uptimer"))}

\* What an install of this release left.
Installed(p) ==
    {(Main(p) :> ServiceUnit(p))
       @@ (UpdateService(p) :> UpdateServiceUnit(p))
       @@ (UpdateTimer(p) :> UpdateTimerUnit(p))}
    \cup {[n \in UnitNames(p, s) |-> Content(p, "unit", "none")] :
            s \in {s \in DOMAIN Stacks : validate_for_quadlet(Stacks[s]) /\ ~duplicate_filename(generated[p][s])}}

AutostartInit ==
    /\ generated =
         [p \in Projects |->
             [s \in DOMAIN Stacks |-> generate_with_mode(Stacks[s], p, "prebuilt").units]]
    /\ \E p \in Projects : disk \in Leftovers(p) \cup Installed(p)
    /\ enabled = {n \in DOMAIN disk : disk[n].role \in {"main", "uptimer"}}
    /\ active = enabled \cup {n \in DOMAIN disk : IsContainer(n)}
    /\ proc = [c \in Commands |-> Idle]
    /\ last = [c \in Commands |-> "none"]
    /\ broken = {}
    /\ contended = {}
    /\ ran = 0
    /\ faults = 0

InstallStep(c) ==
    \/ precheck_start_mode(c) \/ CheckSingle(c) \/ place_unit(c) \/ ReloadSingle(c) \/ EnableMain(c)
    \/ PlaceUpdate(c) \/ PlaceTimer(c) \/ retire_legacy_update_units(c)
    \/ ReloadUpdate(c) \/ EnableTimer(c) \/ Done(c)
    \/ CheckQuadlet(c) \/ GuardUnits(c) \/ write_units(c) \/ ScanObsolete(c)
    \/ retire_obsolete_units(c) \/ ReloadQuadlet(c) \/ BuildImages(c) \/ StartContainers(c)

UninstallStep(c) ==
    \/ uninstall(c) \/ ReloadGone(c) \/ ScanInstalled(c) \/ StopContainers(c) \/ RemoveUnits(c)

AutostartNext ==
    /\ \E c \in Commands :
          \/ InstallSingle(c) \/ InstallQuadlet(c) \/ Uninstall(c) \/ Rebuild(c)
          \/ InstallStep(c) \/ UninstallStep(c) \/ rebuild_quadlet(c)
    /\ UNCHANGED generated

----------------------------------------------------------------------------
OwnFiles(p) == {n \in DOMAIN disk : disk[n].owner = p}

\* The pod's unit has the project's name and no more, so no search by prefix finds it.
PodFile(p) == Quadlet(pod_file(p))

Updates(p) == {UpdateService(p), UpdateTimer(p)}

\* detect.rs:8, conflict.rs:5: the modes of a project do not coexist.  Its main unit
\* and its own container units are never both there, whatever failed and whatever ran
\* beside it, but for a project of which an install of each mode was under way at once:
\* each checks before the other writes.  Its auto-update pair and its container units
\* are not both there either, unless some command of the project failed halfway or ran
\* beside another.
OneMode ==
    \A p \in Projects \ contended :
        (\E n \in OwnFiles(p) : IsContainer(n))
            => Main(p) \notin OwnFiles(p) /\ (Updates(p) \cap DOMAIN disk = {} \/ p \in broken)

\* A command that ran beside no other of its project ends well.
Ends(c, op) == ~At(c, "idle") /\ proc[c].alone /\ proc[c].op = op /\ last'[c] = "ok"

\* A file that carries another project's marker is never changed or removed, though names
\* of projects and services join to the same stems; only one that became another's after
\* the command read the owners (publishing/mod.rs:25 and 94, installed.rs) is.
ForeignStays ==
    \A c \in Commands : proc[c] # proc'[c] =>
        \A n \in Foreign(c.project) :
            \/ n \in DOMAIN disk' /\ disk'[n] = disk[n]
            \/ proc[c].stage \in {"write", "retire", "remove units"} /\ n \notin proc[c].seen

Shared(p) == UNION {UNION {UnitNames(q, s) : s \in DOMAIN Stacks} : q \in Projects \ {p}}

\* An install that ran beside no other command of its project and reports success left
\* exactly what it promises: the units of the mode it installed, of the stack it was
\* given and of no earlier one, enabled and running if it was asked to start them.
\* Names that a sibling's stack has too are left out.
InstallDelivers ==
    \A c \in Commands : Ends(c, "install") => LET p == c.project IN
        IF proc[c].mode = "quadlet"
        THEN LET units == UnitNames(p, proc[c].stack) \ Shared(p)
             IN /\ {n \in OwnFiles(p)' : n[1] = "quadlet"} \ ({PodFile(p)} \cup Shared(p))
                     = units \ {PodFile(p)}
                /\ PodFile(p) \in units => PodFile(p) \in OwnFiles(p)'
                /\ proc[c].start => {n \in units : IsContainer(n)} \subseteq active'
                /\ units # {} => collect_status(p)'.mode = "quadlet"
        ELSE /\ Main(p) \in OwnFiles(p)' /\ disk'[Main(p)].exec = proc[c].mode
             /\ proc[c].auto => Updates(p) \subseteq OwnFiles(p)'
                                /\ {LegacyService(p), LegacyTimer(p)} \cap OwnFiles(p)' = {}
             /\ proc[c].start => /\ Main(p) \in enabled' \cap active'
                                 /\ collect_status(p)' = [mode |-> "service", units |-> 1,
                                                          active |-> "yes"]
                                 /\ proc[c].auto => UpdateTimer(p) \in enabled' \cap active'

\* An uninstall that reports success leaves nothing of a project whose commands all ran
\* to their end, one after another: no unit but a pod's, and nothing enabled or running.
UninstallDelivers ==
    \A c \in Commands : Ends(c, "uninstall") /\ c.project \notin broken => LET p == c.project IN
        /\ OwnFiles(p)' \subseteq {PodFile(p)}
        /\ collect_status(p)'.units = 0
        /\ (OwnFiles(p) \cup {Main(p)} \cup Updates(p)) \cap (enabled' \cup active') = {}

\* A command that ran beside no other of its project and ends well did all of what it
\* says it did, and no command did anything to the files of another project.
CommandsDeliver == [][InstallDelivers /\ UninstallDelivers /\ ForeignStays]_autostartVars
=============================================================================

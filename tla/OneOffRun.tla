----------------------------- MODULE OneOffRun -----------------------------
(***************************************************************************)
(* `run`: a container for one command of a service or a job, from the      *)
(* flags to the exit code (lifecycle/run).                                 *)
(*                                                                         *)
(* The container is made, started, followed and waited for by its name and *)
(* removed by its ID; others may remove it or take the name in between.    *)
(***************************************************************************)
EXTENDS Naturals, Sequences, FiniteSets, SequencesExt

CONSTANTS
    Oneoffs,    \* the runs: flags, service, file and host of each (see MCEngineCalls)
    MaxMeddles  \* how often others act on the name

\* The fields of a service that a run reads or sets, and a dependency.
ServiceFields ==
    {"entrypoint", "command", "user", "working_dir", "stdin_open", "tty", "volumes", "environment",
     "env_file", "labels", "ports", "restart", "pre_start"}
Needs == [condition : STRING, required : BOOLEAN, checked : BOOLEAN, replicas : Nat \ {0}]

ASSUME OneoffAssumption ==
    /\ MaxMeddles \in Nat
    /\ \A r \in Oneoffs :
         /\ r.codes \subseteq Nat /\ r.found \in {"none", "project", "other"}
         /\ r.named \in BOOLEAN /\ r.rm \in BOOLEAN /\ r.detach \in BOOLEAN /\ r.noDeps \in BOOLEAN
         /\ r.needs \in Seq(Needs)
         /\ r.labels \in Seq(STRING \X STRING) /\ r.publish \in Seq(Nat)
         /\ r.volumes \in Seq(STRING) /\ r.service.volumes \in Seq(STRING)
         /\ r.service.pre_start \in Seq(Seq(STRING))
         /\ ServiceFields \subseteq DOMAIN r.service
         /\ \A v \in DOMAIN r.volumesThere : r.volumesThere[v] # "nobody"

VARIABLES
    rjob, rphase, rresult,
    \* the dependencies: how far each replica has come, and which one is waited for
    rdeps, waits,
    rspec,      \* the service of the one-off, with the flags applied
    rinit,      \* the one its init steps are of
    rimage,     \* whether its image is on the host
    volumes,    \* the volumes that are, with their owner: "project", "external", "nobody"
    rboard,
    \* the name: who has it, how many IDs were given, what others have done
    bearer, issued, meddles,
    mine,       \* the ID the run was told, 0 for none
    own,        \* its container: [id, st, code, by], by whom it was removed
    cleared,    \* the other containers it removed
    following,  \* the ID whose output is read
    exit,       \* the code it was told
    cleanup

oneoffVars == <<rjob, rphase, rresult, rdeps, waits, rspec, rinit, rimage, volumes, rboard,
                bearer, issued, meddles, mine, own, cleared, following, exit, cleanup>>
depVars    == <<rdeps, waits>>
planVars   == <<rspec, rinit, rimage, volumes>>
nameVars   == <<bearer, issued, own, cleared>>
endVars    == <<mine, following, exit, cleanup>>

Nobody == [id |-> 0, owner |-> "none", st |-> "none", code |-> 0, since |-> "none"]
NoSpec == [entrypoint |-> <<>>]
NoCode == 256

EndRun(r) == rphase' = "done" /\ rresult' = r
Go(p) == rphase' = p /\ UNCHANGED rresult

-----------------------------------------------------------------------------
(* The flags *)

\* split_words, a character at a time.  A text that ends within quotes or
\* after a backslash is refused.
Spaces == {" ", "\t"}
Escapable == {"\"", "\\", "$", "backtick"}
ReadChar(w, c) ==
    CASE w.mode = "plain" /\ c \in Spaces ->
           [w EXCEPT !.words = IF w.inside THEN Append(@, w.word) ELSE @, !.word = <<>>, !.inside = FALSE]
      [] w.mode = "plain" /\ c = "'"  -> [w EXCEPT !.mode = "single", !.inside = TRUE]
      [] w.mode = "plain" /\ c = "\"" -> [w EXCEPT !.mode = "double", !.inside = TRUE]
      [] w.mode = "plain" /\ c = "\\" -> [w EXCEPT !.mode = "escape", !.inside = TRUE]
      [] w.mode = "single" /\ c = "'" -> [w EXCEPT !.mode = "plain"]
      [] w.mode = "double" /\ c = "\"" -> [w EXCEPT !.mode = "plain"]
      [] w.mode = "double" /\ c = "\\" -> [w EXCEPT !.mode = "double escape"]
      [] w.mode = "double escape" ->
           [w EXCEPT !.mode = "double", !.word = @ \o (IF c \in Escapable THEN <<c>> ELSE <<"\\", c>>)]
      [] OTHER -> [w EXCEPT !.mode = IF @ = "escape" THEN "plain" ELSE @, !.word = Append(@, c), !.inside = TRUE]
Read(text) == FoldLeft(ReadChar, [words |-> <<>>, word |-> <<>>, inside |-> FALSE, mode |-> "plain"], text)
unterminated(text) == Read(text).mode # "plain"
split_words(text) ==
    LET w == Read(text) IN IF w.inside THEN Append(w.words, w.word) ELSE w.words

\* The entrypoint [given, text] and the command: an empty entrypoint
\* clears the image's, and one given alone drops the command of the service.
apply_entrypoint_and_command(s, entry, cmd) ==
    LET words == split_words(entry.text) IN
    [s EXCEPT !.entrypoint = IF ~entry.given THEN @ ELSE IF words = <<>> THEN << <<>> >> ELSE words,
              !.command = IF cmd # <<>> THEN cmd ELSE IF entry.given THEN <<>> ELSE @]

\* A list of <<key, value>> as a map: the last of a key counts, as the last
\* file does that has it.
MapOf(list) ==
    [k \in {list[i][1] : i \in DOMAIN list} |->
        list[Max({i \in DOMAIN list : list[i][1] = k})][2]]
Above(f, g) == [k \in DOMAIN f \cup DOMAIN g |-> IF k \in DOMAIN f THEN f[k] ELSE g[k]]
Layers(files) ==
    [k \in UNION {DOMAIN files[i] : i \in DOMAIN files} |->
        files[Max({i \in DOMAIN files : k \in DOMAIN files[i]})][k]]

\* A key without a value is Bare: it takes the host's, if there is one.
Bare == "bare"
merge_run_environment(file_vars, service_env, overrides) == Above(MapOf(overrides), Above(service_env, file_vars))
OneoffEnv(s, host) ==
    LET merged == Above(s.environment, s.env_file)
        kept == {k \in DOMAIN merged : merged[k] # Bare \/ k \in DOMAIN host}
    IN  [k \in kept |-> IF merged[k] = Bare THEN host[k] ELSE merged[k]]

\* A restart policy would bring the one-off back.
run_once(s) == [s EXCEPT !.restart = "no"]

wants_interactive_run == ~rjob.noTty /\ ~rjob.detach /\ rjob.stdin = "terminal" /\ rjob.stdout = "terminal"

Overridden ==
    LET s == run_once(apply_entrypoint_and_command(rjob.service, rjob.entry, rjob.cmd))
        file_vars == Layers(rjob.envFiles)
    IN  [s EXCEPT
          !.user = IF rjob.user # "" THEN rjob.user ELSE @,
          !.working_dir = IF rjob.workdir # "" THEN rjob.workdir ELSE @,
          !.stdin_open = @ \/ rjob.interactive \/ wants_interactive_run,
          !.tty = wants_interactive_run,
          !.volumes = @ \o rjob.volumes,
          !.labels = Above(MapOf(Append(rjob.labels, <<"podup.oneoff", "true">>)), @),
          !.environment = IF DOMAIN file_vars = {} /\ rjob.env = <<>> THEN @
                          ELSE merge_run_environment(file_vars, @, rjob.env),
          !.ports = (IF rjob.servicePorts THEN @ ELSE <<>>) \o rjob.publish]

\* What the init steps inherit: nothing that is only the one-off's.
init_service(s, run_service) ==
    [s EXCEPT !.user = run_service.user, !.working_dir = run_service.working_dir,
              !.environment = run_service.environment]

-----------------------------------------------------------------------------
(* Before anything is made *)

OneoffStart ==
    /\ rphase = "resolve" /\ rresult = "none"
    /\ rdeps = [i \in DOMAIN rjob.needs |-> [k \in 1 .. rjob.needs[i].replicas |-> "none"]] /\ waits = 1
    /\ rspec = NoSpec /\ rinit = NoSpec /\ rimage = rjob.image /\ volumes = rjob.volumesThere
    /\ rboard = "none"
    /\ bearer = IF rjob.found = "none" THEN Nobody
                ELSE [id |-> 1, owner |-> rjob.found, st |-> "running", code |-> 7, since |-> "before"]
    /\ issued = 1 /\ meddles = 0
    /\ own = [id |-> 0, st |-> "none", code |-> NoCode, by |-> "none"] /\ cleared = {}
    /\ mine = 0 /\ following = 0 /\ exit = NoCode /\ cleanup = "none"

OneoffInit == rjob \in Oneoffs /\ OneoffStart

\* An unknown name, a job that is or depends on one that may not be run by
\* hand, a pull policy, a umask or a name of an object that is not valid.
RunRefused ==
    /\ rphase = "resolve" /\ (rjob.target \in {"unknown", "closed"} \/ ~rjob.valid)
    /\ EndRun("refused")
    /\ UNCHANGED <<rjob, rboard, meddles>> /\ UNCHANGED depVars /\ UNCHANGED planVars
    /\ UNCHANGED nameVars /\ UNCHANGED endVars

job_file_for_run ==
    /\ rphase = "resolve" /\ rjob.target \in {"service", "job"} /\ rjob.valid
    /\ Go(IF rjob.noDeps \/ rjob.needs = <<>> THEN "flags" ELSE "deps")
    /\ UNCHANGED <<rjob, rboard, meddles>> /\ UNCHANGED depVars /\ UNCHANGED planVars
    /\ UNCHANGED nameVars /\ UNCHANGED endVars

\* up_with_options of what the target depends on (UpScheduler): all of them
\* are started, but for optional ones it may have given up, or it fails.
StartDependencies ==
    /\ rphase = "deps"
    /\ \/ /\ \E off \in SUBSET {i \in DOMAIN rdeps : ~rjob.needs[i].required} :
                rdeps' = [i \in DOMAIN rdeps |-> [k \in DOMAIN rdeps[i] |-> IF i \in off THEN "none" ELSE "up"]]
          /\ Go("wait")
       \/ EndRun("error") /\ UNCHANGED rdeps
    /\ UNCHANGED <<rjob, waits, rboard, meddles>> /\ UNCHANGED planVars
    /\ UNCHANGED nameVars /\ UNCHANGED endVars

\* A replica becomes healthy, ends, or fails.
DependencyMoves ==
    /\ rphase \in {"wait", "flags"}
    /\ \E i \in DOMAIN rdeps : \E k \in DOMAIN rdeps[i] :
         /\ rdeps[i][k] = "up"
         /\ \E st \in (CASE rjob.needs[i].condition = "healthy" -> {"healthy", "failed"}
                         [] rjob.needs[i].condition = "completed" -> {"completed", "failed"}
                         [] OTHER -> {}) :
              rdeps' = [rdeps EXCEPT ![i][k] = st]
    /\ UNCHANGED <<rjob, rphase, rresult, waits, rboard, meddles>> /\ UNCHANGED planVars
    /\ UNCHANGED nameVars /\ UNCHANGED endVars

\* The condition of a dependency, seen in its first replica; a disabled check
\* is not waited for.
Unasked(need) == need.condition = "started" \/ (need.condition = "healthy" /\ ~need.checked)
ConditionSeen(i) == Unasked(rjob.needs[i]) \/ rdeps[i][1] = rjob.needs[i].condition

wait_target_dependencies ==
    /\ rphase = "wait"
    /\ IF waits > Len(rjob.needs) THEN Go("flags") /\ UNCHANGED waits
       ELSE /\ waits' = waits + 1
            /\ \/ ConditionSeen(waits) /\ UNCHANGED <<rphase, rresult>>
               \* It failed, or its time is up.
               \/ /\ ~Unasked(rjob.needs[waits])
                  /\ IF rjob.needs[waits].required THEN EndRun("error") ELSE UNCHANGED <<rphase, rresult>>
    /\ UNCHANGED <<rjob, rdeps, rboard, meddles>> /\ UNCHANGED planVars
    /\ UNCHANGED nameVars /\ UNCHANGED endVars

\* Only now, with the dependencies up, are the entrypoint and the files of
\* the environment looked at.
ApplyFlags ==
    /\ rphase = "flags"
    /\ IF (rjob.entry.given /\ unterminated(rjob.entry.text)) \/ ~rjob.envReadable
       THEN EndRun("refused") /\ UNCHANGED <<rspec, rinit>>
       ELSE /\ rspec' = Overridden /\ rinit' = init_service(rjob.service, rspec')
            /\ Go("image")
    /\ rboard' = IF rphase' = "image" THEN "open" ELSE rboard
    /\ UNCHANGED <<rjob, rimage, volumes, meddles>> /\ UNCHANGED depVars
    /\ UNCHANGED nameVars /\ UNCHANGED endVars

-----------------------------------------------------------------------------
(* What the container needs *)

Prepared(p, result) ==
    /\ IF result = "ok" THEN Go(p) ELSE EndRun(result)
    /\ rboard' = IF result = "ok" /\ p # "init" THEN rboard ELSE "closed"
    /\ UNCHANGED <<rjob, rspec, rinit, meddles>> /\ UNCHANGED depVars
    /\ UNCHANGED nameVars /\ UNCHANGED endVars

\* Built when it is to be built and absent, else pulled as the policy says;
\* `never` and a service with a build pull nothing.
acquire_service_image ==
    LET builds == rjob.service.build
        obtains == IF builds THEN ~rjob.noBuild /\ ~rimage ELSE rjob.service.pull_policy # "never"
    IN
    /\ rphase = "image"
    /\ \/ Prepared("networks", "ok") /\ rimage' = (rimage \/ obtains)
       \/ obtains /\ Prepared("done", "error") /\ UNCHANGED rimage
    /\ UNCHANGED volumes

create_networks ==
    /\ rphase = "networks"
    /\ \E result \in {"ok", "error"} : Prepared("volumes", result)
    /\ UNCHANGED <<rimage, volumes>>

named_volume_refs(s) == ToSet(s.volumes)
pre_start_steps(s) == [i \in DOMAIN s.pre_start |-> [s EXCEPT !.volumes = @ \o s.pre_start[i], !.pre_start = <<>>]]

\* As it would be if the volumes of the steps were forgotten.
OwnMounts == named_volume_refs(rspec)

\* The declared volumes that the one-off and its init steps mount.
Mounted ==
    named_volume_refs(rspec) \cup UNION {named_volume_refs(t) : t \in ToSet(pre_start_steps(rspec))}
Scoped == {v \in DOMAIN rjob.declared : v \in Mounted}
MissingExternal(scoped) == \E v \in scoped : rjob.declared[v] = "external" /\ v \notin DOMAIN volumes

create_volumes ==
    LET scoped == Scoped IN
    /\ rphase = "volumes"
    /\ \/ /\ ~MissingExternal(scoped) /\ Prepared("secrets", "ok")
          /\ volumes' = Above(volumes, [v \in scoped |-> "project"])
       \/ Prepared("done", IF MissingExternal(scoped) THEN "refused" ELSE "error") /\ UNCHANGED volumes
    /\ UNCHANGED rimage

\* The secrets, then the pod where the project has one.
PrepareRest ==
    /\ rphase = "secrets"
    /\ \/ \E result \in {"ok", "error"} : Prepared("name", result)
       \/ rjob.pod /\ Prepared("done", "refused")
    /\ UNCHANGED <<rimage, volumes>>

\* A name given by the user must be free.  With this the board closes.
container_exists ==
    /\ rphase = "name"
    /\ IF rjob.named
       THEN \/ Prepared("init", IF bearer = Nobody THEN "ok" ELSE "refused")
            \/ Prepared("done", "error")
       ELSE Prepared("init", "ok")
    /\ UNCHANGED <<rimage, volumes>>

\* A volume that is not there is made by Podman, and is nobody's.
Autocreated(refs) == Above(volumes, [v \in refs |-> "nobody"])
Undeclared(s) == named_volume_refs(s) \ DOMAIN rjob.declared # {}

\* The init steps, each a container of its own that is gone afterwards
\* (ReplicaLifecycle); one that fails ends the run.
run_pre_start ==
    LET steps == pre_start_steps(rinit) IN
    /\ rphase = "init"
    /\ \/ /\ \A i \in DOMAIN steps : ~Undeclared(steps[i])
          /\ volumes' = Autocreated(UNION {named_volume_refs(t) : t \in ToSet(steps)})
          /\ Go("lookup")
       \/ steps # <<>> /\ EndRun("error") /\ UNCHANGED volumes
    /\ UNCHANGED <<rjob, rspec, rinit, rimage, rboard, meddles>> /\ UNCHANGED depVars
    /\ UNCHANGED nameVars /\ UNCHANGED endVars

-----------------------------------------------------------------------------
(* The container *)

\* The environment and the specification, then whose the name is.
LookUp ==
    /\ rphase = "lookup"
    /\ \/ /\ ~Undeclared(rspec) /\ rjob.service.envReadable /\ bearer.owner \in {"none", "project"}
          /\ rspec' = [rspec EXCEPT !.environment = OneoffEnv(rspec, rjob.host)]
          /\ Go(IF bearer = Nobody THEN "create" ELSE "clear")
       \/ /\ Undeclared(rspec) \/ ~rjob.service.envReadable \/ bearer.owner = "other"
          /\ EndRun("refused") /\ UNCHANGED rspec
       \/ EndRun("error") /\ UNCHANGED rspec
    /\ UNCHANGED <<rjob, rinit, rimage, volumes, rboard, meddles>> /\ UNCHANGED depVars
    /\ UNCHANGED nameVars /\ UNCHANGED endVars

\* The project's own container of that name is deleted, by name; a failure is
\* not looked at.
ClearName ==
    /\ rphase = "clear"
    /\ \/ bearer' = Nobody /\ cleared' = cleared \cup ({bearer} \ {Nobody})
       \/ UNCHANGED <<bearer, cleared>>
    /\ Go("create")
    /\ UNCHANGED <<rjob, rboard, issued, own, meddles>> /\ UNCHANGED depVars
    /\ UNCHANGED planVars /\ UNCHANGED endVars

\* The answer may be lost, or hold no ID: then nothing may be cleaned up.
CreateContainer ==
    /\ rphase = "create"
    /\ \/ /\ bearer = Nobody /\ rimage
          /\ issued' = issued + 1
          /\ \E code \in rjob.codes :
               bearer' = [id |-> issued', owner |-> "project", st |-> "created", code |-> code, since |-> "run"]
          /\ own' = [own EXCEPT !.id = issued', !.st = "created"]
          /\ volumes' = Autocreated(named_volume_refs(rspec))
          /\ \/ mine' = issued' /\ Go(IF wants_interactive_run THEN "attach" ELSE "start")
             \/ mine' = 0 /\ EndRun("error")
       \/ EndRun("error") /\ UNCHANGED <<bearer, issued, own, volumes, mine>>
    /\ UNCHANGED <<rjob, rspec, rinit, rimage, rboard, meddles, cleared, following, exit, cleanup>>
    /\ UNCHANGED depVars

\* Starting, by name, whoever has it.
Starts ==
    /\ bearer' = IF bearer.st \in {"created", "exited"} THEN [bearer EXCEPT !.st = "running"] ELSE bearer
    /\ own' = IF bearer.id = own.id /\ own.st = "created" THEN [own EXCEPT !.st = "running"] ELSE own

\* As it would be if the name were deleted and not the ID.
DeleteByName ==
    /\ bearer' = Nobody
    /\ own' = IF bearer.id = own.id THEN [own EXCEPT !.st = "gone", !.by = "run"] ELSE own
    /\ cleared' = IF bearer.id \in {0, own.id} THEN cleared ELSE cleared \cup {bearer}

\* Deleting by ID: a container that is gone is as good.
DeleteMine ==
    /\ bearer' = IF bearer.id = mine THEN Nobody ELSE bearer
    /\ own' = IF own.st = "gone" THEN own ELSE [own EXCEPT !.st = "gone", !.by = "run"]
    /\ UNCHANGED cleared

StartOneOff ==
    /\ rphase = "start"
    /\ \/ bearer # Nobody /\ Starts /\ Go(IF rjob.detach THEN "name it" ELSE "logs")
       \* Refused, or the answer was lost.
       \/ UNCHANGED <<bearer, own>> /\ Go("not started")
       \/ bearer # Nobody /\ Starts /\ Go("not started")
    /\ UNCHANGED <<rjob, rboard, meddles, issued, cleared>> /\ UNCHANGED depVars
    /\ UNCHANGED planVars /\ UNCHANGED endVars

\* With --rm what did not start is removed; if that fails there is a warning.
NotStarted ==
    /\ rphase = "not started" /\ EndRun("error")
    /\ \/ rjob.rm /\ DeleteMine /\ cleanup' = "done"
       \/ rjob.rm /\ cleanup' = "failed" /\ UNCHANGED <<bearer, own, cleared>>
       \/ ~rjob.rm /\ UNCHANGED <<bearer, own, cleared, cleanup>>
    /\ UNCHANGED <<rjob, rboard, meddles, issued, mine, following, exit>>
    /\ UNCHANGED depVars /\ UNCHANGED planVars

\* A detached run shows the name, and leaves the container to itself.
Detach ==
    /\ rphase = "name it" /\ (EndRun("ok") \/ EndRun("error"))
    /\ UNCHANGED <<rjob, rboard, meddles>> /\ UNCHANGED depVars /\ UNCHANGED planVars
    /\ UNCHANGED nameVars /\ UNCHANGED endVars

\* The outcome of a run that came to an error, for the cleanup to follow.
FailedRun == Go("cleanup") /\ UNCHANGED exit

\* On a terminal: attach, then start, then carry both directions until the
\* output ends; a connection that breaks ends it too.
run_attached ==
    /\ \/ /\ rphase = "attach" /\ UNCHANGED <<bearer, own>>
          /\ \/ bearer # Nobody /\ following' = bearer.id /\ Go("start attached") /\ UNCHANGED exit
             \/ FailedRun /\ UNCHANGED following
       \/ /\ rphase = "start attached" /\ UNCHANGED following
          /\ \/ bearer # Nobody /\ Starts /\ Go("pump") /\ UNCHANGED exit
             \/ UNCHANGED <<bearer, own>> /\ FailedRun
             \/ bearer # Nobody /\ Starts /\ FailedRun
       \/ /\ rphase = "pump" /\ UNCHANGED <<bearer, own, following>>
          /\ ((Go("wait exit") /\ UNCHANGED exit) \/ FailedRun)
    /\ UNCHANGED <<rjob, rboard, meddles, issued, cleared, mine, cleanup>>
    /\ UNCHANGED depVars /\ UNCHANGED planVars

OpenLogs ==
    /\ rphase = "logs"
    /\ \/ bearer # Nobody /\ following' = bearer.id /\ Go("follow") /\ UNCHANGED exit
       \/ FailedRun /\ UNCHANGED following
    /\ UNCHANGED <<rjob, rboard, meddles, mine, cleanup>> /\ UNCHANGED depVars
    /\ UNCHANGED planVars /\ UNCHANGED nameVars

\* The stream ends with the container, or breaks; then whoever has the name is
\* asked for, and only one that is known not to run makes it an end.
FollowLogs ==
    /\ rphase = "follow"
    /\ \/ (bearer.id # following \/ bearer.st # "running") /\ Go("wait exit")
       \/ Go("broke")
    /\ UNCHANGED <<rjob, rboard, meddles>> /\ UNCHANGED depVars /\ UNCHANGED planVars
    /\ UNCHANGED nameVars /\ UNCHANGED endVars

stream_broke_mid_output(asked) == asked # "stopped"
container_still_running ==
    IF bearer.owner = "project" /\ bearer.st = "running" THEN "running" ELSE "stopped"
AskState ==
    /\ rphase = "broke"
    /\ \E asked \in {container_still_running, "unknown"} :
         IF stream_broke_mid_output(asked) THEN FailedRun ELSE (Go("wait exit") /\ UNCHANGED exit)
    /\ UNCHANGED <<rjob, rboard, meddles, mine, following, cleanup>> /\ UNCHANGED depVars
    /\ UNCHANGED planVars /\ UNCHANGED nameVars

\* The code of whoever has the name, once it has stopped.
WaitExit ==
    /\ rphase = "wait exit"
    /\ \/ bearer.st = "exited" /\ exit' = bearer.code /\ Go("cleanup")
       \/ FailedRun
    /\ UNCHANGED <<rjob, rboard, meddles, mine, following, cleanup>> /\ UNCHANGED depVars
    /\ UNCHANGED planVars /\ UNCHANGED nameVars

finish_run(outcome, cleaned) ==
    CASE outcome = NoCode          -> "error"
      [] outcome = 0 /\ cleaned     -> "ok"
      [] outcome = 0 /\ ~cleaned    -> "error"
      [] OTHER                      -> "exited"

CleanUpOneOff ==
    /\ rphase = "cleanup"
    /\ \/ rjob.rm /\ DeleteMine /\ cleanup' = "done"
       \/ rjob.rm /\ cleanup' = "failed" /\ UNCHANGED <<bearer, own, cleared>>
       \/ ~rjob.rm /\ UNCHANGED <<bearer, own, cleared, cleanup>>
    /\ EndRun(finish_run(exit, cleanup' # "failed"))
    /\ UNCHANGED <<rjob, rboard, meddles, issued, mine, following, exit>>
    /\ UNCHANGED depVars /\ UNCHANGED planVars

-----------------------------------------------------------------------------
(* The others *)

NameMatters == rphase \notin {"resolve", "deps", "wait", "flags", "image", "networks", "volumes", "secrets", "done"}
Others == UNCHANGED <<rjob, rphase, rresult, rboard, mine, following, exit, cleanup, cleared>>
          /\ UNCHANGED depVars /\ UNCHANGED planVars

ContainerExits ==
    /\ NameMatters /\ bearer.st = "running"
    /\ bearer' = [bearer EXCEPT !.st = "exited"]
    /\ own' = IF bearer.id = own.id THEN [own EXCEPT !.st = "exited", !.code = bearer.code] ELSE own
    /\ Others /\ UNCHANGED <<issued, meddles>>

NameFreed ==
    /\ NameMatters /\ meddles < MaxMeddles /\ bearer # Nobody
    /\ bearer' = Nobody /\ meddles' = meddles + 1
    /\ own' = IF bearer.id = own.id THEN [own EXCEPT !.st = "gone", !.by = "others"] ELSE own
    /\ Others /\ UNCHANGED issued

\* Since when a container has the name: the steps after which its owner is not
\* looked at again.
Epoch == IF rphase \in {"clear", "create"} THEN "looked"
         ELSE IF rphase \in {"init", "lookup"} THEN "checked"
         ELSE IF mine # 0 THEN "run" ELSE "before"
NameTaken ==
    /\ NameMatters /\ meddles < MaxMeddles /\ bearer = Nobody
    /\ issued' = issued + 1 /\ meddles' = meddles + 1
    /\ \E owner \in {"project", "other"} :
         bearer' = [id |-> issued', owner |-> owner, st |-> "running", code |-> 7, since |-> Epoch]
    /\ UNCHANGED own /\ Others

OneoffNext ==
    \/ RunRefused \/ job_file_for_run \/ StartDependencies \/ DependencyMoves \/ wait_target_dependencies
    \/ ApplyFlags \/ acquire_service_image \/ create_networks \/ create_volumes \/ PrepareRest
    \/ container_exists \/ run_pre_start \/ LookUp \/ ClearName \/ CreateContainer
    \/ StartOneOff \/ NotStarted \/ Detach \/ run_attached \/ OpenLogs \/ FollowLogs \/ AskState
    \/ WaitExit \/ CleanUpOneOff \/ ContainerExits \/ NameFreed \/ NameTaken

OneoffDone == rphase = "done"

OneoffSpec == OneoffInit /\ [][OneoffNext]_oneoffVars

-----------------------------------------------------------------------------
(* What a run promises *)

\* The code that is told is that of the run's own container, unless others
\* removed it: start, logs and wait go by a name.
CodeIsOwn == (exit # NoCode /\ own.by # "others") => exit = own.code

\* With --rm nothing stays, unless the delete failed, which is then the result
\* of a command that succeeded, or the run never had the ID, or it detached;
\* without --rm, or detached, the run removes nothing of its own.
CleansUp ==
    rphase = "done" =>
        /\ (rjob.rm /\ own.st \notin {"none", "gone"}) =>
             mine = 0 \/ cleanup = "failed" \/ (rjob.detach /\ cleanup = "none")
        /\ (rresult = "ok" /\ ~rjob.detach) => cleanup # "failed"
        /\ (~rjob.rm \/ (rjob.detach /\ rresult = "ok")) => own.by # "run"

\* What else it removes has the project's label, and under --name came by the
\* name after the check; but for what took the name after the lookup.
OthersSpared ==
    \A c \in cleared :
        c.since = "looked" \/ (c.owner = "project" /\ (rjob.named => c.since = "checked"))

\* The container is made when what it depends on is as it asks.
DepsFirst ==
    (own.id # 0 /\ ~rjob.noDeps) => \A i \in DOMAIN rdeps : rjob.needs[i].required => ConditionSeen(i)

\* The value of a variable, from the flags down: the last -e, the service's own,
\* the last --env-file, the service's files.
SaidOf(k) ==
    LET said == {i \in DOMAIN rjob.env : rjob.env[i][1] = k}
        files == {i \in DOMAIN rjob.envFiles : k \in DOMAIN rjob.envFiles[i]}
    IN  IF said # {} THEN {rjob.env[Max(said)][2]}
        ELSE IF k \in DOMAIN rjob.service.environment THEN {rjob.service.environment[k]}
        ELSE IF files # {} THEN {rjob.envFiles[Max(files)][k]}
        ELSE IF k \in DOMAIN rjob.service.env_file THEN {rjob.service.env_file[k]}
        ELSE {}
ValueOf(k) ==
    IF SaidOf(k) = {Bare} THEN (IF k \in DOMAIN rjob.host THEN {rjob.host[k]} ELSE {}) ELSE SaidOf(k)

\* The container is the one that was asked for: an entrypoint that is given is
\* not the image's, even if it is empty, nor does the service's command follow it.
AsAsked ==
    own.id # 0 =>
        /\ \A k \in rjob.keys :
             (IF k \in DOMAIN rspec.environment THEN {rspec.environment[k]} ELSE {}) = ValueOf(k)
        /\ rjob.entry.given => rspec.entrypoint # <<>> /\ rspec.command = rjob.cmd
        /\ rspec.labels["podup.oneoff"] = "true"
        /\ rspec.restart = "no"
        /\ ~rjob.servicePorts => rspec.ports = rjob.publish

\* Every volume the containers of the run mount was there, or was made as the
\* project's.
MountsReady == \A v \in DOMAIN volumes : volumes[v] # "nobody"

\* A one-off is of the service and the flags asked for, made when its
\* dependencies and volumes are ready; what it reports is what its own container
\* did, and the container is gone or kept as asked, with nobody else's
\* (lifecycle/run).
RunFaithful == CodeIsOwn /\ CleansUp /\ OthersSpared /\ DepsFirst /\ AsAsked /\ MountsReady

\* "Wait for every condition `target` states about its dependencies"
\* (deps_wait.rs:16); of a dependency with several replicas only the first is
\* waited for, where `up` waits for all (readiness.rs:88).
EveryReplicaReady ==
    (own.id # 0 /\ ~rjob.noDeps) =>
        \A i \in DOMAIN rdeps : (rjob.needs[i].required /\ ~Unasked(rjob.needs[i])) =>
            \A k \in DOMAIN rdeps[i] : rdeps[i][k] = rjob.needs[i].condition

-----------------------------------------------------------------------------
(* The invariant that is inductive *)

Before == {"resolve", "deps", "wait", "flags", "image", "networks", "volumes", "secrets", "name",
           "init", "lookup", "clear", "create"}
NotStartedYet == {"start", "attach", "start attached"}
Watched == {"attach", "start attached", "pump", "logs", "follow", "broke", "wait exit", "cleanup"}
Made == NotStartedYet \cup Watched \cup {"name it", "not started"}

OneoffTypeOK ==
    /\ rjob \in Oneoffs
    /\ rphase \in Before \cup Made \cup {"done"}
    /\ rresult \in {"none", "ok", "error", "refused", "exited"}
    /\ DOMAIN rdeps = DOMAIN rjob.needs
    /\ \A i \in DOMAIN rdeps : DOMAIN rdeps[i] = 1 .. rjob.needs[i].replicas
    /\ waits \in Nat \ {0}
    /\ bearer \in [id : Nat, owner : {"none", "project", "other"}, st : {"none", "created", "running", "exited"},
                   code : Nat, since : {"none", "before", "checked", "looked", "run"}]
    /\ own \in [id : Nat, st : {"none", "created", "running", "exited", "gone"}, code : Nat, by : {"none", "others", "run"}]
    /\ issued \in Nat \ {0} /\ meddles \in Nat /\ mine \in Nat /\ following \in Nat /\ exit \in Nat
    /\ cleanup \in {"none", "done", "failed"}

\* IDs are given once; the name has its container's ID as long as nobody else
\* takes it from the run, and then what is known of the two agrees.
IdsAgree ==
    /\ bearer.id \in 0 .. issued /\ own.id \in 0 .. issued /\ mine \in {0, own.id}
    /\ bearer.id = 0 \/ bearer.owner = "none" => bearer = Nobody
    /\ own.id = 0 <=> own.st = "none"
    /\ own.st = "gone" <=> own.by # "none"
    /\ own.id # 0 /\ own.by = "none" => bearer.id = own.id
    /\ own.id # 0 /\ bearer.id = own.id =>
          bearer.st = own.st /\ (own.st = "exited" => own.code = bearer.code)

\* How far the run is, and what there may be by then.
Staged ==
    /\ rphase \in Before => own.id = 0
    /\ rphase \in Made => own.id # 0 /\ mine = own.id /\ own.by # "run"
    /\ rphase \in NotStartedYet => own.st \in {"created", "gone"}
    /\ rphase \in Watched => ~rjob.detach
    /\ rphase = "name it" => rjob.detach
    /\ rphase # "done" => cleanup = "none"
    /\ exit # NoCode =>
          /\ rphase \in {"cleanup", "done"}
          /\ own.by # "others" => exit = own.code /\ own.st \in {"exited", "gone"}

\* A name that is about to be cleared came after the check, or is the project's.
Cleared ==
    /\ rphase \in {"init", "lookup"} /\ rjob.named => bearer = Nobody \/ bearer.since = "checked"
    /\ rphase = "clear" => bearer = Nobody \/ bearer.since = "looked"
                         \/ (bearer.owner = "project" /\ (rjob.named => bearer.since = "checked"))

DepsSeen ==
    /\ rphase \in {"resolve", "deps"} => waits = 1
    /\ rphase = "wait" => \A i \in DOMAIN rdeps : i < waits /\ rjob.needs[i].required => ConditionSeen(i)
    /\ (rphase \in Before \ {"resolve", "deps", "wait"} \/ own.id # 0) /\ ~rjob.noDeps =>
          \A i \in DOMAIN rdeps : rjob.needs[i].required => ConditionSeen(i)

\* The service of the one-off is the flags' until its environment is resolved.
ResolvedSpec == [Overridden EXCEPT !.environment = OneoffEnv(Overridden, rjob.host)]
Specified ==
    /\ rphase \in {"image", "networks", "volumes", "secrets", "name", "init", "lookup"} =>
          rspec = Overridden /\ rinit = init_service(rjob.service, Overridden)
    /\ rphase \in {"clear", "create"} \/ own.id # 0 => rspec = ResolvedSpec

\* What is declared and mounted is there before anything mounts it.
Provided ==
    /\ rphase \in {"secrets", "name", "init", "lookup", "clear", "create"} => Scoped \subseteq DOMAIN volumes
    /\ rphase \in {"clear", "create"} => ~Undeclared(rspec)

OneoffIInv ==
    /\ OneoffTypeOK /\ IdsAgree /\ Staged /\ Cleared /\ DepsSeen /\ Specified /\ Provided
    /\ CleansUp /\ OthersSpared /\ MountsReady
=============================================================================

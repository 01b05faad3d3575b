----------------------------- MODULE ComposeLoad -----------------------------
(***************************************************************************)
(* How the compose files of a project become one model                     *)
(* (parsing/compose/parsing.rs, merging/include.rs,                        *)
(* merging/extends/resolution.rs, merging/merge.rs, merging/tags.rs,       *)
(* jobs/, resolve/validate.rs).                                            *)
(*                                                                         *)
(* A path is a pair of a directory and a name in it; disk gives every file *)
(* that exists the document it holds:                                      *)
(*   parses    FALSE when a guard or the parser refuses it                 *)
(*   literal   FALSE when its service names are written with variables     *)
(*   bytes     what its interpolation puts out                             *)
(*   services, jobs, include, networks                                     *)
(* A context is what a document is interpolated with: the env files read,  *)
(* or the directory whose .env is.                                         *)
(***************************************************************************)
EXTENDS ServiceMerge, FiniteSets

CONSTANTS
    Cwd,                    \* the working directory
    EnvFiles,               \* the env files that exist, as paths
    MaxIncludeDepth,        \* MAX_INCLUDE_DEPTH
    MaxIncludeVisits,       \* MAX_INCLUDE_VISITS
    MaxExtendsDepth,        \* MAX_EXTENDS_DEPTH
    MaxCacheEntries,        \* MAX_EXTENDS_CACHE_ENTRIES
    MaxDocumentBytes        \* MAX_INTERP_DOCUMENT_BYTES

Stdin == "-"
is_stdin(path) == path[2] = Stdin
dir_of(path) == IF is_stdin(path) THEN Cwd ELSE path[1]

\* Where a path written in a file of the directory leads.
Join(dir, path) == <<IF path.dir = None THEN dir ELSE path.dir, path.base>>

absolute_env_files(dir, envs) == [i \in DOMAIN envs |-> anchor_fs(envs[i], dir)]

EmptyFile == [services |-> <<>>, jobs |-> <<>>, include |-> <<>>, networks |-> {}]

(***************************************************************************)
(* Reading one document. A state of the load carries the file read so far, *)
(* what interpolation has put out, and the error that ended it.            *)
(***************************************************************************)
build_vars(dir, envs) ==
    IF envs = <<>> THEN [dotenv |-> dir]
    ELSE [env |-> [i \in DOMAIN envs |-> Join(dir, envs[i])]]

MissingEnv(dir, envs) == \E i \in DOMAIN envs : Join(dir, envs[i]) \notin EnvFiles

\* The names of services and jobs with tagged keys, from the document as it
\* reads after interpolation.
collect(entries) == [n \in {m \in DOMAIN entries : DOMAIN entries[m].merge_tags # {}} |->
                        entries[n].merge_tags]

Interpolated(doc, vars) ==
    [services |-> [n \in DOMAIN doc.services |-> [doc.services[n] EXCEPT !.vars = vars]],
     jobs     |-> [n \in DOMAIN doc.jobs |-> [doc.jobs[n] EXCEPT !.service.vars = vars]],
     include  |-> doc.include,
     networks |-> doc.networks]

\* Mutant operator: the substituted output is counted for each document alone.
CountedAlone(disk, path, vars_dir, envs, spent) ==
    LET doc == disk[path] IN
    IF path \notin DOMAIN disk THEN [err |-> "missing", spent |-> spent, file |-> EmptyFile]
    ELSE [err |-> IF doc.bytes > MaxDocumentBytes THEN "budget" ELSE None,
          spent |-> doc.bytes, file |-> Interpolated(doc, build_vars(vars_dir, envs))]

\* A file that is missing, unreadable or refused by a guard, an env file that
\* is missing, or a project past its budget ends the load.
parse_file_inner(disk, path, vars_dir, envs, spent) ==
    LET failed(why) == [err |-> why, spent |-> spent, file |-> EmptyFile] IN
    IF path \notin DOMAIN disk THEN failed("missing")
    ELSE IF MissingEnv(vars_dir, envs) THEN failed("env file")
    ELSE IF ~disk[path].parses THEN failed("parse")
    ELSE IF spent + disk[path].bytes > MaxDocumentBytes THEN failed("budget")
    ELSE [err |-> None, spent |-> spent + disk[path].bytes,
          file |-> Interpolated(disk[path], build_vars(vars_dir, envs))]

(***************************************************************************)
(* include: the file that includes keeps its own definition of a name.     *)
(***************************************************************************)
merge_compose_file(target, other) ==
    [target EXCEPT !.services = @ @@ other.services,
                   !.jobs     = @ @@ other.jobs,
                   !.networks = @ \cup other.networks]

anchor_compose_file(file, dir) ==
    [file EXCEPT
        !.services = [n \in DOMAIN @ |-> anchor_service(@[n], dir)],
        !.jobs = [n \in DOMAIN @ |-> [@[n] EXCEPT !.service = anchor_service(@, dir)]]]

\* Mutant operator: a nested name is given the env files of the outer include.
OuterEnv(file, own, nested, envs) ==
    LET new(names) == names \ (DOMAIN file.services \cup DOMAIN file.jobs) IN
    [n \in new(own \cup DOMAIN nested) |-> envs]

\* The env files of what an included file brings: its own names first, then
\* those of the files it includes, and no name the parent declares.
Contributed(file, own, nested, envs) ==
    LET new(names) == names \ (DOMAIN file.services \cup DOMAIN file.jobs) IN
    [n \in new(own) |-> envs] @@ [n \in new(DOMAIN nested) |-> nested[n]]

\* What one include adds to the file: all of it has been read, with what it
\* includes itself.
Included(s, read, nested, inc_dir, all) ==
    IF read.err # None THEN [s EXCEPT !.err = read.err]
    ELSE IF nested.err # None THEN [s EXCEPT !.err = nested.err]
    ELSE [s EXCEPT
            !.file   = merge_compose_file(@, anchor_compose_file(nested.file, inc_dir)),
            !.added  = @ @@ Contributed(s.file, DOMAIN read.file.services \cup DOMAIN read.file.jobs,
                                        nested.added, absolute_env_files(inc_dir, all)),
            !.spent  = nested.spent,
            !.visits = nested.visits]

\* st: the file, the env files of the names added, the chain of files being
\* included, the visits so far.
RECURSIVE merge_includes_in(_, _, _, _, _)

\* One include entry, its file found at path.
IncludeOne(disk, s, path, inc_dir, all, depth) ==
    LET with(read) ==
          Included(s, read,
                   merge_includes_in(disk,
                     [file |-> read.file, added |-> <<>>, spent |-> read.spent,
                      chain |-> s.chain \cup {path}, visits |-> s.visits + 1, err |-> None],
                     inc_dir, all, depth + 1),
                   inc_dir, all)
    IN  IF s.err # None THEN s
        ELSE IF path \in s.chain THEN [s EXCEPT !.err = "circular include"]
        ELSE IF s.visits >= MaxIncludeVisits THEN [s EXCEPT !.err = "include visits"]
        ELSE with(parse_file_inner(disk, path, inc_dir, all, s.spent))

\* Where the paths of an included file are anchored: its project_directory, or
\* its own directory.
IncludeDir(dir, inc) == IF inc.project = None THEN Join(dir, inc.path)[1]
                        ELSE Join(dir, inc.project)[1]

merge_includes_in(disk, st, dir, envs, depth) ==
    IF depth > MaxIncludeDepth THEN [st EXCEPT !.err = "include depth"]
    ELSE FoldLeft(LAMBDA s, inc : IncludeOne(disk, s, Join(dir, inc.path), IncludeDir(dir, inc),
                                             envs \o inc.env, depth),
                  [st EXCEPT !.file.include = <<>>], st.file.include)

merge_includes(disk, file, dir, envs, spent) ==
    merge_includes_in(disk, [file |-> file, added |-> <<>>, spent |-> spent, chain |-> {},
                             visits |-> 0, err |-> None], dir, envs, 0)

(***************************************************************************)
(* extends: services first, then jobs, each in a namespace of its own.     *)
(* st: the services resolved, the directory of their file, the env files   *)
(* of the chain being followed and of the names an include brought, the    *)
(* files parsed so far, the (file, service) pairs on the chain.            *)
(***************************************************************************)
OfKind(file, kind) ==
    IF kind = "service" THEN file.services
    ELSE [n \in DOMAIN file.jobs |-> file.jobs[n].service]

\* A file is parsed once for every list of env files it is read with.
get_or_load(disk, st, abs, env) ==
    LET read(r) ==
          IF r.err = None /\ Cardinality(st.entries) >= MaxCacheEntries
          THEN [err |-> "extends cache", spent |-> r.spent, entries |-> st.entries,
                file |-> EmptyFile]
          ELSE [err |-> r.err, spent |-> r.spent, entries |-> st.entries \cup {<<abs, env>>},
                file |-> r.file]
    IN  IF <<abs, env>> \in st.entries
        THEN [err |-> None, spent |-> st.spent, entries |-> st.entries,
              file |-> Interpolated(disk[abs], build_vars(abs[1], env))]
        ELSE read(parse_file_inner(disk, abs, abs[1], env, st.spent))

\* The env files a service's bases are read with: those of the include that
\* brought it, or those of the chain.
EnvOf(st, name) == IF name \in DOMAIN st.local THEN st.local[name] ELSE st.env

RECURSIVE resolve_one_extends(_, _, _, _, _)

\* The base found in another file, once that file is resolved.
Found(st, name, base, done, abs, env) ==
    IF done.err # None \/ base \notin DOMAIN done.services
    THEN [err |-> opt(done.err, "unknown base"), st |-> st, base |-> NoService]
    ELSE [err  |-> None,
          base |-> anchor_service(done.services[base], abs[1]),
          st   |-> [st EXCEPT !.entries = done.entries, !.spent = done.spent,
                              !.log = done.log \cup
                                        {<<st.services[name].vars, build_vars(abs[1], env)>>}]]

\* The base a service names in another file, resolved there and anchored.
ExternalBase(disk, st, name, abs, base, env, depth) ==
    LET loaded(load) ==
          IF load.err # None \/ <<abs, base>> \in st.chain
          THEN [err |-> opt(load.err, "circular extends.file"), st |-> st, base |-> NoService]
          ELSE Found(st, name, base,
                     resolve_one_extends(disk,
                       [st EXCEPT !.services = OfKind(load.file, st.kind), !.dir = abs[1],
                                  !.env = env, !.local = <<>>, !.entries = load.entries,
                                  !.spent = load.spent, !.chain = @ \cup {<<abs, base>>}],
                       base, {}, depth + 1),
                     abs, env)
    IN  loaded(get_or_load(disk, st, abs, env))

\* The base a service names in its own file.
OwnBase(disk, st, name, base, visited, depth) ==
    LET resolved(done) == [err |-> done.err, st |-> done, base |-> done.services[base]] IN
    IF base = name \/ base \notin DOMAIN st.services
    THEN [err |-> "unknown base", st |-> st, base |-> NoService]
    ELSE resolved(resolve_one_extends(disk, st, base, visited, depth + 1))

resolve_one_extends(disk, st, name, visited, depth) ==
    IF depth >= MaxExtendsDepth THEN [st EXCEPT !.err = "extends depth"]
    ELSE IF name \in visited THEN [st EXCEPT !.err = "circular extends"]
    ELSE IF name \notin DOMAIN st.services THEN st
    ELSE IF st.services[name].extends = None THEN st
    ELSE LET merged(found, svc) ==
               IF found.err # None THEN [st EXCEPT !.err = found.err]
               ELSE [found.st EXCEPT !.services[name] =
                       [merge_service_tagged(found.base, svc, svc.merge_tags)
                          EXCEPT !.extends = None]]
             onto(svc, to) ==
               merged(IF to.file = None
                      THEN OwnBase(disk, st, name, to.service, visited \cup {name}, depth)
                      ELSE ExternalBase(disk, st, name, Join(st.dir, to.file), to.service,
                                        EnvOf(st, name), depth),
                      svc)
         IN  onto(st.services[name], st.services[name].extends)

resolve_all_of(disk, st) ==
    FoldLeft(LAMBDA s, n : IF s.err # None THEN s ELSE resolve_one_extends(disk, s, n, {}, 0),
             st, SetToSeq(DOMAIN st.services))

store_job_services(file, services) ==
    [file EXCEPT !.jobs = [n \in DOMAIN @ |-> [@[n] EXCEPT !.service = services[n]]]]

\* The outcome: the file with every extends resolved.
resolve_all_extends(disk, file, dir, env, local, spent) ==
    LET jobs_done(svcs, jobs) ==
          [err |-> opt(jobs.err, svcs.err), spent |-> jobs.spent, log |-> jobs.log,
           file |-> store_job_services([file EXCEPT !.services = svcs.services],
                                       IF jobs.err = None THEN jobs.services
                                       ELSE OfKind(file, "job"))]
        jobs_of(svcs) ==
          jobs_done(svcs, resolve_all_of(disk, [svcs EXCEPT !.kind = "job",
                                                            !.services = OfKind(file, "job")]))
    IN  jobs_of(resolve_all_of(disk,
          [services |-> file.services, dir |-> dir, env |-> env, local |-> local,
           entries |-> {}, spent |-> spent, chain |-> {}, kind |-> "service",
           err |-> None, log |-> {}]))

(***************************************************************************)
(* Services and jobs: one namespace, extends within a kind, and no service *)
(* that depends on a job.                                                  *)
(***************************************************************************)
local_extends(svc) ==
    IF svc.extends = None THEN {}
    ELSE IF svc.extends.file # None THEN {} ELSE {svc.extends.service}

check_structure(file) ==
    /\ DOMAIN file.services \cap DOMAIN file.jobs = {}
    /\ \A n \in DOMAIN file.jobs :
          local_extends(file.jobs[n].service) \cap DOMAIN file.services = {}
    /\ \A n \in DOMAIN file.services :
          local_extends(file.services[n]) \cap DOMAIN file.jobs = {}

with_jobs_as_services(file) == file.services @@ OfKind(file, "job")

check_relations(file) ==
    \A n \in DOMAIN file.services :
        DOMAIN effective_depends_on(file.services[n], with_jobs_as_services(file))
            \cap DOMAIN file.jobs = {}

check_triggers_declared(file) ==
    \A n \in DOMAIN file.jobs :
        file.jobs[n].triggers.manual # None \/ file.jobs[n].triggers.schedule # <<>>

(***************************************************************************)
(* One -f file, with its includes and its extends.                         *)
(***************************************************************************)
Refused(why, spent) == [err |-> why, file |-> EmptyFile, spent |-> spent, log |-> {}]

Extended(ext) ==
    IF ext.err # None THEN ext
    ELSE IF ~check_relations(ext.file) THEN Refused("relations", ext.spent) ELSE ext

WithIncludes(disk, inc, dir, envs) ==
    IF inc.err # None THEN Refused(inc.err, inc.spent)
    ELSE IF ~check_structure(inc.file) THEN Refused("structure", inc.spent)
    ELSE Extended(resolve_all_extends(disk, inc.file, dir, absolute_env_files(dir, envs),
                                      inc.added, inc.spent))

parse_file(disk, read, dir, envs) ==
    IF read.err # None THEN Refused(read.err, read.spent)
    ELSE WithIncludes(disk, merge_includes(disk, read.file, dir, envs, read.spent), dir, envs)

parse_one(disk, path, envs, project_dir, spent) ==
    parse_file(disk, parse_file_inner(disk, path, project_dir, envs, spent), dir_of(path), envs)

\* The tags of a -f file, read from the file a second time: nothing is found on
\* the standard input, nor under the real name of a service written with
\* variables.
collect_from_file(disk, path) ==
    IF is_stdin(path) \/ ~disk[path].literal THEN <<>>
    ELSE collect(disk[path].services @@ [n \in DOMAIN disk[path].jobs |-> disk[path].jobs[n].service])

TagsOf(directives, n) == IF n \in DOMAIN directives THEN directives[n] ELSE <<>>

TagOf(tags, key) == IF key \in DOMAIN tags THEN tags[key] ELSE None

\* A tag on the whole block of triggers goes before one on a key of it.
TriggerTag(tags, key) == opt(TagOf(tags, "triggers"), TagOf(tags, key))

Triggered(tag, over, base, nothing) ==
    IF tag = "reset" THEN nothing
    ELSE IF tag = "override" \/ over # nothing THEN over ELSE base

merge_job(base, over, tags) ==
    [service  |-> merge_service_tagged(base.service, over.service, tags),
     triggers |-> [manual   |-> Triggered(TriggerTag(tags, "triggers.manual"),
                                          over.triggers.manual, base.triggers.manual, None),
                   schedule |-> Triggered(TriggerTag(tags, "triggers.schedule"),
                                          over.triggers.schedule, base.triggers.schedule, <<>>)]]

merge_override(target, other, directives) ==
    [target EXCEPT
        !.services = [n \in DOMAIN @ \cup DOMAIN other.services |->
            IF n \notin DOMAIN @ THEN other.services[n]
            ELSE IF n \notin DOMAIN other.services THEN @[n]
            ELSE merge_service_tagged(@[n], other.services[n], TagsOf(directives, n))],
        !.jobs = [n \in DOMAIN @ \cup DOMAIN other.jobs |->
            IF n \notin DOMAIN @ THEN other.jobs[n]
            ELSE IF n \notin DOMAIN other.jobs THEN @[n]
            ELSE merge_job(@[n], other.jobs[n], TagsOf(directives, n))],
        !.networks = @ \cup other.networks]

NeedsDefault(svc) == svc.network_mode = None /\ svc.networks = <<>>

OnDefault(svc) == IF NeedsDefault(svc) THEN [svc EXCEPT !.networks = [default |-> None]] ELSE svc

normalize_default_network(file) ==
    [file EXCEPT
        !.services = [n \in DOMAIN @ |-> OnDefault(@[n])],
        !.jobs     = [n \in DOMAIN @ |-> [@[n] EXCEPT !.service = OnDefault(@)]],
        !.networks = IF \E n \in DOMAIN with_jobs_as_services(file) :
                           NeedsDefault(with_jobs_as_services(file)[n])
                     THEN @ \cup {"default"} ELSE @]

validate(file) ==
    \A n \in DOMAIN file.services \cup DOMAIN file.jobs :
        LET svc == IF n \in DOMAIN file.services THEN file.services[n] ELSE file.jobs[n].service
        IN  IF svc.network_mode # None THEN svc.networks = <<>>
            ELSE DOMAIN svc.networks \subseteq file.networks \cup {"default"}
(***************************************************************************)
(* The load of a project: the -f files in order, then the checks.          *)
(***************************************************************************)
VARIABLES
    disk,           \* the documents of the files that exist
    argv,           \* the -f files
    envs,           \* the --env-file paths
    project_dir,    \* --project-directory, or the directory of the first file
    at,             \* the files merged so far
    file,           \* what they came to
    spent,          \* the substituted output so far
    log,            \* for every base read from another file, the context of
                    \*   the service that extends it and the one it was read in
    phase,          \* "parsing", "loaded", "failed", then "done"
    error           \* what ended the load

loadVars == <<disk, argv, envs, project_dir, at, file, spent, log, phase, error>>

LoadInit ==
    /\ at = 0
    /\ file = EmptyFile
    /\ spent = 0
    /\ log = {}
    /\ phase = "parsing"
    /\ error = None

Fail(why) ==
    /\ phase' = "failed"
    /\ error' = why
    /\ UNCHANGED <<disk, argv, envs, project_dir, at, file, spent, log>>

\* The next -f file: the first is the model, each later one is merged over it.
ParseFile ==
    /\ phase = "parsing"
    /\ at < Len(argv)
    /\ \E read \in {parse_one(disk, argv[at + 1], envs, project_dir, spent)} :
          IF read.err # None THEN Fail(read.err)
          ELSE /\ file' = IF at = 0 THEN read.file
                          ELSE merge_override(file, read.file,
                                              collect_from_file(disk, argv[at + 1]))
               /\ at' = at + 1
               /\ spent' = read.spent
               /\ log' = log \cup read.log
               /\ UNCHANGED <<disk, argv, envs, project_dir, phase, error>>

\* The checks that follow the last file.
Loaded ==
    /\ phase = "parsing"
    /\ at = Len(argv)
    /\ IF ~check_structure(file) THEN Fail("structure")
       ELSE IF ~check_relations(file) THEN Fail("relations")
       ELSE IF ~check_triggers_declared(file) THEN Fail("triggers")
       ELSE IF ~validate(normalize_default_network(file)) THEN Fail("validate")
       ELSE /\ file' = normalize_default_network(file)
            /\ phase' = "loaded"
            /\ UNCHANGED <<disk, argv, envs, project_dir, at, spent, log, error>>
=============================================================================

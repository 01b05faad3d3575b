----------------------------- MODULE ServiceMerge -----------------------------
(***************************************************************************)
(* How two definitions of one service are put together: by `extends`, by a *)
(* later -f file, and by the `!override` and `!reset` tags                 *)
(* (parsing/compose/merging/extends/merge, merging/anchor.rs).             *)
(*                                                                         *)
(* A service keeps one field for every rule by which a key is merged:      *)
(*   image         a scalar, None when it is not written                   *)
(*   ports         a list whose items are kept once                        *)
(*   pre_start     a list that is always appended                          *)
(*   volumes       a list of mounts, one for every target                  *)
(*   env_file      a list of paths, each kept once                         *)
(*   environment   a map (labels, sysctls and ulimits have the same rule)  *)
(*   networks      a map from a network to its settings, or None           *)
(*   depends_on    a map from a service to whether it is required          *)
(*   refs          the services a link or a namespace refers to            *)
(*   build         a block merged key by key                               *)
(*   refresh       pull_refresh_after, with refresh_reset when cleared     *)
(* A path is a record of the directory it is anchored to, None while it is *)
(* relative, and a name in it.                                             *)
(***************************************************************************)
EXTENDS Naturals, Sequences, SequencesExt

CONSTANT None

NoService ==
    [image |-> None, ports |-> <<>>, pre_start |-> <<>>, volumes |-> <<>>,
     env_file |-> <<>>, environment |-> <<>>, networks |-> <<>>, network_mode |-> None,
     depends_on |-> <<>>, refs |-> {}, build |-> None, profiles |-> {},
     refresh |-> None, refresh_reset |-> FALSE, extends |-> None,
     merge_tags |-> <<>>, vars |-> None]

opt(over, base) == IF over = None THEN base ELSE over

merge_vec(base, over) ==
    FoldLeft(LAMBDA out, item : IF Contains(out, item) THEN out ELSE Append(out, item),
             base, over)

merge_env_file(base, over) ==
    FoldLeft(LAMBDA out, e : IF \E i \in DOMAIN out : out[i].path = e.path
                             THEN out ELSE Append(out, e),
             base, over)

\* A mount of the overriding service takes the place of the one on its target.
merge_volumes(base, over) ==
    FoldLeft(LAMBDA out, m :
               IF \E i \in DOMAIN out : out[i].target = m.target
               THEN [i \in DOMAIN out |-> IF out[i].target = m.target THEN m ELSE out[i]]
               ELSE Append(out, m),
             base, over)

\* Naming a network again without settings keeps the settings it had.
merge_networks(base, over) ==
    [n \in DOMAIN base \cup DOMAIN over |->
        IF n \in DOMAIN over /\ (n \in DOMAIN base => over[n] # None) THEN over[n] ELSE base[n]]

merge_map(base, over) == over @@ base

\* A block is merged key by key; a null of the overriding block keeps the base.
merge_block(base, over) ==
    IF base = None \/ over = None THEN opt(over, base)
    ELSE [k \in DOMAIN base \cup DOMAIN over |->
            IF k \in DOMAIN over /\ (k \in DOMAIN base => over[k] # None)
            THEN over[k] ELSE base[k]]

merge_service(base, over) ==
    [image         |-> opt(over.image, base.image),
     ports         |-> merge_vec(base.ports, over.ports),
     pre_start     |-> base.pre_start \o over.pre_start,
     volumes       |-> merge_volumes(base.volumes, over.volumes),
     env_file      |-> merge_env_file(base.env_file, over.env_file),
     environment   |-> merge_map(base.environment, over.environment),
     networks      |-> merge_networks(base.networks, over.networks),
     network_mode  |-> opt(over.network_mode, base.network_mode),
     depends_on    |-> merge_map(base.depends_on, over.depends_on),
     refs          |-> base.refs \cup over.refs,
     build         |-> merge_block(base.build, over.build),
     profiles      |-> base.profiles \cup over.profiles,
     refresh       |-> IF over.refresh_reset THEN None ELSE opt(over.refresh, base.refresh),
     refresh_reset |-> over.refresh_reset \/ (over.refresh = None /\ base.refresh_reset),
     extends       |-> opt(over.extends, base.extends),
     merge_tags    |-> over.merge_tags,
     vars          |-> over.vars]

\* The keys a tag can empty: the lists, maps and blocks, and none of the
\* scalars, which the overriding value replaces anyway.
Clearable == {"ports", "volumes", "env_file", "environment", "networks", "depends_on",
              "build", "profiles"}

clear_service_keys(svc, keys) ==
    [k \in DOMAIN svc |-> IF k \in keys /\ k \in Clearable THEN NoService[k] ELSE svc[k]]

\* Mutant operator: the tags of the overriding service are not looked at.
TagsIgnored(base, over, tags) == merge_service(base, over)

\* A tagged key of the base is emptied first; `!reset` empties both sides.
merge_service_tagged(base, over, tags) ==
    merge_service(clear_service_keys(base, DOMAIN tags),
                  clear_service_keys(over, {k \in DOMAIN tags : tags[k] = "reset"}))

\* A relative path is anchored to the directory of the file that wrote it.
anchor_fs(path, dir) == IF path.dir = None THEN [path EXCEPT !.dir = dir] ELSE path

anchor_env_entry(e, dir) == [e EXCEPT !.path = anchor_fs(@, dir)]

anchor_bind(m, dir) == IF m.bind THEN [m EXCEPT !.source = anchor_fs(@, dir)] ELSE m

anchor_extends(e, dir) ==
    IF e = None THEN None
    ELSE IF e.file = None THEN e ELSE [e EXCEPT !.file = anchor_fs(@, dir)]

\* A build section without a context builds from its own directory.
anchor_context(build, dir) ==
    IF build = None THEN None
    ELSE [k \in DOMAIN build \cup {"context"} |->
            IF k # "context" THEN build[k]
            ELSE IF k \notin DOMAIN build \/ build[k] = None THEN [dir |-> dir, base |-> "."]
            ELSE anchor_fs(build[k], dir)]

anchor_service(svc, dir) ==
    [svc EXCEPT !.extends  = anchor_extends(@, dir),
                !.build    = anchor_context(@, dir),
                !.env_file = [i \in DOMAIN @ |-> anchor_env_entry(@[i], dir)],
                !.volumes  = [i \in DOMAIN @ |-> anchor_bind(@[i], dir)]]

\* The dependencies of a service: those it names, and one for every service it
\* refers to that is in the file.
effective_depends_on(svc, services) ==
    svc.depends_on @@ [n \in svc.refs \cap DOMAIN services |-> TRUE]

required_for(deps) == {n \in DOMAIN deps : deps[n]}
=============================================================================

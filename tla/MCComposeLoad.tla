--------------------------- MODULE MCComposeLoad ---------------------------
(* Four families of projects: two -f files that define one service, with tags  *)
(* and a base to extend; two -f files of different directories, each with bases *)
(* of its own, under --env-file and --project-directory; files that include one *)
(* another and extend a file next to them, with env files; and one file whose   *)
(* services and jobs depend on one another, with profiles, for every command.   *)
EXTENDS ProjectScope

Rel(name) == [dir |-> None, base |-> name]
At(dir, name) == [dir |-> dir, base |-> name]
Env(name) == [path |-> Rel(name), required |-> TRUE]
Bind(target, name) == [target |-> target, source |-> Rel(name), bind |-> TRUE]
From(f, n) == [file |-> f, service |-> n]
Base == <<"d", "base">>
Over == <<"d", "over">>
Ext == <<"s", "ext">>
Ext2 == <<"s", "ext2">>
Inc == <<"s", "inc">>
Inc2 == <<"s", "inc2">>
Inc3 == <<"s", "inc3">>

Svc == [NoService EXCEPT !.image = "i"]
Job(svc, manual) == [service |-> svc, triggers |-> [manual |-> manual, schedule |-> <<>>]]
Doc(services) ==
    [parses |-> TRUE, literal |-> TRUE, bytes |-> 1, services |-> services, jobs |-> <<>>,
     include |-> <<>>, networks |-> {}]
Include(path, env) == [path |-> path, project |-> None, env |-> env]

MCDirect == {None, From(At("s", "ext"), "a")}
MCEnvFiles == {<<"d", "e1">>, <<"d", "e2">>, <<"s", "e3">>, <<"d", "e3">>}
MCEnvValues == [e1 |-> [A |-> 1], e2 |-> [A |-> 2, B |-> 2], e3 |-> [B |-> 3], gone |-> <<>>]
MCProfiles == {{}, {"x"}}
MCTargets == {{}, {"a"}, {"b"}, {"a", "b"}, {"j"}}

Tags == {<<>>, [ports |-> "override"], [ports |-> "reset"], [ports |-> "reset", volumes |-> "override"]}

Merging ==
    \E over \in {Over, <<"d", Stdin>>}, tags \in Tags, base_tags \in Tags,
       ext \in MCDirect, over_ext \in MCDirect, literal \in BOOLEAN,
       bytes \in {1, 7}, named \in {"a", "b", "job"}, mode \in {None, "host"} :
        LET a == [Svc EXCEPT !.ports = <<"p", "q">>, !.volumes = <<Bind("t", "v")>>,
                             !.env_file = <<Env("e1")>>, !.build = [args |-> "x"], !.network_mode = mode,
                             !.extends = ext, !.merge_tags = base_tags]
            b == [Svc EXCEPT !.ports = <<"q", "r">>, !.volumes = <<Bind("t", "w")>>,
                             !.env_file = <<Env("e1"), Env("e2")>>, !.networks = [n |-> None],
                             !.extends = over_ext, !.merge_tags = tags]
        IN  /\ disk = Base :> [Doc([a |-> a]) EXCEPT !.networks = {"n"}] @@
                      over :> [Doc(CASE named = "a" -> [a |-> b] [] named = "b" -> [b |-> b]
                                     [] OTHER -> <<>>)
                                 EXCEPT !.jobs = IF named = "job" THEN [a |-> Job(b, TRUE)] ELSE <<>>,
                                        !.literal = literal, !.bytes = bytes] @@
                      Ext :> [Doc([a |-> [Svc EXCEPT !.ports = <<"s">>,
                                                     !.env_file = <<Env("e3")>>]])
                                EXCEPT !.bytes = 2]
            /\ argv = <<Base, over>>
            /\ envs = <<>>
            /\ project_dir = "d"

Away == <<"s", "over">>

Displacing ==
    \E cli \in {<<>>, <<Rel("e1")>>, <<Rel("e3")>>, <<At("d", "e1")>>, <<Rel("e3"), At("d", "e2")>>},
       base_ext \in {None, From(At("s", "ext"), "a"), From(None, "c")},
       over_ext \in {None, From(Rel("ext"), "a"), From(At("d", "base"), "c"), From(None, "e")},
       ext \in {None, From(Rel("ext2"), "a"), From(None, "c")}, inc \in BOOLEAN :
        /\ disk = Base :> Doc([a |-> [Svc EXCEPT !.extends = base_ext], c |-> Svc]) @@
                  Away :> [Doc([a |-> [Svc EXCEPT !.extends = over_ext],
                                e |-> [Svc EXCEPT !.extends = From(Rel("ext"), "a")]])
                             EXCEPT !.include = IF inc THEN <<Include(Rel("inc"), <<Rel("e3")>>)>> ELSE <<>>] @@
                  Inc :> Doc([b |-> [Svc EXCEPT !.extends = From(Rel("ext"), "a")]]) @@
                  Ext :> Doc([a |-> [Svc EXCEPT !.extends = ext], c |-> Svc]) @@
                  Ext2 :> Doc([a |-> Svc])
        /\ argv \in {<<Base, Away>>, <<Away, Base>>}
        /\ envs = cli
        /\ project_dir \in {"d", "s"}

Including ==
    \E cli \in {<<>>, <<At("d", "e1")>>, <<At("d", "gone")>>}, env \in {<<>>, <<Rel("e3")>>},
       nested \in {<<>>, <<Include(Rel("inc2"), <<>>)>>, <<Include(Rel("inc2"), <<Rel("e3")>>)>>,
                   <<Include(Rel("inc2"), <<>>), Include(Rel("inc2"), <<>>),
                     Include(Rel("inc2"), <<>>)>>,
                   <<Include(At("d", "base"), <<>>)>>, <<Include(Rel("inc"), <<>>)>>},
       base_ext \in {None, From(None, "c"), From(At("s", "ext"), "a")},
       back \in {None, From(None, "a")}, parses \in BOOLEAN,
       last \in {<<>>, <<Include(Rel("inc3"), <<>>)>>},
       ext \in {None, From(Rel("ext2"), "a"), From(Rel("ext"), "a"), From(None, "c"), From(None, "a")} :
        /\ disk = Base :> [Doc([a |-> [Svc EXCEPT !.extends = base_ext],
                                c |-> [Svc EXCEPT !.extends = back]]) EXCEPT
                             !.include = <<Include(At("s", "inc"), env)>>] @@
                  Inc :> [Doc([b |-> [Svc EXCEPT !.extends = From(Rel("ext"), "a")],
                               a |-> [Svc EXCEPT !.ports = <<"p">>]])
                            EXCEPT !.include = nested,
                                   !.jobs = [j |-> Job([Svc EXCEPT !.extends = From(Rel("ext"), "w")],
                                                       TRUE)]] @@
                  Inc2 :> [Doc([e |-> [Svc EXCEPT !.extends = From(Rel("ext"), "a"),
                                                  !.env_file = <<Env("e3")>>]])
                             EXCEPT !.include = last] @@
                  Inc3 :> Doc([h |-> Svc]) @@
                  Ext :> [Doc([a |-> [Svc EXCEPT !.extends = ext], c |-> [Svc EXCEPT !.extends = back]])
                            EXCEPT !.jobs = [w |-> Job(Svc, None)]] @@
                  Ext2 :> [Doc([a |-> [Svc EXCEPT !.extends = From(Rel("ext3"), "a")]]) EXCEPT !.parses = parses]
        /\ argv = <<Base>>
        /\ envs = cli
        /\ project_dir = "d"

Deps == {<<>>, [b |-> TRUE], [b |-> FALSE], [j |-> TRUE]}
JobDepends == {<<>>, [k |-> TRUE], [k |-> FALSE], [b |-> TRUE], [k |-> TRUE, b |-> TRUE]}

Selecting ==
    \E ad \in Deps, jd \in JobDepends, kd \in {<<>>, [a |-> TRUE], [b |-> TRUE]},
       ap \in {{}, {"x"}}, bp \in {{}, {"x"}}, jp \in {{}, {"x"}},
       manual \in {TRUE, FALSE, None}, image \in {"i", None}, missing \in {"e1", "gone"} :
        LET a == [Svc EXCEPT !.depends_on = ad, !.profiles = ap, !.image = image]
            b == [Svc EXCEPT !.profiles = bp, !.env_file = <<Env(missing)>>]
            j == Job([Svc EXCEPT !.depends_on = jd, !.profiles = jp], TRUE)
            k == Job([Svc EXCEPT !.depends_on = kd], manual)
        IN  /\ disk = Base :> [Doc([a |-> a, b |-> b]) EXCEPT !.jobs = [j |-> j, k |-> k]]
            /\ argv = <<Base>>
            /\ envs = <<>>
            /\ project_dir = "d"

MCInit ==
    /\ ScopeInit
    /\ Merging \/ Displacing \/ Including \/ Selecting

MCSpec == MCInit /\ [][Next]_vars
=============================================================================

--------------------------- MODULE MCEngineCalls ---------------------------
EXTENDS EngineCalls

(* A directory with a file, a link to a file outside it, a link to another *)
(* directory and a directory of its own; a file, a link to it, a link to   *)
(* the directory, a socket.                                                *)
MCTree == <<
    Dir(<<"s">>), File(<<"s", "a">>, 1), Link(<<"s", "l">>, <<"..", "f">>, FALSE),
    Link(<<"s", "n">>, <<"..", "o">>, FALSE),
    Dir(<<"o">>), File(<<"o", "c">>, 2),
    File(<<"f">>, 1), Link(<<"m">>, <<"f">>, FALSE), Link(<<"k">>, <<"s">>, FALSE),
    [NoEntry EXCEPT !.path = <<"u">>, !.k = "socket"] >>

MCUploads ==
    [src : {<<"s">>, <<"m">>}, follow : BOOLEAN,
     contents : BOOLEAN, dst : {<<"x">>}, slash : {FALSE}]
    \cup [src : {<<"f">>, <<"k">>, <<"u">>, <<"z">>}, follow : {FALSE},
     contents : {FALSE}, dst : {<<"x">>, <<"x", "y">>}, slash : BOOLEAN]

Base == [p \in {<<>>} |-> Dir(<<>>)]
With(f, n) == [p \in DOMAIN f \cup {n.path} |-> IF p = n.path THEN n ELSE f[p]]
MCFilesystems ==
    { Base, With(Base, File(<<"x">>, 1)),
      With(Base, Dir(<<"x">>)),
      With(With(With(Base, Dir(<<"x">>)), File(<<"x", "f">>, 2)), Link(<<"x", "m">>, <<"..", "f">>, FALSE)) }

(* What a container's archive of a directory, a file and a link looks like.*)
AEntry(k, p, w, to) == [k |-> k, path |-> p, w |-> w, r |-> TRUE, to |-> to]
Tree1 == << AEntry("dir", <<"d">>, TRUE, <<>>), AEntry("dir", <<"d", "r">>, FALSE, <<>>),
            AEntry("file", <<"d", "r", "f">>, FALSE, <<>>), AEntry("hard", <<"d", "h">>, FALSE, <<"d", "r", "f">>) >>
Tree2 == << AEntry("dir", <<"d">>, FALSE, <<>>), AEntry("dir", <<"d", "d">>, TRUE, <<>>) >>
Tree3 == << AEntry("file", <<"f">>, TRUE, <<>>) >>
Tree4 == << AEntry("link", <<"l">>, TRUE, <<"f">>) >>
Tree5 == << AEntry("dir", <<"d">>, TRUE, <<>>), AEntry("link", <<"d", "l">>, TRUE, <<"f">>),
            AEntry("file", <<"d", "c", "f">>, TRUE, <<>>), AEntry("dir", <<"d", "c">>, FALSE, <<>>),
            AEntry("file", <<"d", "g">>, TRUE, <<>>) >>
(* Hard links with modes of their own, to a file that can be opened and to *)
(* one that cannot; more than one file without a directory.                *)
Linked(w, r) ==
    << AEntry("dir", <<"d">>, TRUE, <<>>), [AEntry("file", <<"d", "f">>, w, <<>>) EXCEPT !.r = r],
       AEntry("hard", <<"d", "h">>, ~w, <<"d", "f">>), AEntry("hard", <<"d", "m">>, FALSE, <<"d", "h">>) >>
Tree6 == << AEntry("file", <<"f">>, FALSE, <<>>), AEntry("file", <<"g">>, TRUE, <<>>) >>
MCDownloads ==
    [archive : {Tree1, Tree2, Tree3, Tree4, Tree5, Tree6, Linked(TRUE, TRUE), Linked(FALSE, FALSE)}, dst : {<<"t">>, <<"h", "t">>, <<"q", "t">>},
     slash : BOOLEAN]

(* /h is a link of the system's to /v; t is not there, a file, a link, or a*)
(* directory with parts of an earlier copy in it.                          *)
HostBase == (<<>> :> DirNode(TRUE)) @@ (<<"h">> :> LinkNode(<<"v">>)) @@ (<<"v">> :> DirNode(TRUE))
            @@ (<<"e">> :> DirNode(TRUE))
Under(p) == { HostBase,
    HostBase @@ (p :> FileNode(TRUE, TRUE, 0)), HostBase @@ (p :> [LinkNode(<<"e">>) EXCEPT !.ino = 1]),
    HostBase @@ (p :> DirNode(TRUE)),
    HostBase @@ (p :> DirNode(TRUE)) @@ (p \o <<"d">> :> [LinkNode(<<"e">>) EXCEPT !.ino = 1]),
    HostBase @@ (p :> DirNode(TRUE)) @@ (p \o <<"d">> :> DirNode(TRUE))
             @@ (p \o <<"d", "h">> :> FileNode(TRUE, TRUE, 0)),
    HostBase @@ (p :> DirNode(TRUE)) @@ (p \o <<"d">> :> DirNode(FALSE))
             @@ (p \o <<"d", "r">> :> DirNode(FALSE))
             @@ (p \o <<"d", "r", "f">> :> FileNode(FALSE, TRUE, 0)) }
MCHosts == Under(<<"t">>) \cup Under(<<"v", "t">>)

(* Build contexts: a directory with files, one of them in a directory of   *)
(* its own, and a file named like a secret podup adds.                     *)
MCAlphabet == << "!", "*", "-", ".", "/", "?", "C", "D", "[", "\\", "]", "^",
                 "c", "d", "i", "k", "o", "p", "s", "t", "v", "w", "x" >>
Node(p, k) == [path |-> p, k |-> k]
V == <<"v">>
MCContext == << Node(<<".", "i">>, "file"), Node(<<".", "s", "t">>, "file"),
    Node(<<"D">>, "file"), Node(<<"k">>, "file"), Node(V, "dir"),
    Node(V \o <<"/", "D">>, "file"), Node(V \o <<"/", "k">>, "file"),
    Node(V \o <<"/", "w">>, "dir"), Node(V \o <<"/", "w", "/", "k">>, "file") >>
Patterns == { V, <<"!">> \o V, <<"*">>, <<"!", "k">>, <<"\\", "k">>, V \o <<"/", "*">>,
    <<"!">> \o V \o <<"/", "k">>, <<"!">> \o V \o <<"/", "w", "/">>, <<"*", "*", "/", "k">>,
    <<"[", "i", "-", "w", "]">>, <<"/">> \o V \o <<"/", ".", ".", "/", "k">>,
    <<"!", "?", "/", "k">>, V \o <<"*", "*", "k">> }
Context(ps) == [exists |-> TRUE, tree |-> MCContext, containerignore |-> NoIgnoreFile,
                dockerignore |-> [state |-> "read", patterns |-> ps]]
Build(n) == [name |-> n, ctx |-> Context(<<>>), remote |-> FALSE, inline |-> FALSE,
             dockerfile |-> <<>>, outsideReadable |-> TRUE, secrets |-> <<>>,
             additional |-> <<>>, image |-> NoName, tags |-> <<>>, badField |-> FALSE]
Secret(s) == [name |-> <<"t">>, source |-> s]
Name(r, p, t) == [reg |-> r, path |-> p, tag |-> t]

(* Every pair of patterns with a few ways to name the Dockerfile: planned, *)
(* then stopped by a field that cannot be sent.                            *)
Only == [Build("a") EXCEPT !.badField = TRUE]
Shapes == { Only, [Only EXCEPT !.dockerfile = V \o <<"/", "D">>],
    [Only EXCEPT !.dockerfile = <<".", "/">> \o V \o <<"/", "D">>],
    [Only EXCEPT !.dockerfile = V \o <<"/", "D">>, !.secrets = <<Secret("file")>>],
    [Only EXCEPT !.inline = TRUE], [Only EXCEPT !.dockerfile = <<".", ".", "/", "D">>] }
Planned == {<<[s EXCEPT !.ctx = Context(ps)]>> :
               s \in Shapes, ps \in {<<p>> : p \in Patterns} \cup {<<p, q>> : p, q \in Patterns}}
Built == {
    << [Build("a") EXCEPT !.image = Name("", <<"a">>, "1"),
                          !.tags = <<Name("", <<"a">>, "1"), Name("", <<"t", "a">>, "2")>>] >>,
    << [Build("a") EXCEPT !.tags = <<Name("", <<"a">>, ""), Name("", <<"t", "a">>, "2")>>],
       [Build("b") EXCEPT !.additional = <<"local", "url">>] >>,
    << [Build("a") EXCEPT !.remote = TRUE, !.additional = <<"local">>, !.image = Name("host:5000", <<"t">>, "1"),
                          !.tags = <<Name("host:5000", <<"t">>, "")>>] >>,
    << [Build("a") EXCEPT !.remote = TRUE], [Build("b") EXCEPT !.secrets = <<Secret("undefined")>>] >>,
    << [Build("a") EXCEPT !.additional = <<"missing">>] >>,
    << [Build("a") EXCEPT !.ctx.containerignore = [state |-> "unreadable", patterns |-> <<>>]] >>,
    << [Build("a") EXCEPT !.ctx.tree = <<Node(<<"C">>, "file"), Node(<<"k">>, "special")>>] >>,
    << [Build("a") EXCEPT !.ctx.exists = FALSE] >>,
    << [Build("a") EXCEPT !.dockerfile = <<".", ".", "/", "D">>, !.outsideReadable = FALSE] >> }
MCProjects == Planned \cup Built

Image(n) == [of |-> n, whole |-> TRUE]
MCStores == { [n \in {} |-> Image(0)],
    (Name("localhost", <<"a">>, "1") :> Image(0)) @@ (Name("docker.io", <<"library", "a">>, "1") :> Image(9))
    @@ (Name("docker.io", <<"t", "a">>, "2") :> Image(0)) @@ (Name("localhost", <<"a">>, "latest") :> Image(0)) }

(* Pulls with shared images, platforms, policies and a cycle of needs.     *)
Svc(n, image) == [name |-> n, image |-> image, platform |-> "", policy |-> "",
                  autoupdate |-> FALSE, deps |-> <<>>, tags |-> <<>>]
Pulled == << [Svc("a", "i") EXCEPT !.deps = <<"b">>],
             [Svc("b", "i") EXCEPT !.platform = "arm", !.policy = "never", !.deps = <<"c">>],
             [Svc("c", "j") EXCEPT !.policy = "daily", !.deps = <<"a">>], Svc("d", "") >>
Transfer(verb, s) == [verb |-> verb, services |-> s, targets |-> <<>>, deps |-> FALSE,
                      ignore |-> FALSE, policy |-> "", sink |-> "file", image |-> "x"]
MCTransfers ==
    {[Transfer("pull", Pulled) EXCEPT !.targets = t, !.deps = d] :
        t \in {<<>>, <<"b">>, <<"z">>}, d \in BOOLEAN}
    \cup { [Transfer("pull", Pulled) EXCEPT !.ignore = TRUE, !.policy = "always"],
           Transfer("pull", <<[Svc("a", "i") EXCEPT !.policy = "junk"]>>),
           Transfer("pull", <<[Svc("a", "i") EXCEPT !.autoupdate = TRUE],
                              [Svc("b", "i") EXCEPT !.policy = "build"]>>),
           Transfer("resolve", Pulled) }
    \cup {[Transfer("push", <<[Svc("a", "i") EXCEPT !.tags = <<"i", "k">>], Svc("b", "j")>>)
             EXCEPT !.targets = t, !.ignore = g] : t \in {<<>>, <<"b">>, <<"z">>}, g \in BOOLEAN}
    \cup {[Transfer("export", <<Svc("a", "i")>>) EXCEPT !.targets = <<"a">>, !.sink = s] :
             s \in {"file", "pipe", "terminal"}}
    \cup {[Transfer("commit", <<Svc("a", "i")>>) EXCEPT !.targets = <<"a">>, !.image = i] : i \in {"", "x"}}
MCHeld == { {}, {[image |-> "i", platform |-> "arm"], [image |-> "j", platform |-> ""]} }

(* Follows: one service of two containers, one service with none, each     *)
(* command, the bounds and the filters that are refused.                   *)
OfContainers(n, live, declared) == [name |-> n, live |-> live, declared |-> declared]
TwoServices == <<OfContainers("a", <<"a1", "a2">>, <<"a1", "a2">>), OfContainers("b", <<>>, <<"b1">>)>>
Cmd(c) == [cmd |-> c, follow |-> FALSE, services |-> <<TwoServices[1]>>, chosen |-> {}, since |-> "", until |-> "", filter |-> "", up |-> {"a1", "a2"}]
MCFollows == { Cmd("logs"), [Cmd("logs") EXCEPT !.follow = TRUE], [Cmd("logs") EXCEPT !.chosen = {"z"}],
  [Cmd("logs") EXCEPT !.since = "invalid"], [Cmd("logs") EXCEPT !.services = TwoServices, !.chosen = {"b"}],
  [Cmd("console") EXCEPT !.up = {"a2"}], Cmd("foreground"), Cmd("stats"), [Cmd("stats") EXCEPT !.up = {}],
  Cmd("events"), [Cmd("events") EXCEPT !.since = "1h", !.until = "0h"], [Cmd("events") EXCEPT !.since = "-duration"],
  [Cmd("events") EXCEPT !.filter = "malformed"]}

(* Execs: a filter and a printer behind a pipe, with and without trouble,  *)
(* detached, on a terminal, with input that never ends or cannot be read.  *)
Exec == [argv |-> TRUE, service |-> TRUE, detach |-> FALSE, noTty |-> FALSE, stdin |-> "pipe", stdout |-> "pipe",
  input |-> 3, ends |-> "eof", program |-> "filter", code |-> 0, trouble |-> TRUE]
Calm(e) == [e EXCEPT !.trouble = FALSE]
MCExecs == {Exec, Calm(Exec), Calm([Exec EXCEPT !.stdin = "terminal", !.stdout = "terminal"]), [Exec EXCEPT !.argv = FALSE], [Exec EXCEPT !.detach = TRUE],
 [Exec EXCEPT !.program = "printer", !.ends = "open"], [Exec EXCEPT !.program = "printer", !.code = 1, !.input = 1, !.ends = "error"],
 [Exec EXCEPT !.stdin = "terminal", !.program = "printer"], [Exec EXCEPT !.stdout = "gone", !.program = "printer"],
 [Exec EXCEPT !.stdin = "terminal", !.stdout = "gone", !.program = "printer"],
 [Exec EXCEPT !.stdin = "terminal", !.stdout = "terminal"],
 [Exec EXCEPT !.stdin = "terminal", !.stdout = "terminal", !.ends = "error", !.code = 1, !.input = 1],
 [Exec EXCEPT !.stdin = "terminal", !.stdout = "terminal", !.noTty = TRUE]}

(* Questions about three services, over nothing, what `up` leaves, and a   *)
(* project with a gap, a one-off, a stranger's name and another project.   *)
Ctr(svc, num, state) == [svc |-> svc, num |-> num, oneoff |-> FALSE, state |-> state, infra |-> FALSE,
   alias |-> Missing, project |-> "p", ports |-> <<>>, started |-> 1, age |-> 59]
PublishedPort(h, c, r) == [host |-> h, ctr |-> c, range |-> r]
DeclaredAs(n, image) == [name |-> n, fixed |-> FALSE, count |-> 1, image |-> image, built |-> FALSE]
Question(verb) == [verb |-> verb, services |-> <<DeclaredAs("a", "i"), [DeclaredAs("b", "i") EXCEPT !.count = 2],
        [DeclaredAs("c", "") EXCEPT !.built = TRUE, !.fixed = TRUE]>>,
     chosen |-> <<>>, index |-> -1, all |-> FALSE, status |-> {}, filters |-> {}, port |-> [num |-> 80], project |-> "p"]
MCQuestions ==
    {[Question(v) EXCEPT !.chosen = <<s>>, !.index = i] : v \in {"exec", "port", "attach"}, s \in {"a", "b", "c"}, i \in {-1, 0, 1, 2, 10}}
    \cup {Question("ps"), [Question("ps") EXCEPT !.chosen = <<"b">>, !.all = TRUE], [Question("ps") EXCEPT !.status = {"exited"}],
     [Question("ps") EXCEPT !.filters = {[key |-> "name", value |-> "a"]}],
     [Question("ps") EXCEPT !.filters = {[key |-> "health", value |-> "a"]}],
     [Question("port") EXCEPT !.chosen = <<"a">>, !.port.num = 65536],
     Question("ls"), [Question("ls") EXCEPT !.all = TRUE, !.status = {"exited"}], Question("top"), [Question("top") EXCEPT !.chosen = <<"b", "a", "b">>],
     Question("images"), [Question("images") EXCEPT !.chosen = <<"b", "c">>], [Question("images") EXCEPT !.chosen = <<"z">>]}
MCRealities == { [ctrs |-> {}, imgs |-> [r \in {} |-> 0]],
  [ctrs |-> {[Ctr("a", 1, "running") EXCEPT !.ports = <<PublishedPort(8080, 80, 2), PublishedPort(65535, 65534, 3)>>],
             Ctr("b", 1, "exited"), Ctr("b", 2, "running"), [Ctr("", 0, "running") EXCEPT !.infra = TRUE, !.age = 0],
             [Ctr("c", 0, "paused") EXCEPT !.age = 86400]},
   imgs |-> [r \in {"i"} |-> 1]],
  [ctrs |-> {Ctr("a", 2, "running"), [Ctr("a", 10, "running") EXCEPT !.age = 3600], [Ctr("b", 7, "running") EXCEPT !.oneoff = TRUE],
             [Ctr("", 0, "running") EXCEPT !.alias = [svc |-> "b", num |-> 1, oneoff |-> FALSE]],
             [Ctr("a", 1, "paused") EXCEPT !.project = "q"]},
   imgs |-> [r \in {"i", "built c"} |-> 1]] }

(* What is edited between and under the `up`s: any key, and any host file. *)
MCEditable == DOMAIN Values \cup DOMAIN HostValues

(* Commands and what their services report, in a log and on a terminal     *)
(* that is high enough and on one that is not: an image built twice for    *)
(* two containers, one pulled twice, verbs that take the place of others,  *)
(* a service that is not finished, lines that are not rows, no board.      *)
Object(n, external) == [name |-> n, external |-> external]
ProjectFile == [networks |-> <<Object("net", FALSE), Object("ext", TRUE)>>, volumes |-> <<Object("vol", FALSE)>>,
    levels |-> <<<<"b">>, <<"a">>>>, cyclic |-> FALSE, order |-> <<"a", "b">>, enabled |-> {"a", "b"}, targets |-> {},
    replicas |-> ("a" :> <<"a1">>) @@ ("b" :> <<"b1">>), live |-> ("a" :> <<"a1">>) @@ ("b" :> <<"b1">>),
    images |-> <<"img">>, missing |-> TRUE]
Ev(do, r, verb) == [do |-> do, of |-> r, verb |-> verb, anchor |-> ""]
Doing(r, verb) == <<Ev("start", r, verb)>>
Did(r, verb) == <<Ev("finish", r, verb)>>
Said(n) == [i \in 1 .. n |-> Ev("note", "img", IF i % 2 = 0 THEN "even" ELSE "odd")]
Anchored(anchor) == <<[Ev("start before", "img", "Building") EXCEPT !.anchor = anchor]>>
Work(r, doing, did) == Doing(r, doing) \o Did(r, did)
Objects == Work("net", "Creating", "Created") \o Did("vol", "Exists")
Display(cmd, jobs) == [cmd |-> cmd, file |-> ProjectFile, sink |-> "terminal", height |-> 12, boarded |-> TRUE,
    jobs |-> jobs, cp |-> FALSE, fails |-> FALSE, attaches |-> FALSE]
Ups == <<Objects, Work("b1", "Starting", "Started"), Work("a1", "Starting", "Running")>>
OnTerminal == {
    [Display("up", Ups) EXCEPT !.attaches = TRUE],
    [Display("up", Ups) EXCEPT !.height = 4],
    [Display("up", <<Objects, Doing("a1", "Starting") \o Did("a1", "Failed")>>) EXCEPT !.file.targets = {"a"}, !.fails = TRUE],
    [Display("up", <<Objects, Work("b1", "Starting", "Failed"), Doing("a1", "Starting")>>) EXCEPT !.file.cyclic = TRUE, !.fails = TRUE],
    Display("up --build", <<<<>>, Anchored("a1") \o Said(2) \o Doing("img", "Building 1/2") \o Did("img", "Built") \o Did("a1", "Created"),
                            Work("b1", "Starting", "Started")>>),
    Display("up", <<<<>>, Anchored("a1") \o Did("img", "Built") \o Work("a1", "Starting", "Started"),
                          Anchored("b1") \o Did("img", "Built") \o Work("b1", "Starting", "Started")>>),
    Display("down -v", <<Doing("a1", "Stopping") \o Work("a1", "Removing", "Removed") \o <<Ev("warn", "", "")>> \o Did("b1", "Absent")
                         \o Work("pod", "Removing", "Removed") \o Work("net", "Removing", "Removed") \o Did("vol", "Removed")>>),
    Display("down", <<Work("a1", "Stopping", "Removed") \o Work("b1", "Stopping", "Absent") \o Work("net", "Removing", "Removed")>>),
    Display("stop", <<<<>>, Work("a1", "Stopping", "Stopped"), Work("b1", "Stopping", "Skipped")>>),
    Display("stop", <<Work("a1", "Stopping", "Skipped"), Doing("b1", "Stopping")>>),
    Display("pull", <<<<>>, Work("img", "Pulling", "Pulled"), Work("img", "Pulling", "Pulled")>>),
    Display("run", <<<<>>, Work("net", "Creating", "Exists"), Doing("img", "Pulling") \o Doing("img", "Pulling 1/2") \o Did("img", "Pulled")>>),
    [Display("build", <<Anchored("a1") \o Said(5) \o Did("img", "Failed")>>) EXCEPT !.fails = TRUE],
    [Display("push", <<Did("img", "Pushing") \o Did("img", "Pushed")>>) EXCEPT !.boarded = FALSE],
    [Display("up", <<Doing("a1", "Stopping") \o Work("b1", "Stopping", "Killed")>>) EXCEPT !.boarded = FALSE],
    [Display("cp", <<Doing("img", "Copying") \o <<Ev("stop emitter", "img", "Copying 1B")>> \o Did("img", "Copied 1B")>>) EXCEPT !.cp = TRUE] }
MCDisplays == OnTerminal \cup {[d EXCEPT !.sink = "pipe"] : d \in OnTerminal} \cup {[Display("up", Ups) EXCEPT !.sink = "off"]}

(* One-offs: names that are taken, flags, terminals; jobs; images that are *)
(* absent; volumes of the service, its steps and -v; variables from every  *)
(* place; entrypoints with quotes; dependencies.                           *)
OneoffService == [build |-> FALSE, pull_policy |-> "missing", entrypoint |-> <<>>, command |-> <<"serve">>,
        user |-> "app", working_dir |-> "", stdin_open |-> FALSE, tty |-> FALSE, volumes |-> <<"data">>,
        environment |-> "a" :> "service", env_file |-> ("a" :> "file") @@ ("b" :> "file"), envReadable |-> TRUE,
        labels |-> "tier" :> "back", ports |-> <<80>>, restart |-> "always", pre_start |-> <<>>]
Run(cmd) == [target |-> "service", valid |-> TRUE, needs |-> <<>>, noDeps |-> FALSE, named |-> FALSE, rm |-> TRUE,
        detach |-> FALSE, noTty |-> FALSE, stdin |-> "pipe", stdout |-> "pipe",
        entry |-> [given |-> FALSE, text |-> <<>>], cmd |-> cmd, user |-> "", workdir |-> "",
        interactive |-> FALSE, volumes |-> <<>>, labels |-> <<>>, envFiles |-> <<>>, envReadable |-> TRUE, env |-> <<>>,
        servicePorts |-> FALSE, publish |-> <<>>, service |-> OneoffService, noBuild |-> FALSE, image |-> TRUE,
        declared |-> [v \in {"data", "init"} |-> "own"] @@ ("outer" :> "external"), volumesThere |-> "data" :> "project", pod |-> FALSE,
        host |-> "c" :> "host", keys |-> {"a", "b", "c", "d"}, found |-> "none", codes |-> {0, 3}]
Plain == Run(<<"migrate">>)
Entrypoint(text) == [Plain EXCEPT !.cmd = <<>>, !.entry = [given |-> TRUE, text |-> text]]
Need(c, required, replicas) == [condition |-> c, required |-> required, checked |-> TRUE, replicas |-> replicas]
MCOneoffs ==
  { Plain, [Plain EXCEPT !.named = TRUE], [Plain EXCEPT !.found = "project"], [Plain EXCEPT !.found = "other"],
    [Plain EXCEPT !.named = TRUE, !.found = "project", !.rm = FALSE], [Plain EXCEPT !.detach = TRUE], [Plain EXCEPT !.rm = FALSE],
    [Plain EXCEPT !.stdin = "terminal", !.stdout = "terminal"],
    [Plain EXCEPT !.stdin = "terminal", !.stdout = "terminal", !.detach = TRUE, !.rm = FALSE],
    [Plain EXCEPT !.target = "unknown"], [Plain EXCEPT !.target = "job", !.valid = FALSE],
    [Plain EXCEPT !.target = "job", !.pod = TRUE, !.servicePorts = TRUE, !.publish = <<81>>],
    [Plain EXCEPT !.image = FALSE, !.service.pull_policy = "never"],
    [Plain EXCEPT !.image = FALSE, !.service.build = TRUE, !.noBuild = TRUE], [Plain EXCEPT !.image = FALSE, !.service.build = TRUE],
    [Plain EXCEPT !.volumes = <<"outer">>], [Plain EXCEPT !.volumes = <<"typo">>], [Plain EXCEPT !.volumesThere = <<>>],
    [Plain EXCEPT !.service.pre_start = <<<<"init">>, <<>>>>, !.user = "root", !.volumes = <<"outer">>, !.volumesThere = "outer" :> "external"],
    [Plain EXCEPT !.service.pre_start = <<<<"typo">>>>],
    [Plain EXCEPT !.labels = <<<<"podup.oneoff", "false">>, <<"tier", "">>>>, !.interactive = TRUE, !.workdir = "w"],
    [Plain EXCEPT !.env = <<<<"a", "x">>, <<"a", "y">>, <<"c", Bare>>, <<"d", Bare>>>>],
    [Plain EXCEPT !.envFiles = <<("a" :> "1") @@ ("b" :> "1"), "b" :> "2">>, !.env = <<<<"b", Bare>>>>],
    [Plain EXCEPT !.envFiles = <<"b" :> "1">>], [Plain EXCEPT !.envReadable = FALSE], [Plain EXCEPT !.service.envReadable = FALSE],
    [Entrypoint(<<"s">>) EXCEPT !.cmd = <<"go">>],
    [Plain EXCEPT !.needs = <<Need("started", TRUE, 1), Need("completed", TRUE, 2)>>],
    [Plain EXCEPT !.needs = <<Need("healthy", FALSE, 1), [Need("healthy", TRUE, 1) EXCEPT !.checked = FALSE], Need("healthy", TRUE, 1)>>],
    [Plain EXCEPT !.needs = <<Need("healthy", TRUE, 1)>>, !.noDeps = TRUE] }
  \cup {Entrypoint(t) : t \in {<<>>, <<"s">>, <<"s", "\\">>}}

(* Entrypoints and the words they are read as, and texts that are refused. *)
ASSUME WordsAreSplit ==
    /\ \A pair \in { <<<<>>, <<>>>>, <<<<" ", "\t">>, <<>>>>,
            <<<<"'", "a", " ", "b", "'", "c", "\t", "\\", "\"">>, <<<<"a", " ", "b", "c">>, <<"\"">>>>>>,
            <<<<"\"", "\\", "$", "\\", "n", "\"">>, <<<<"$", "\\", "n">>>>>>,
            <<<<"\"", "\"", " ", " ", "s">>, <<<<>>, <<"s">>>>>> } :
         ~unterminated(pair[1]) /\ split_words(pair[1]) = pair[2]
    /\ \A text \in {<<"s", "\\">>, <<"\"", "\\">>, <<"'", "\\", "'", "'">>, <<"\"", "'">>} : unterminated(text)
=============================================================================

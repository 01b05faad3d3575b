---------------------------- MODULE MCUnitFiles ----------------------------
(***************************************************************************)
(* The unit files podup writes: exported by `generate quadlet` into a      *)
(* directory of the user's, or installed by `autostart` where the user     *)
(* manager reads them.  The two start from the same generated units        *)
(* (QuadletUnits) and never from each other's files.                       *)
(***************************************************************************)
EXTENDS QuadletExport, Autostart

VARIABLE use        \* which of the two

vars == <<use, exportVars, autostartVars>>

NoUnits ==
    /\ generated = <<>> /\ disk = <<>> /\ enabled = {} /\ active = {}
    /\ proc = [c \in Commands |-> Idle]
    /\ last = [c \in Commands |-> "none"]
    /\ broken = {} /\ contended = {} /\ ran = 0 /\ faults = 0

Init ==
    /\ ExportInit
    /\ \/ use = "export" /\ NoUnits
       \/ use = "autostart" /\ AutostartInit

Next ==
    /\ \/ use = "export" /\ ExportNext /\ UNCHANGED autostartVars
       \/ use = "autostart" /\ AutostartNext /\ UNCHANGED exportVars
    /\ UNCHANGED use

Spec == Init /\ [][Next]_vars

-----------------------------------------------------------------------------
(* Project a and project a-update: each one's unit names are also what an  *)
(* older release called the other's auto-update pair, and a prefix of the  *)
(* other's.  What is exported are the expressions of one field in one      *)
(* schedule, and small sets of jobs that depend on each other.             *)
MCProjects == {<<"a">>, <<"a", "update">>}
MCSanitized == [w \in {"we/b"} |-> "we_b"]

Item(range, step) == [range |-> range, step |-> step]
N(n) == <<"num", n>>
None == <<"none">>
Span(low, high) == <<Item(<<low, high>>, None)>>
Steps(low, high, n) == <<Item(<<low, high>>, N(n))>>
Every(n) == <<Item(<<<<"*">>>>, N(n))>>

MinuteTexts == <<Star, Value(0), Value(59), Value(60), Every(7), Every(15), Every(1), Every(60),
                 Span(N(5), N(9)), Span(N(9), N(5)), Steps(N(10), N(50), 10),
                 Steps(N(10), N(59), 7), Value(5) \o Value(30) \o Span(N(31), N(32)),
                 Value(0) \o Value(2) \o Value(4)>>
HourTexts == <<Value(3), Every(2), Every(23), Span(N(9), N(17)), Value(22) \o Value(23)>>
DayTexts == <<Question, Value(1), Value(31), Every(2), Steps(N(1), N(7), 2), Value(0)>>
MonthTexts == <<Value(2), <<Item(<<<<"name", 0>>, <<"name", 2>>>>, None)>>, Every(3),
                <<Item(<<<<"name", 11>>>>, None)>>, <<Item(<<<<"name", 12>>>>, None)>>>>
WeekdayTexts == <<Question, Value(0), Value(7), Span(N(1), N(5)), Span(N(5), N(7)), Every(2),
                  <<Item(<<<<"name", 0>>>>, None)>>, <<Item(<<<<"name", 6>>>>, None)>>,
                  <<Item(<<<<"bad">>>>, None)>>, Value(0) \o Value(7), Steps(N(1), N(7), 2)>>

Only(nth, texts) ==
    [i \in DOMAIN texts |-> [<<Value(0), Value(3), Star, Star, Star>> EXCEPT ![nth] = texts[i]]]

Expressions ==
    <<Only(1, MinuteTexts),
      Only(2, HourTexts) \o <<<<Value(0), Value(0), Value(13), Star, Value(5)>>>>,
      Only(3, DayTexts),
      Only(4, MonthTexts),
      Only(5, WeekdayTexts),
      <<<<"macro", "hourly">>, <<"macro", "weekly">>, <<"macro", "monthly">>,
        <<"macro", "yearly">>, <<"macro", "reboot">>>>>>

Entry(cron) == [cron |-> cron, timezone |-> "", concurrency |-> "", missed_fires |-> ""]
Daily == Entry(<<"macro", "daily">>)
Reboot == Entry(<<"macro", "reboot">>)

Svc(name, needs) ==
    [name |-> name, image |-> TRUE, build |-> "none", container |-> <<>>, needs |-> needs,
     networks |-> {}, volumes |-> {}, joins |-> <<>>]
Job(svc, schedule) == [service |-> svc, schedule |-> schedule, plainName |-> TRUE]
File(services, jobs) ==
    [pod |-> FALSE, networks |-> <<>>, volumes |-> <<>>, services |-> services, jobs |-> jobs]

W(n) == <<n>>
Web == Svc(W("web"), <<>>)

\* One job whose schedule holds the expressions of a group.
CalendarFiles ==
    {File(<<>>, <<Job(Svc(W("j"), <<>>), [i \in DOMAIN es |-> Entry(es[i])])>>) :
        es \in ToSet(Expressions)}

\* Three jobs in a chain, required or not, some without a schedule systemd can take.
Chain(r1, r2, end, clash) ==
    File(<<Web>>,
         <<Job(Svc(W("one"), W("two") :> r1), <<Daily, Reboot>>),
           Job(Svc(W("two"), W("three") :> r2), <<Daily>>),
           Job([Svc(W("three"), <<>>) EXCEPT !.container = clash], <<end>>)>>)
ChainFiles == {Chain(r1, r2, end, <<>>) : r1 \in BOOLEAN, r2 \in BOOLEAN, end \in {Daily, Reboot}}
                \cup {Chain(r1, TRUE, Daily, W("a") \o W("web")) : r1 \in BOOLEAN}

\* Whole files: the resources a service refers to, a build, a pod, a colliding name.
WholeFiles ==
    {[File(<<Web, [Svc(W("db"), W("web") :> TRUE) EXCEPT
                      !.build = b, !.networks = {W("net"), W("ext")}, !.volumes = {W("data")}]>>,
           <<Job([Svc(W("j"), <<>>) EXCEPT !.build = b], <<e>>)>>)
        EXCEPT !.pod = pod,
               !.networks = <<[name |-> W("net"), external |-> FALSE],
                              [name |-> W("ext"), external |-> TRUE]>>,
               !.volumes = <<[name |-> W("data"), external |-> FALSE]>>] :
        b \in {"none", "context"}, pod \in BOOLEAN,
        e \in {Daily, [Daily EXCEPT !.concurrency = "queue"], [Daily EXCEPT !.timezone = "Moon"],
               [Daily EXCEPT !.timezone = "UTC", !.missed_fires = "skip"]}}
    \cup {File(<<Web, Svc(W("sidecar"), <<>>)>>, <<>>),
          File(<<[Web EXCEPT !.image = FALSE]>>, <<>>),
          File(<<Svc(W("we/b"), <<>>), Svc(W("we_b"), <<>>)>>, <<>>),
          File(<<Svc(<<"update", "web">>, <<>>)>>, <<[Job(Svc(W("j"), <<>>), <<Daily>>)
                                                    EXCEPT !.plainName = FALSE]>>),
          File(<<[Web EXCEPT !.joins = W("db")], Svc(W("db"), <<>>)>>, <<>>)}

Few == {File(<<Web>>, <<>>), Chain(TRUE, TRUE, Daily, <<>>)}
MCComposeFiles ==
    (<<"a">> :> (CalendarFiles \cup ChainFiles \cup WholeFiles)) @@ (<<"a", "update">> :> Few)
MCEntries ==
    UNION {UNION {ToSet(j.schedule) : j \in ToSet(f.jobs)} : f \in MCComposeFiles[<<"a">>]}

Kept(name, build) == [Svc(name, <<>>) EXCEPT !.build = build]
Stack(pod, services) == [File(services, <<>>) EXCEPT !.pod = pod]

\* What is installed: the stacks lose and gain services between two installs, and a's
\* update-web is a-update's web.
MCStacks ==
    [plain |-> Stack(FALSE, <<Kept(W("web"), "none"), Kept(W("db"), "none")>>),
     built |-> Stack(FALSE, <<Kept(W("web"), "context"), Kept(<<"update", "web">>, "none")>>),
     pod   |-> Stack(TRUE, <<Kept(W("web"), "none")>>)]
=============================================================================

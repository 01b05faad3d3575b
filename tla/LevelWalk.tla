----------------------------- MODULE LevelWalk -----------------------------
(***************************************************************************)
(* The commands that walk the dependency levels of a project and act on    *)
(* the containers it has: start, stop, restart, kill, pause, unpause, rm,  *)
(* rm --force and the container half of down                               *)
(* (lifecycle/commands, lifecycle/down, lifecycle/execution/parallel).     *)
(*                                                                         *)
(* A level's units run concurrently, at most Limit at a time: one per      *)
(* service, which takes its containers one after the other, or, for down,  *)
(* one per container.  Each container gets a request; Podman carries it    *)
(* out and answers, or the answer is lost, late or an error, with the      *)
(* request carried out, still under way, still to come, or never received. *)
(* A lost answer is decided by the container's state (drop_recheck.rs).    *)
(* Meanwhile containers exit and other clients act on them.                *)
(***************************************************************************)
EXTENDS Naturals, FiniteSets

CONSTANTS
    Service,
    Container,
    ServiceOf,  \* the service each container belongs to
    OneOff,     \* the containers that `run` created
    Files,      \* the files
    Commands,   \* the commands that are run
    Targets,    \* the services they are given, none for all
    Starts,     \* the states the containers are found in
    Limit,      \* MAX_LIFECYCLE_CONCURRENCY
    Shared      \* the containers others act on as well

Ops == {"start", "stop", "kill", "restart", "pause", "unpause", "rm", "rmforce"}
States == {"running", "paused", "stopping", "restarting", "exited", "gone"}

\* A file: whom each service needs, those it restarts with, and its level; the
\* services with pre_stop hooks that may never end; and whether the command was
\* told to wait indefinitely (-t -1).
FileType ==
    [deps : [Service -> SUBSET Service], restart : [Service -> SUBSET Service],
     level : [Service -> 0 .. Cardinality(Service) - 1],
     hooks : SUBSET Service, patient : BOOLEAN]

ASSUME ContainersAssumption ==
    /\ ServiceOf \in [Container -> Service] /\ OneOff \subseteq Container
    /\ IsFiniteSet(Service) /\ IsFiniteSet(Container)
    /\ Starts \subseteq [Container -> {"running", "paused", "exited", "gone"}]
ASSUME CommandsAssumption ==
    Commands \subseteq Ops \cup {"down"} /\ Targets \subseteq SUBSET Service
ASSUME LimitAssumption == Limit \in Nat \ {0} /\ Shared \subseteq Container
\* resolve_levels puts every service above those it needs.
ASSUME FilesAssumption ==
    /\ Files \subseteq FileType
    /\ \A f \in Files : \A s \in Service : \A d \in f.deps[s] : f.level[d] < f.level[s]

VARIABLES
    \* Podman
    st,      \* the state of each container
    req,     \* the requests it has not dealt with yet
    \* the command
    cmd, file, targets,
    live,    \* those of the containers listed when it began that it acts on
    pos,     \* the level it is at, counted in the direction of the walk
    pc,      \* per container: todo, the request under way, recheck or done
    reply,   \* the answer Podman has for that request
    res,     \* what came out: acted, idle or err
    outcome,
    \* history
    did,     \* a request of the command changed the container
    meddled  \* it exited by itself, or another client acted on it

podman == <<st, req, did, meddled>>
fixed  == <<cmd, file, targets, live>>
vars   == <<podman, fixed, pos, pc, reply, res, outcome>>

FlagsOK == did \in [Container -> BOOLEAN] /\ meddled \in [Container -> BOOLEAN]
TypeOK ==
    /\ st \in [Container -> States] /\ req \in [Container -> SUBSET Ops]
    /\ cmd \in Commands /\ file \in Files /\ targets \in Targets \cup {{}} /\ live \subseteq Container
    /\ pos \in 0 .. Cardinality(Service)
    /\ pc \in [Container -> {"todo", "recheck", "done"} \cup Ops]
    /\ reply \in [Container -> {"none", "ok", "conflict", "gone", "error"}]
    /\ res \in [Container -> {"none", "acted", "idle", "err"}]
    /\ outcome \in {"none", "ok", "err"} /\ FlagsOK
-----------------------------------------------------------------------------
Halting  == {"stop", "kill"}           \* they end at the first level that failed
Reversed == {"stop", "rm", "rmforce", "down"}

\* The level of a service, counted in the direction of the walk.
Rank(s) ==
    IF cmd \in Reversed THEN Cardinality(Service) - 1 - file.level[s] ELSE file.level[s]

\* With a restart condition on a target, a dependent restarts as well.
restart_service_set ==
    targets \cup {s \in Service : file.restart[s] \cap targets # {}}

Scope ==
    IF targets = {} THEN Service
    ELSE IF cmd = "restart" THEN restart_service_set ELSE targets

AtLevel(n) == {c \in live : Rank(ServiceOf[c]) = n}

Unit(c) == IF cmd = "down" THEN {c} ELSE {d \in live : ServiceOf[d] = ServiceOf[c]}
Started(c) == \E d \in Unit(c) : pc[d] # "todo"
Busy(c)    == \E d \in Unit(c) : pc[d] \notin {"todo", "done"}
Units == {Unit(c) : c \in {d \in AtLevel(pos) : Started(d) /\ \E e \in Unit(d) : pc[e] # "done"}}

\* LifecycleGoal: what proves that an operation landed.
Reached(s) ==
    \/ cmd \in {"start", "restart"} /\ s = "running"
    \/ cmd \in {"stop", "kill"} /\ s # "running"
    \/ cmd = "down" /\ s = "gone"
\* The requests whose lost answer is decided by the container's state.
Rechecked(c) ==
    \/ cmd \in {"start", "restart", "stop", "kill"} /\ pc[c] = cmd
    \/ cmd = "down" /\ pc[c] = "rmforce"
Init ==
    /\ st \in Starts
    /\ req = [c \in Container |-> {}]
    /\ cmd \in Commands /\ file \in Files
    /\ targets \in (IF cmd = "down" THEN {{}} ELSE Targets)
    /\ live = {c \in Container : /\ st[c] # "gone" /\ ServiceOf[c] \in Scope
                                 /\ cmd \in {"start", "restart"} => c \notin OneOff}
    /\ pos = 0 /\ outcome = "none"
    /\ pc = [c \in Container |-> "todo"] /\ reply = [c \in Container |-> "none"]
    /\ res = [c \in Container |-> "none"]
    /\ did = [c \in Container |-> FALSE] /\ meddled = did
-----------------------------------------------------------------------------
\* The walk.  A request is written, or no connection for it came in time.
Send(c, o) ==
    /\ pc' = [pc EXCEPT ![c] = o] /\ reply' = [reply EXCEPT ![c] = "none"]
    /\ \E sent \in {{}, {o}} : req' = [req EXCEPT ![c] = @ \cup sent]
    /\ UNCHANGED <<res, st, did, meddled>>

Finish(c, r) ==
    /\ pc' = [pc EXCEPT ![c] = "done"] /\ res' = [res EXCEPT ![c] = r]
    /\ reply' = [reply EXCEPT ![c] = "none"] /\ UNCHANGED podman

Now(c) ==
    /\ outcome = "none" /\ c \in live /\ Rank(ServiceOf[c]) = pos
    /\ UNCHANGED <<fixed, pos, outcome>>

Take(c) ==
    /\ pc[c] = "todo" /\ ~Busy(c)
    /\ Started(c) \/ Cardinality(Units) < Limit
    /\ Send(c, IF cmd = "down" THEN "stop" ELSE cmd)

\* down: whatever became of the stop, the container is removed next.
Stopping(c) == cmd = "down" /\ pc[c] = "stop"
Remove(c) == Stopping(c) /\ Send(c, "rmforce")

Waiting(c) == pc[c] \in Ops /\ ~Stopping(c)

\* 304, already in that state, is an acknowledgement like any other.
Acknowledged(c) ==
    /\ Waiting(c) /\ reply[c] = "ok"
    /\ pc[c] \in {"stop", "restart"} => st[c] \notin {"stopping", "restarting"}
    /\ Finish(c, "acted")
\* No such container, or a conflict that the command takes for a no-op.
Skipped(c) ==
    /\ Waiting(c)
    /\ reply[c] \in {"gone", "conflict"} /\ Finish(c, "idle")
RefusedQuietly(c) == \* fault for a mutant: a refusal passes for a no-op
    /\ Waiting(c) /\ reply[c] = "error" /\ Finish(c, "idle")
Refused(c) ==
    /\ Waiting(c)
    /\ reply[c] = "error" /\ Finish(c, "err")

\* The connection broke before the answer was complete.
Lost(c) ==
    /\ Waiting(c) /\ Rechecked(c)
    /\ pc' = [pc EXCEPT ![c] = "recheck"] /\ reply' = [reply EXCEPT ![c] = "none"]
    /\ UNCHANGED <<podman, res>>

\* Faults for the mutants: the state is not looked at; the request is sent
\* again until the state is right.
confirm_blindly(c) == pc[c] = "recheck" /\ Finish(c, "acted")
confirm_or_retry(c) ==
    /\ pc[c] = "recheck"
    /\ IF Reached(st[c]) THEN Finish(c, "acted") ELSE Send(c, IF cmd = "down" THEN "rmforce" ELSE cmd)

confirm_lost_response(c) ==
    /\ pc[c] = "recheck"
    /\ IF Reached(st[c]) THEN Finish(c, "acted") ELSE Finish(c, "err")

\* A deadline passed: of the stop, or of the wait for a connection.
Escalate(c) ==
    /\ cmd = "stop" /\ pc[c] = "stop" /\ Send(c, "kill")

\* Any other failure: a broken body, a deadline, a listing that fails.
Broken(c) ==
    /\ (Waiting(c) \/ pc[c] = "recheck") /\ Finish(c, "err")

Errors == {c \in live : res[c] = "err"}

\* Faults for the mutants: the next level begins when this one has been sent
\* out; only the last level's errors are reported.
LevelSent ==
    /\ outcome = "none" /\ pos < Cardinality(Service)
    /\ \A c \in AtLevel(pos) : pc[c] # "todo"
    /\ IF cmd \in Halting /\ Errors # {} THEN outcome' = "err" /\ UNCHANGED pos
       ELSE pos' = pos + 1 /\ UNCHANGED outcome
    /\ UNCHANGED <<podman, fixed, pc, reply, res>>
ReportLast ==
    /\ outcome = "none" /\ pos = Cardinality(Service)
    /\ outcome' = IF \A c \in Errors : Rank(ServiceOf[c]) < pos - 1 THEN "ok" ELSE "err"
    /\ UNCHANGED <<podman, fixed, pos, pc, reply, res>>

\* The level's units have all been joined.
LevelDone ==
    /\ outcome = "none" /\ pos < Cardinality(Service)
    /\ \A c \in AtLevel(pos) : pc[c] = "done"
    /\ IF cmd \in Halting /\ Errors # {} THEN outcome' = "err" /\ UNCHANGED pos
       ELSE pos' = pos + 1 /\ UNCHANGED outcome
    /\ UNCHANGED <<podman, fixed, pc, reply, res>>

Report ==
    /\ outcome = "none" /\ pos = Cardinality(Service)
    /\ outcome' = IF Errors = {} THEN "ok" ELSE "err"
    /\ UNCHANGED <<podman, fixed, pos, pc, reply, res>>
-----------------------------------------------------------------------------
\* Podman's part, followed until the command has failed.
\* What a request it accepts sets about: request, state found, state to come.
\* A kill may carry a signal that the container survives.
Changes ==
    {<<"start", "exited", "running">>, <<"start", "running", "running">>,
     <<"stop", "running", "stopping">>, <<"stop", "stopping", "stopping">>,
     <<"stop", "exited", "exited">>,
     <<"restart", "running", "restarting">>, <<"restart", "exited", "running">>,
     <<"pause", "running", "paused">>, <<"unpause", "paused", "running">>,
     <<"rm", "exited", "gone">>}
    \cup {<<"rmforce", s, "gone">> : s \in States}
    \cup {<<"kill", s, "stopping">> : s \in States \ {"exited"}}
    \cup (IF cmd = "kill" THEN {<<"kill", s, s>> : s \in States \ {"exited"}} ELSE {})

\* The answers it may give to request o in state s, each with the state to come.
Effect(o, s) ==
    LET accepted == {t \in States : <<o, s, t>> \in Changes} IN
    IF s = "gone" THEN {<<"gone", s>>}
    ELSE IF accepted # {} THEN {<<"ok", t>> : t \in accepted}
    ELSE {<<IF o \in {"kill", "pause", "unpause", "rm"} THEN "conflict" ELSE "error", s>>}

Deliver(c) == outcome # "err" /\ \E o \in req[c] :
    /\ req' = [req EXCEPT ![c] = @ \ {o}]
    /\ \E e \in Effect(o, st[c]) :
         /\ st' = [st EXCEPT ![c] = e[2]]
         /\ reply' = IF pc[c] = o THEN [reply EXCEPT ![c] = e[1]] ELSE reply
         /\ did' = [did EXCEPT ![c] = @ \/ e[2] # st[c]]
    /\ UNCHANGED <<meddled, fixed, pos, pc, res, outcome>>

\* A stop or the first half of a restart comes to its end.
Settle(c) ==
    /\ outcome # "err" /\ st[c] \in {"stopping", "restarting"}
    /\ st' = [st EXCEPT ![c] = IF @ = "restarting" THEN "running" ELSE "exited"]
    /\ UNCHANGED <<req, did, meddled, fixed, pos, pc, reply, res, outcome>>

\* A shared container exits, or another client acts on it, once while the
\* command runs.
Meddle(c) ==
    /\ outcome = "none" /\ c \in Shared /\ ~meddled[c]
    /\ meddled' = [meddled EXCEPT ![c] = TRUE]
    /\ \E s \in {IF st[c] = "running" THEN "exited" ELSE "running", "gone"} : st' = [st EXCEPT ![c] = s]
    /\ UNCHANGED <<req, did, fixed, pos, pc, reply, res, outcome>>

Walk(c) ==
    /\ Now(c)
    /\ \/ Take(c) \/ Remove(c) \/ Acknowledged(c) \/ Skipped(c) \/ Refused(c)
       \/ Lost(c) \/ confirm_lost_response(c) \/ Escalate(c) \/ Broken(c)

Command == (\E c \in Container : Walk(c)) \/ LevelDone \/ Report
Environment == \E c \in Container : Deliver(c) \/ Settle(c) \/ Meddle(c)

Next == Command \/ Environment \/ (outcome # "none" /\ UNCHANGED vars)

Spec == Init /\ [][Next]_vars

\* What has no deadline: a stop or restart of a command that was told to wait
\* indefinitely, as long as Podman has not answered (stop_deadline,
\* restart_deadline), and the pre_stop hooks that down runs before its stop.
Uncapped(c) ==
    \/ /\ file.patient /\ pc[c] \in {"stop", "restart"}
       /\ reply[c] = "none" \/ (reply[c] = "ok" /\ st[c] \in {"stopping", "restarting"})
    \/ /\ cmd = "down" /\ ServiceOf[c] \in file.hooks
       /\ pc[c] = "todo" /\ Rank(ServiceOf[c]) = pos

\* Every other request has a deadline, and the command's future is polled while
\* it can move; nothing is asked of Podman.
Prompt == (\E c \in Container : ~Uncapped(c) /\ Walk(c)) \/ LevelDone \/ Report
FairSpec == Spec /\ WF_vars(Prompt)
-----------------------------------------------------------------------------
\* Dependents before dependencies when stopping and removing, dependencies
\* first otherwise: a container is contacted only when those of the services
\* on the other side have been dealt with, and for stop and kill, without error.
Before(s, t) == IF cmd \in Reversed THEN t \in file.deps[s] ELSE s \in file.deps[t]
WalkOrder ==
    \A c, d \in live : Before(ServiceOf[d], ServiceOf[c]) /\ pc[c] # "todo" =>
        pc[d] = "done" /\ (cmd \in Halting => res[d] # "err")

\* What a command that succeeded leaves, container by container, when nobody
\* else acted: also when answers were lost or late, and with requests that
\* Podman is still to carry out.
Good(s) ==
    /\ cmd = "start" => s = "running"
    /\ cmd = "restart" => s \in {"running", "restarting"}
    /\ cmd \in {"stop", "pause"} => s # "running"
    /\ cmd = "unpause" => s # "paused"
    /\ cmd = "rm" => s \in {"gone", "running", "paused"}
    /\ cmd \in {"rmforce", "down"} => s = "gone"
Delivered == outcome = "ok" => \A c \in live : ~meddled[c] => Good(st[c])

\* One failure leaves the rest neither undone nor unreported: every container
\* has been tried at the end, but for the levels after a failed one in stop and
\* kill, and the command fails exactly when one of them did.
NothingDropped ==
    outcome # "none" =>
        /\ (outcome = "err") <=> Errors # {}
        /\ outcome = "ok" \/ cmd \notin Halting => \A c \in live : pc[c] = "done"

\* The command ends, whatever is lost or late, unless it stays for ever with a
\* stop or restart that is not answered, having been told to wait indefinitely,
\* or with a pre_stop hook that never ends.
Terminates == <>(outcome # "none") \/ <>[](\E c \in live : Uncapped(c))

\* What they rest on.
Progress ==
    /\ \A c \in Container : pc[c] = "done" <=> res[c] # "none"
    /\ \A c \in live :
         /\ Rank(ServiceOf[c]) < pos => pc[c] = "done" /\ (cmd \in Halting => res[c] # "err")
         /\ Rank(ServiceOf[c]) > pos => pc[c] = "todo"
    /\ outcome = "ok" => pos = Cardinality(Service) /\ Errors = {}
    /\ outcome = "err" => Errors # {} /\ (pos = Cardinality(Service) \/ cmd \in Halting)

Own ==
    IF cmd = "down" THEN {"stop", "rmforce"}
    ELSE IF cmd = "stop" THEN {"stop", "kill"} ELSE {cmd}
Requests ==
    \A c \in Container : req[c] \subseteq Own /\ pc[c] \in {"todo", "recheck", "done"} \cup Own

Plausible ==
    \A c \in live : ~meddled[c] =>
        /\ st[c] = "gone" => cmd \in {"rm", "rmforce", "down"}
        /\ st[c] = "restarting" => cmd = "restart"
        /\ cmd = "rm" => st[c] # "stopping"
Answers ==
    \A c \in live : ~meddled[c] =>
        /\ Waiting(c) /\ reply[c] \in {"ok", "gone", "conflict"} => Good(st[c])
        /\ res[c] \in {"acted", "idle"} => Good(st[c])

IInv == TypeOK /\ Progress /\ Requests /\ Plausible /\ Answers
-----------------------------------------------------------------------------
\* drop_recheck.rs: "Deciding whether an operation whose response was dropped
\* actually landed"; "reporting success without one is the failure this exists
\* to prevent".
LandedWhenConfirmed == \A c \in live : res[c] = "acted" => did[c] \/ meddled[c]

\* stop.rs: "Report "stopped" solely for containers actually running/paused:
\* stopping a Created/Exited one is a harmless no-op and must not claim it
\* stopped".
StoppedMeansStopped ==
    [][\A c \in live : reply[c] = "ok" /\ res'[c] = "acted" => did[c] \/ meddled[c]]_vars

\* stop.rs: "stop did not complete within the grace window; escalating to
\* SIGKILL".
KilledAfterStop ==
    \A c \in live : cmd = "stop" /\ pc[c] = "kill" /\ st[c] = "running" =>
        did[c] \/ meddled[c] \/ "stop" \in req[c]
-----------------------------------------------------------------------------
\* The levels of a file (parsing/compose/resolve/order.rs) and the dependencies
\* they follow (resolve/dependencies.rs).

\* The dependencies that count: those written down, of which an optional one
\* may be missing from the file, and one for every service referred to
\* (volumes_from, links and the service: namespaces), when it is in the file.
effective_depends_on(services, written, referred) ==
    [s \in services |-> (written[s] \cup referred[s]) \cap services]

\* Kahn's algorithm in layers: what has been placed after n rounds.
Placed(services, deps) ==
    LET after[n \in 0 .. Cardinality(services)] ==
          IF n = 0 THEN {} ELSE {s \in services : deps[s] \subseteq after[n - 1]}
    IN  after

\* With a cycle some service is never placed, and the file is refused.
CircularDependency(services, deps) == Placed(services, deps)[Cardinality(services)] # services

\* The round in which each service was placed.
resolve_levels(services, deps) ==
    LET after == Placed(services, deps) IN
    [s \in services |->
        CHOOSE n \in 0 .. Cardinality(services) - 1 : s \in after[n + 1] \ after[n]]
=============================================================================

-------------------------- MODULE DependencyOrder --------------------------
(***************************************************************************)
(* What `podup up` promises about the order in which services start,       *)
(* whatever the scheduling: a service begins only once every dependency    *)
(* that takes part in the run is up, or was given up and is optional to    *)
(* it; only a service nobody needs may be given up; and the command        *)
(* succeeds only when every service is up or given up that way.            *)
(***************************************************************************)
CONSTANTS Service

VARIABLES
    scheduled, \* the services of this run, fixed
    needs,     \* needs[s]: the dependencies s cannot do without, fixed
    wants,     \* wants[s]: all the dependencies of s in this run, fixed
    named,     \* the services the user named, fixed
    state,     \* waiting, starting, up or given_up
    verdict    \* running, ok or failed

ovars == <<scheduled, needs, wants, named, state, verdict>>
frozen == <<scheduled, needs, wants, named>>

OInit ==
    /\ scheduled \subseteq Service /\ named \subseteq Service
    /\ needs \in [Service -> SUBSET Service] /\ wants \in [Service -> SUBSET Service]
    /\ state = [s \in Service |-> "waiting"]
    /\ verdict = "running"

Begin(s) ==
    /\ verdict = "running" /\ s \in scheduled /\ state[s] = "waiting"
    /\ \A d \in wants[s] : state[d] = "up" \/ (state[d] = "given_up" /\ d \notin needs[s])
    /\ state' = [state EXCEPT ![s] = "starting"]
    /\ UNCHANGED <<frozen, verdict>>

Complete(s) ==
    /\ verdict = "running" /\ state[s] = "starting"
    /\ state' = [state EXCEPT ![s] = "up"]
    /\ UNCHANGED <<frozen, verdict>>

GiveUp(s) ==
    /\ verdict = "running" /\ s \in scheduled \ named /\ state[s] = "starting"
    /\ \E t \in scheduled : s \in wants[t]
    /\ \A t \in scheduled : s \notin needs[t]
    /\ state' = [state EXCEPT ![s] = "given_up"]
    /\ UNCHANGED <<frozen, verdict>>

\* The first failure that matters ends the run.
Abort ==
    /\ verdict = "running" /\ verdict' = "failed"
    /\ UNCHANGED <<frozen, state>>

Succeed ==
    /\ verdict = "running"
    /\ \A s \in scheduled : state[s] \in {"up", "given_up"}
    /\ verdict' = "ok"
    /\ UNCHANGED <<frozen, state>>

ONext ==
    \/ \E s \in Service : Begin(s) \/ Complete(s) \/ GiveUp(s)
    \/ Abort \/ Succeed

OSpec == OInit /\ [][ONext]_ovars
=============================================================================

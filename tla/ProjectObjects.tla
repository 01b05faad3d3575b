---------------------------- MODULE ProjectObjects ----------------------------
(***************************************************************************)
(* What a project owns on the host besides its containers: networks,       *)
(* volumes, secrets and a pod (backends/engine/objects, workload/pod,      *)
(* lifecycle/up/mod.rs, lifecycle/down).  A compose file may name an       *)
(* object outright, so two projects can mean the same one; the only        *)
(* evidence of who owns it is its podup.project label.                     *)
(*                                                                         *)
(* Commands of one project exclude each other through its lock, commands   *)
(* of different projects do not, and anybody may use podman by hand.  One  *)
(* action is one request to Podman.                                        *)
(***************************************************************************)
EXTENDS Naturals

CONSTANTS Projects,
          Objects,      \* names of networks, volumes, secrets and pods
          Kind,         \* what each of them is
          FilesOf,      \* the compose files a project may be run with
          VerbsOf,      \* the commands it is used with
          Unlabelled, Absent,   \* owners, besides the projects
          Unseen, Taken,       \* history: not looked at, or removed by others since
          MaxRuns,      \* bound: commands of each project
          MaxHand       \* bound: how often each object is made or removed by hand

Kinds == {"network", "volume", "secret", "pod"}

Ups == {"up", "create"}
Downs == {"down", "down -v", "label", "label -v"}   \* label: down without a compose file
ByLabel == {"label", "label -v"}
Removing == {"down -v", "label -v"}

ASSUME FileAssumption ==
  /\ Kind \in [Objects -> Kinds]
  /\ \A p \in Projects : \A f \in FilesOf[p] :
       f.own \subseteq Objects /\ f.external \subseteq Objects
  /\ \A p \in Projects : VerbsOf[p] \subseteq Ups \cup Downs

ASSUME OwnerAssumption ==
  {Unlabelled, Absent, Unseen, Taken} \cap Projects = {} /\ Unlabelled # Absent
  /\ Unseen \notin {Unlabelled, Absent, Taken} /\ Taken \notin {Unlabelled, Absent}

ASSUME BoundAssumption == MaxRuns \in [Projects -> Nat] /\ MaxHand \in [Objects -> Nat]

VARIABLES
  host,       \* the owner of each object
  members,    \* do the project's containers exist
  verb,       \* the command each project is running, or ran last
  file,       \* the compose file it was given
  pc,         \* the loop it is in
  at,         \* where that loop is with each object
  existing,   \* were there containers when the command began
  err,        \* has a request of this command failed
  saw,        \* history: the owner each object had when the command looked
  lost,       \* history: its objects that others removed during the command
  hit,        \* history: what was seen of the objects of others it removed
  runs, hands

vars == <<host, members, verb, file, pc, at, existing, err, saw, lost, hit, runs, hands>>
input == <<verb, file, runs, hands>>

Owners == Projects \cup {Unlabelled, Absent}

\* The loops of each command, in the order of the code.
UpLoops == [start |-> "check", check |-> "build", build |-> "networks", networks |-> "volumes", volumes |-> "secrets",
            secrets |-> "pod", pod |-> "walk"]

DownLoops(v) ==
  LET next == IF v \in Removing THEN "rmVolumes" ELSE "listSecrets"
  IN  [start |-> "members", members |-> "rmPod", rmPod |-> "rmNetworks",
       rmNetworks |-> "listNetworks", listNetworks |-> next, sweepNetworks |-> next,
       rmVolumes |-> "listSecrets", listSecrets |-> "end", sweepSecrets |-> "end",
       rmSecrets |-> "end"]

LabelLoops(v) ==
  LET next == IF v \in Removing THEN "listVolumes" ELSE "listSecrets"
  IN  [start |-> "members", members |-> "listPods", listPods |-> "listNetworks",
       sweepPods |-> "listNetworks", listNetworks |-> next, sweepNetworks |-> next,
       listVolumes |-> "listSecrets", sweepVolumes |-> "listSecrets",
       listSecrets |-> "end", sweepSecrets |-> "end", rmSecrets |-> "end"]

Following(v, s) ==
  IF v \in Ups THEN UpLoops[s]
  ELSE IF v \in ByLabel THEN LabelLoops(v)[s] ELSE DownLoops(v)[s]

Listing == {"listPods", "listNetworks", "listVolumes", "listSecrets"}
Sweeping == {"sweepPods", "sweepNetworks", "sweepVolumes", "sweepSecrets"}
Loops == [networks |-> "network", volumes |-> "volume", secrets |-> "secret", pod |-> "pod",
          rmPod |-> "pod", rmNetworks |-> "network", rmVolumes |-> "volume", rmSecrets |-> "secret"]

Stages == {"idle", "killed", "ok", "failed", "check", "build", "members", "walk"} \cup Listing \cup Sweeping \cup DOMAIN Loops
Quiet == {"idle", "killed", "ok", "failed"}

\* What a down by label goes by.
NoFile == [own |-> {}, external |-> {}]

Nothing == [o \in Objects |-> "none"]

\* The objects a loop goes through: those of its kind the file declares as its
\* own, and on the way up the external ones, which must merely exist.
Declared(f, s) ==
  IF s \notin DOMAIN Loops THEN {}
  ELSE {o \in f.own : Kind[o] = Loops[s]}
       \cup (IF s \in {"networks", "volumes"} THEN {o \in f.external : Kind[o] = Loops[s]} ELSE {})

Queue(f, s) == [o \in Objects |-> IF o \in Declared(f, s) THEN "todo" ELSE "none"]

Init ==
  /\ host = [o \in Objects |-> Absent]
  /\ members = [p \in Projects |-> FALSE]
  /\ verb = [p \in Projects |-> "up"]
  /\ file = [p \in Projects |-> NoFile]
  /\ pc = [p \in Projects |-> "idle"]
  /\ at = [p \in Projects |-> Nothing]
  /\ existing = [p \in Projects |-> FALSE]
  /\ err = [p \in Projects |-> FALSE]
  /\ saw = [p \in Projects |-> [o \in Objects |-> Unseen]]
  /\ lost = [p \in Projects |-> {}]
  /\ hit = [p \in Projects |-> {}]
  /\ runs = [p \in Projects |-> 0]
  /\ hands = [o \in Objects |-> 0]

(***************************************************************************)
(* Moving between loops.                                                   *)
(***************************************************************************)

\* A command begins: its project's other commands have ended.
Begin(p, v, f) ==
  /\ pc[p] \in Quiet
  /\ runs[p] < MaxRuns[p]
  /\ v \in ByLabel => f = NoFile
  /\ runs' = [runs EXCEPT ![p] = @ + 1]
  /\ verb' = [verb EXCEPT ![p] = v]
  /\ file' = [file EXCEPT ![p] = f]
  /\ pc' = [pc EXCEPT ![p] = Following(v, "start")]
  /\ at' = [at EXCEPT ![p] = Queue(f, Following(v, "start"))]
  /\ existing' = [existing EXCEPT ![p] = FALSE]
  /\ err' = [err EXCEPT ![p] = FALSE]
  /\ saw' = [saw EXCEPT ![p] = [o \in Objects |-> Unseen]]
  /\ lost' = [lost EXCEPT ![p] = {}]
  /\ hit' = [hit EXCEPT ![p] = {}]
  /\ UNCHANGED <<host, members, hands>>

\* The command ends, now, with this result.
End(p, result) ==
  /\ pc' = [pc EXCEPT ![p] = result]
  /\ at' = [at EXCEPT ![p] = Nothing]

\* On to the next loop of the command.
Proceed(p, s, failed) ==
  LET next == Following(verb[p], s)
  IN  IF next = "end" THEN End(p, IF failed THEN "failed" ELSE "ok")
      ELSE /\ pc' = [pc EXCEPT ![p] = next]
           /\ at' = [at EXCEPT ![p] = Queue(file[p], next)]

Working == DOMAIN Loops \cup Sweeping

\* A loop is through.  Of the loops on the way up, only that of the secrets
\* gets here with an error: every secret of it is attempted.
Advance(p) ==
  /\ pc[p] \in Working
  /\ at[p] = Nothing
  /\ IF verb[p] \in Ups /\ err[p] THEN End(p, "failed") ELSE Proceed(p, pc[p], err[p])
  /\ UNCHANGED <<host, members, input, existing, err, saw, lost, hit>>

\* In every loop but that of the secrets on the way up, one object at a time.
MayStart(p, o) ==
  /\ at[p][o] = "todo"
  /\ pc[p] = "secrets" \/ \A x \in Objects : at[p][x] \in {"none", "todo"}

Move(p, o, s) == at' = [at EXCEPT ![p][o] = s]

FailedQuietly(p, o) == Move(p, o, "none") /\ UNCHANGED <<pc, err>>

\* A request about object o failed.  A loop on the way down remembers it and
\* goes on with its other objects, and so does that of the secrets on the way
\* up; every other loop ends the command.
Failed(p, o) ==
  /\ err' = [err EXCEPT ![p] = TRUE]
  /\ IF verb[p] \in Ups /\ pc[p] # "secrets" THEN End(p, "failed")
     ELSE Move(p, o, "none") /\ UNCHANGED pc

Fine(p, o, s) == Move(p, o, s) /\ UNCHANGED <<pc, err>>

Look(p, o) == saw' = [saw EXCEPT ![p][o] = host[o]]

(***************************************************************************)
(* Ownership.                                                              *)
(***************************************************************************)

\* require_owned: absent will do.
require_owned(p, owner) == owner \in {p, Absent}

(***************************************************************************)
(* The way up.                                                             *)
(***************************************************************************)

\* The command stops before it has asked Podman for anything.
Reject(p) ==
  /\ pc[p] = "check"
  /\ err' = [err EXCEPT ![p] = TRUE]
  /\ End(p, "failed")
  /\ UNCHANGED <<host, members, input, existing, saw, lost, hit>>

\* A name Podman would not take, a shape a pod cannot have, a service that is
\* not in the file, a field Podman would refuse, one name for two containers.
InvalidName(p) == Reject(p)
PodRefused(p) == Reject(p)
UnknownService(p) == Reject(p)
SpecRefused(p) == Reject(p)
NameShared(p) == Reject(p)

\* The project's containers are listed, once.
Snapshot(p) ==
  /\ pc[p] = "check"
  /\ \/ /\ existing' = [existing EXCEPT ![p] = members[p]]
        /\ UNCHANGED err
        /\ Proceed(p, "check", FALSE)
     \/ err' = [err EXCEPT ![p] = TRUE] /\ End(p, "failed") /\ UNCHANGED existing
  /\ UNCHANGED <<host, members, input, saw, lost, hit>>

\* up --build: images are built before anything of the project is made.
Build(p) ==
  /\ pc[p] = "build"
  /\ \/ UNCHANGED err /\ Proceed(p, "build", FALSE)
     \/ err' = [err EXCEPT ![p] = TRUE] /\ End(p, "failed")
  /\ UNCHANGED <<host, members, input, existing, saw, lost, hit>>

\* A source that cannot be read, or is too large, fails all the secrets at once.
UnreadableSecret(p) ==
  /\ pc[p] = "secrets"
  /\ at[p] = Queue(file[p], "secrets") /\ at[p] # Nothing
  /\ err' = [err EXCEPT ![p] = TRUE]
  /\ End(p, "failed")
  /\ UNCHANGED <<host, members, input, existing, saw, lost, hit>>

\* ensure_external_exists, whoever owns it.
EnsureExternal(p, o) ==
  /\ pc[p] \in {"networks", "volumes"}
  /\ MayStart(p, o)
  /\ o \in file[p].external
  /\ \/ host[o] # Absent /\ Fine(p, o, "none")
     \/ Failed(p, o)
  /\ UNCHANGED <<host, members, input, existing, saw, lost, hit>>

\* A create that Podman carries out, with an answer or without.
Created(p, o) ==
  /\ host[o] = Absent
  /\ host' = [host EXCEPT ![o] = p]
  /\ Fine(p, o, "none") \/ Failed(p, o)

\* POST create: done, already there, or failed.
Create(p, o) ==
  /\ MayStart(p, o)
  /\ o \notin file[p].external
  /\ \/ Created(p, o)
     \/ host[o] # Absent /\ Fine(p, o, "conflict") /\ UNCHANGED host
     \/ Failed(p, o) /\ UNCHANGED host
  /\ UNCHANGED <<members, input, existing, saw, lost, hit>>

CreateNetwork(p, o) == pc[p] = "networks" /\ Create(p, o)

CreateVolume(p, o) == pc[p] = "volumes" /\ Create(p, o)

\* It was there already: whose is it?
Conflict(p, o, accepted) ==
  /\ at[p][o] = "conflict"
  /\ Look(p, o)
  /\ \/ accepted /\ Fine(p, o, "none")
     \/ Failed(p, o)
  /\ UNCHANGED <<host, members, input, existing, lost, hit>>

\* A network must be the project's own; a volume may have gone again.
NetworkConflict(p, o) == pc[p] = "networks" /\ Conflict(p, o, host[o] = p)

VolumeConflict(p, o) == pc[p] = "volumes" /\ Conflict(p, o, require_owned(p, host[o]))

\* create_secret: look, delete what is ours, create.
InspectSecret(p, o) ==
  /\ pc[p] = "secrets"
  /\ MayStart(p, o)
  /\ Look(p, o)
  /\ \/ host[o] = p /\ Fine(p, o, "delete")
     \/ host[o] = Absent /\ Fine(p, o, "create")
     \/ Failed(p, o)
  /\ UNCHANGED <<host, members, input, existing, lost, hit>>

\* ensure_pod: ours with the hash we would give it stays, ours with another
\* hash is recreated, and anybody else's is refused.
InspectPod(p, o) ==
  /\ pc[p] = "pod"
  /\ MayStart(p, o)
  /\ Look(p, o)
  /\ \/ host[o] = p /\ (Fine(p, o, "none") \/ Fine(p, o, "delete"))
     \/ host[o] = Absent /\ Fine(p, o, "create")
     \/ Failed(p, o)
  /\ UNCHANGED <<host, members, input, existing, lost, hit>>

KeepsList(p, o) == existing[p]

\* The list of containers the command began with, unless the pod took them all.
ListAfter(p, o) == existing[p] /\ ~(Kind[o] = "pod" /\ at[p][o] = "recreate")

\* POST create of a secret or a pod whose name was, or was made, free.
CreateAfterLook(p, o) ==
  /\ at[p][o] \in {"create", "recreate"}
  /\ \/ Created(p, o)
     \/ Failed(p, o) /\ UNCHANGED host
  /\ existing' = [existing EXCEPT ![p] = ListAfter(p, o)]
  /\ UNCHANGED <<members, input, saw, lost, hit>>

\* The walk over the services (UpScheduler, ReplicaLifecycle): what is listed
\* is kept or replaced, what is not is created.  Starting a container that is
\* gone fails; create does not try.
Walk(p) ==
  /\ pc[p] = "walk"
  /\ \/ /\ existing[p] /\ (members[p] \/ verb[p] = "create")
        /\ UNCHANGED <<members, err>>
        /\ End(p, "ok")
     \/ /\ members' = [members EXCEPT ![p] = TRUE]
        /\ UNCHANGED err
        /\ End(p, "ok")
     \/ /\ members' \in {members, [members EXCEPT ![p] = TRUE]}
        /\ err' = [err EXCEPT ![p] = TRUE]
        /\ End(p, "failed")
  /\ UNCHANGED <<host, input, existing, saw, lost, hit>>

(***************************************************************************)
(* The way down.                                                           *)
(***************************************************************************)

\* The containers (LevelWalk).
RemoveMembers(p) ==
  /\ pc[p] = "members"
  /\ \/ members' = [members EXCEPT ![p] = FALSE] /\ UNCHANGED err
     \/ UNCHANGED members /\ err' = [err EXCEPT ![p] = TRUE]
  /\ Proceed(p, "members", err'[p])
  /\ UNCHANGED <<host, input, existing, saw, lost, hit>>

\* Whose is the object the file declares?
Check(p, o, outcome) ==
  /\ MayStart(p, o)
  /\ Look(p, o)
  /\ outcome \/ Failed(p, o)
  /\ UNCHANGED <<host, members, input, existing, lost, hit>>

\* remove_pod: nothing more for an absent one, and another's is refused.
CheckPod(p, o) ==
  /\ pc[p] = "rmPod"
  /\ Check(p, o, IF host[o] = Absent THEN Fine(p, o, "none")
                 ELSE require_owned(p, host[o]) /\ Fine(p, o, "delete"))

DeleteUnchecked(p, o) == pc[p] = "rmVolumes" /\ Check(p, o, Fine(p, o, "delete"))

\* The name of a network or a volume that is absent is deleted all the same.
CheckNetwork(p, o) ==
  pc[p] = "rmNetworks" /\ Check(p, o, require_owned(p, host[o]) /\ Fine(p, o, "delete"))

CheckVolume(p, o) ==
  pc[p] = "rmVolumes" /\ Check(p, o, require_owned(p, host[o]) /\ Fine(p, o, "delete"))

\* delete_secret: another's is left alone without an error.
CheckSecret(p, o) ==
  /\ pc[p] = "rmSecrets"
  /\ Check(p, o, Fine(p, o, IF host[o] = p THEN "delete" ELSE "none"))

\* A sweep lists what carries the project's label, to delete it by name.
Listed(p, kind, sweep) ==
  LET mine == {o \in Objects : Kind[o] = kind /\ host[o] = p}
  IN  /\ pc' = [pc EXCEPT ![p] = sweep]
      /\ at' = [at EXCEPT ![p] = [o \in Objects |-> IF o \in mine THEN "delete" ELSE "none"]]
      /\ saw' = [saw EXCEPT ![p] = [o \in Objects |-> IF o \in mine THEN p ELSE @[o]]]
      /\ UNCHANGED err

\* A list that fails is an error, and the next loop begins.
NotListed(p) ==
  /\ err' = [err EXCEPT ![p] = TRUE]
  /\ UNCHANGED saw
  /\ Proceed(p, pc[p], TRUE)

ListPods(p) == pc[p] = "listPods" /\ (Listed(p, "pod", "sweepPods") \/ NotListed(p))

ListNetworks(p) ==
  pc[p] = "listNetworks" /\ (Listed(p, "network", "sweepNetworks") \/ NotListed(p))

ListVolumes(p) == pc[p] = "listVolumes" /\ (Listed(p, "volume", "sweepVolumes") \/ NotListed(p))

\* Without a list the secrets the file declares are checked one by one.
ListSecrets(p) ==
  /\ pc[p] = "listSecrets"
  /\ \/ Listed(p, "secret", "sweepSecrets")
     \/ /\ err' = [err EXCEPT ![p] = TRUE]
        /\ pc' = [pc EXCEPT ![p] = "rmSecrets"]
        /\ at' = [at EXCEPT ![p] = Queue(file[p], "rmSecrets")]
        /\ UNCHANGED saw

List(p) ==
  /\ ListPods(p) \/ ListNetworks(p) \/ ListVolumes(p) \/ ListSecrets(p)
  /\ UNCHANGED <<host, members, input, existing, lost, hit>>

(***************************************************************************)
(* Deletes, up and down.                                                   *)
(***************************************************************************)

\* What becomes of an object of the loop whose delete was answered.
AfterDelete(p, o) == Fine(p, o, IF verb[p] \in Ups THEN "recreate" ELSE "none")

\* DELETE by name, whoever owns it by now: carried out, refused, or carried
\* out without an answer.  A pod takes its containers with it.
Delete(p, o) ==
  /\ at[p][o] = "delete"
  /\ \/ /\ host' = [host EXCEPT ![o] = Absent]
        /\ members' = [q \in Projects |-> members[q] /\ ~(Kind[o] = "pod" /\ host[o] = q)]
        /\ hit' = [hit EXCEPT ![p] = IF host[o] \in {p, Absent} THEN @ ELSE @ \cup {saw[p][o]}]
        /\ lost' = [q \in Projects |-> IF host[o] = q /\ q # p THEN lost[q] \cup {o} ELSE lost[q]]
        /\ saw' = [q \in Projects |-> IF host[o] = q /\ q # p THEN [saw[q] EXCEPT ![o] = Taken] ELSE saw[q]]
        /\ AfterDelete(p, o) \/ Failed(p, o)
     \/ Failed(p, o) /\ UNCHANGED <<host, members, hit, lost, saw>>
  /\ UNCHANGED <<input, existing>>

DeleteStalePod(p, o) == pc[p] = "pod" /\ Delete(p, o)
DeleteStaleSecret(p, o) == pc[p] = "secrets" /\ Delete(p, o)
DeletePod(p, o) == pc[p] = "rmPod" /\ Delete(p, o)
DeleteNetwork(p, o) == pc[p] = "rmNetworks" /\ Delete(p, o)
DeleteVolume(p, o) == pc[p] = "rmVolumes" /\ Delete(p, o)
DeleteSecret(p, o) == pc[p] = "rmSecrets" /\ Delete(p, o)
SweepPod(p, o) == pc[p] = "sweepPods" /\ Delete(p, o)
SweepNetwork(p, o) == pc[p] = "sweepNetworks" /\ Delete(p, o)
SweepVolume(p, o) == pc[p] = "sweepVolumes" /\ Delete(p, o)
SweepSecret(p, o) == pc[p] = "sweepSecrets" /\ Delete(p, o)

(***************************************************************************)
(* Everything else on the host.                                            *)
(***************************************************************************)

\* A podup process is killed.
Kill(p) ==
  /\ pc[p] \notin Quiet
  /\ End(p, "killed")
  /\ UNCHANGED <<host, members, input, existing, err, saw, lost, hit>>

\* podman used by hand: an object appears without a label, or one goes.
MakeByHand(o) ==
  /\ hands[o] < MaxHand[o]
  /\ host[o] = Absent
  /\ host' = [host EXCEPT ![o] = Unlabelled]
  /\ hands' = [hands EXCEPT ![o] = @ + 1]
  /\ UNCHANGED <<members, verb, file, pc, at, existing, err, saw, lost, hit, runs>>

RemoveByHand(o) ==
  /\ hands[o] < MaxHand[o]
  /\ host[o] # Absent
  /\ host' = [host EXCEPT ![o] = Absent]
  /\ members' = [q \in Projects |-> members[q] /\ ~(Kind[o] = "pod" /\ host[o] = q)]
  /\ lost' = [q \in Projects |-> IF host[o] = q THEN lost[q] \cup {o} ELSE lost[q]]
  /\ saw' = [q \in Projects |-> [saw[q] EXCEPT ![o] = Taken]]
  /\ hands' = [hands EXCEPT ![o] = @ + 1]
  /\ UNCHANGED <<verb, file, pc, at, existing, err, hit, runs>>

Up(p, o) ==
  \/ EnsureExternal(p, o) \/ CreateNetwork(p, o) \/ NetworkConflict(p, o)
  \/ CreateVolume(p, o) \/ VolumeConflict(p, o)
  \/ InspectSecret(p, o) \/ InspectPod(p, o) \/ CreateAfterLook(p, o)
  \/ DeleteStaleSecret(p, o) \/ DeleteStalePod(p, o)

Down(p, o) ==
  \/ CheckPod(p, o) \/ CheckNetwork(p, o) \/ CheckVolume(p, o) \/ CheckSecret(p, o)
  \/ DeletePod(p, o) \/ DeleteNetwork(p, o) \/ DeleteVolume(p, o) \/ DeleteSecret(p, o)
  \/ SweepPod(p, o) \/ SweepNetwork(p, o) \/ SweepVolume(p, o) \/ SweepSecret(p, o)

Command(p) ==
  \/ \E v \in VerbsOf[p], f \in FilesOf[p] \cup {NoFile} : Begin(p, v, f)
  \/ \E o \in Objects : Up(p, o) \/ Down(p, o)
  \/ InvalidName(p) \/ PodRefused(p) \/ UnknownService(p) \/ SpecRefused(p) \/ NameShared(p)
  \/ Snapshot(p) \/ Build(p) \/ UnreadableSecret(p)
  \/ Advance(p) \/ Walk(p) \/ RemoveMembers(p) \/ List(p) \/ Kill(p)

Next ==
  \/ \E p \in Projects : Command(p)
  \/ \E o \in Objects : MakeByHand(o) \/ RemoveByHand(o)

Spec == Init /\ [][Next]_vars

(***************************************************************************)
(* Properties                                                              *)
(***************************************************************************)

\* Where a loop is with an object.
Steps == {"none", "todo", "conflict", "delete", "create", "recreate"}

Files == (UNION {FilesOf[p] : p \in Projects}) \cup {NoFile}

\* The types of the state.
TypeOK ==
  /\ host \in [Objects -> Owners]
  /\ members \in [Projects -> BOOLEAN]
  /\ verb \in [Projects -> Ups \cup Downs]
  /\ file \in [Projects -> Files]
  /\ pc \in [Projects -> Stages]
  /\ at \in [Projects -> [Objects -> Steps]]
  /\ existing \in [Projects -> BOOLEAN]
  /\ err \in [Projects -> BOOLEAN]
  /\ saw \in [Projects -> [Objects -> Owners \cup {Unseen, Taken}]]
  /\ lost \in [Projects -> SUBSET Objects]
  /\ hit \in [Projects -> SUBSET (Owners \cup {Unseen, Taken})]
  /\ runs \in [Projects -> Nat]
  /\ hands \in [Objects -> Nat]

Mine(p, k) == {o \in Objects : host[o] = p /\ Kind[o] = k}

\* A down that reports success, whatever others did meanwhile, has left none of
\* the project's networks and secrets, of which it also removes what the file
\* no longer names; with -v none of the volumes it declares; and a down by
\* label nothing at all (lifecycle/down/mod.rs, label.rs).
DownLeavesNothing ==
  \A p \in Projects :
    (pc[p] = "ok" /\ verb[p] \in Downs) =>
      /\ Mine(p, "network") = {} /\ Mine(p, "secret") = {}
      /\ IF verb[p] \in ByLabel
         THEN Mine(p, "pod") = {} /\ (verb[p] \in Removing => Mine(p, "volume") = {})
         ELSE /\ Mine(p, "pod") \cap file[p].own = {}
              /\ verb[p] \in Removing => Mine(p, "volume") \cap file[p].own = {}

\* A command removes an object of somebody else only in two ways: it looked the
\* name up when it was free, or the object was its own and somebody else removed
\* it after it looked (require_owned before every delete, and the label before
\* every swept one).
OnlyIfSeenAbsent == \A p \in Projects : hit[p] \subseteq {Absent, Taken}

\* What down/mod.rs:229-230 says: a volume this project did not label is not
\* removed, even when its name matches a declared one.
BoundaryKept == \A p \in Projects : hit[p] \subseteq {Taken}

\* An up or a create that reports success has the networks, secrets and the pod
\* of the file, as its own, and its containers, unless somebody else removed one
\* of those while it ran (create_networks, create_project_secrets, ensure_pod
\* and the list of containers it makes void).
UpDelivers ==
  \A p \in Projects :
    (pc[p] = "ok" /\ verb[p] \in Ups) =>
      /\ \A o \in file[p].own \ file[p].external :
           Kind[o] # "volume" => host[o] = p \/ o \in lost[p]
      /\ members[p] \/ \E o \in lost[p] : Kind[o] = "pod"

\* What objects/volume/mod.rs:87 says of volumes: one that is there already
\* is success only if the project owns it.
VolumesOwned ==
  \A p \in Projects :
    (pc[p] = "ok" /\ verb[p] \in Ups) =>
      \A o \in file[p].own \ file[p].external :
        Kind[o] = "volume" => host[o] = p \/ o \in lost[p]

(***************************************************************************)
(* Why they hold.                                                          *)
(***************************************************************************)

\* Where a command is on its way up, and on its way down.
UpStages == {"check", "build", "networks", "volumes", "secrets", "pod", "walk"}

DownStages ==
  {"members", "rmPod", "rmNetworks", "listNetworks", "sweepNetworks", "rmVolumes", "listSecrets",
   "sweepSecrets", "rmSecrets", "listPods", "sweepPods", "listVolumes", "sweepVolumes"}

\* A command is in one of its own loops.
InOwnLoop(p) ==
  /\ verb[p] \in Ups => pc[p] \in Quiet \cup UpStages
  /\ verb[p] \in Downs => pc[p] \in Quiet \cup DownStages
  /\ pc[p] \in {"rmPod", "rmNetworks", "rmVolumes"} => verb[p] \notin ByLabel
  /\ pc[p] \in {"listPods", "sweepPods", "listVolumes", "sweepVolumes"} => verb[p] \in ByLabel
  /\ pc[p] \in {"rmVolumes", "listVolumes", "sweepVolumes"} => verb[p] \in Removing
  /\ pc[p] = "rmSecrets" => err[p]
  /\ pc[p] = "ok" \/ pc[p] \in UpStages \ {"secrets"} => ~err[p]
  /\ pc[p] \notin Working => at[p] = Nothing

\* An object is at a step its loop has, and only a command on the way up is
\* ever about to create one.
AtOwnStep(p, o) ==
  /\ at[p][o] \in {"conflict", "create", "recreate"} => verb[p] \in Ups
  /\ at[p][o] = "conflict" => pc[p] \in {"networks", "volumes"}
  /\ at[p][o] \in {"create", "recreate"} => pc[p] \in {"secrets", "pod"}
  /\ at[p][o] = "delete" => pc[p] \notin {"networks", "volumes"}
  /\ (at[p][o] # "none" /\ pc[p] \in DOMAIN Loops) => Kind[o] = Loops[pc[p]]

Placed == \A p \in Projects : InOwnLoop(p) /\ \A o \in Objects : AtOwnStep(p, o)

\* The loop of a way down that removes the last of a kind, and what comes after.
Last == [pod |-> {"rmPod", "sweepPods"}, network |-> {"sweepNetworks"},
         volume |-> {"rmVolumes", "sweepVolumes"}, secret |-> {"sweepSecrets"}]

AfterNetworks == {"rmVolumes", "listVolumes", "sweepVolumes", "listSecrets", "sweepSecrets", "ok"}

Past == [pod |-> {"rmNetworks", "listNetworks", "sweepNetworks"} \cup AfterNetworks,
         network |-> AfterNetworks,
         volume |-> {"listSecrets", "sweepSecrets", "ok"}, secret |-> {"ok"}]

\* What a command on the way down promises to remove.
Promised(p) ==
  {o \in Objects :
     /\ Kind[o] = "volume" => verb[p] \in Removing
     /\ Kind[o] \in {"pod", "volume"} => verb[p] \in ByLabel \/ o \in file[p].own}

\* As long as nothing failed, what is promised and still there is still ahead.
ClearedFor(p) ==
  verb[p] \in Downs /\ ~err[p] =>
    \A o \in Promised(p) : host[o] = p =>
      /\ pc[p] \notin Past[Kind[o]]
      /\ pc[p] \in Last[Kind[o]] => at[p][o] # "none"

Cleared == \A p \in Projects : ClearedFor(p)

\* What is about to be deleted is the project's, unless it was looked up when the
\* name was free, or taken since.
Vouched ==
  \A p \in Projects, o \in Objects : at[p][o] = "delete" =>
    saw[p][o] \in {Absent, Taken} \/ (saw[p][o] = p /\ host[o] = p)

\* The loop of a way up that makes the objects of a kind, and what comes after.
UpLoop == [network |-> "networks", volume |-> "volumes", secret |-> "secrets", pod |-> "pod"]

UpPast == [network |-> {"volumes", "secrets", "pod", "walk", "ok"}, volume |-> {},
           secret |-> {"pod", "walk", "ok"}, pod |-> {"walk", "ok"}]

\* What a command on the way up promises to make.
Wanted(p) == {o \in Objects : o \in file[p].own \ file[p].external /\ Kind[o] # "volume"}

\* As long as nothing failed, what is promised and not there is still ahead,
MadeFor(p) ==
  verb[p] \in Ups /\ ~err[p] =>
    \A o \in Wanted(p) : host[o] # p /\ o \notin lost[p] =>
      /\ pc[p] \notin UpPast[Kind[o]]
      /\ pc[p] = UpLoop[Kind[o]] => at[p][o] # "none"

\* and its list of containers still tells the truth, unless somebody removed the
\* pod, or the pod is between its delete and its create.
Standing(p) == members[p] \/ \E o \in lost[p] : Kind[o] = "pod"

ListedFor(p) ==
  verb[p] \in Ups =>
    /\ (existing[p] /\ pc[p] \notin Quiet) =>
         Standing(p) \/ \E o \in Objects : Kind[o] = "pod" /\ at[p][o] = "recreate"
    /\ pc[p] = "ok" => Standing(p)

Delivering == \A p \in Projects : MadeFor(p) /\ ListedFor(p)

\* The inductive invariant: the types, the loops, and what each loop has done,
\* which the three properties above are read off at the end (run_up,
\* down_with_options, down_by_label).
IInv == TypeOK /\ Placed /\ Cleared /\ Vouched /\ Delivering /\ OnlyIfSeenAbsent
=============================================================================

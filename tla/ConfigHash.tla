----------------------------- MODULE ConfigHash -----------------------------
(***************************************************************************)
(* How `up` knows that a container is still what the compose file says: it *)
(* stores a hash of the service with the container it creates, and a later *)
(* `up` that computes the same hash keeps the container.  The same with    *)
(* the pod of an x-podman-pod project.                                     *)
(*                                                                         *)
(* One service over successive `up`s, with what it is built from: its own  *)
(* keys, the network and volume it names, one secret, an env_file and a    *)
(* passed variable, a label_file, and a sibling it links to.  The compose  *)
(* file is read once per `up`, a host file when its step comes to it, so   *)
(* edits fall between any two steps.  A hash is the tuple of what is fed   *)
(* to it.  The walk over services and replicas, the image and the deletion *)
(* of what is replaced are in UpScheduler, ReplicaLifecycle and            *)
(* ProjectObjects.                                                         *)
(***************************************************************************)
EXTENDS Naturals

CONSTANTS Editable,     \* the compose keys and host files the user edits
          MaxEdits,     \* bound: edits of a behaviour
          MaxUps        \* bound: processes of a behaviour

None == <<>>
Some(x) == <<x>>

VARIABLES
    compose,         \* the compose file on disk
    machine,         \* the files and the environment it refers to
    apply,           \* the running process
    podSecret,       \* the bytes of the project's secret in Podman, if it is there
    replica,    \* the service's container: the label and what it was made of
    projectPod,          \* the project's pod, likewise
    calm,        \* nothing was edited since the running or last `up` began
    since,        \* something was edited since the `up` that made the container began
    wasted,       \* a container was replaced with nothing edited since then
    edits, ups

hashVars == <<compose, machine, apply, podSecret, replica, projectPod, calm, since, wasted, edits, ups>>

(***************************************************************************)
(* The compose file.  "own" is everything written in the service itself    *)
(* (command, ports, limits, ...) beside the mode it asks for the secret.   *)
(* A top-level network or volume may be given a name of its own or be      *)
(* external; a secret has one of four sources.                             *)
(***************************************************************************)
SecretSources == {<<"content", 1>>, <<"content", 2>>, <<"environment">>, <<"file">>,
                  <<"external", "x">>, <<"external", "y">>}
ObjectConfigs == [name : {None, Some("n"), Some("m")}, external : BOOLEAN]

Values ==
    [own |-> 1..2, mode |-> {None, Some(288)}, network |-> ObjectConfigs,
     volume |-> ObjectConfigs, secret |-> SecretSources,
     sibling |-> {None, Some("db1")}, pod |-> BOOLEAN]
HostValues ==
    [bytes |-> 1..2, bits |-> {292, 256}, env_file |-> 1..2, variable |-> 1..2,
     label_file |-> 1..2]

(***************************************************************************)
(* Names the file's keys stand for on the host.                            *)
(***************************************************************************)
default_network_name(key) == <<"project", key>>
default_volume_name(key) == <<"project", key>>

resolve_network_name(cfg) ==
    IF cfg.name # None THEN cfg.name
    ELSE IF cfg.external THEN Some("network") ELSE default_network_name("network")

resolve_volume_name(cfg) ==
    IF cfg.name # None THEN cfg.name
    ELSE IF cfg.external THEN Some("volume") ELSE default_volume_name("volume")

\* links, volumes_from and network_mode: service:, which name the sibling's container
resolve_target_container_name(f) ==
    IF f.sibling # None THEN f.sibling ELSE <<"project", "db", 1>>

\* The source a secret is attached from; an external one is the user's.
resolve_source(f) ==
    IF f.secret[1] = "external" THEN Some(f.secret[2]) ELSE <<"project", "secret", "s">>

push_plan_mode(f) ==
    IF f.mode # None \/ f.secret[1] = "file" THEN f.mode ELSE Some(292)

(***************************************************************************)
(* The hash: the service as written, the names that are not the default    *)
(* ones, the payload of the secret, and the environment.  A file's payload *)
(* is the digest recorded when it was uploaded, or else what it holds now; *)
(* the digest is over the bits and the bytes.                              *)
(***************************************************************************)
effective_env(h, variable) == <<h.env_file, variable>>

overridden_resource_identities(f) ==
    {<<"network", n>> : n \in {resolve_network_name(f.network)} \ {default_network_name("network")}}
      \cup {<<"volume", n>> : n \in {resolve_volume_name(f.volume)} \ {default_volume_name("volume")}}

hash_inline_payload(f, variable) ==
    CASE f.secret[1] = "content" -> {<<"inline", f.secret[2]>>}
      [] f.secret[1] = "environment" -> {<<"inline", variable>>}
      [] OTHER -> {}

\* Mutant: the file is read again for the label.
HashReread(f, digests, h) ==
    IF f.secret[1] # "file" THEN {} ELSE {<<"file", <<h.bits, h.bytes>>>>}
\* Mutant: only what was uploaded is hashed.
HashRecordedOnly(f, digests, h) ==
    IF f.secret[1] # "file" \/ digests = None THEN {} ELSE {<<"file", digests>>}
hash_file_payload(f, digests, h) ==
    IF f.secret[1] # "file" THEN {}
    ELSE IF digests # None THEN {<<"file", digests>>}
    ELSE {<<"file", <<h.bits, h.bytes>>>>}

config_hash(f, digests, env, h, variable) ==
    [service |-> <<f.own, f.mode>>,
     identities |-> overridden_resource_identities(f),
     payload |-> hash_inline_payload(f, variable) \cup hash_file_payload(f, digests, h),
     env |-> env]

\* The pod's hash and what the pod is made of: ports, namespaces and networks.
pod_config_hash(f) ==
    [own |-> f.own,
     networks |-> IF f.network.external /\ f.network.name # None
                  THEN f.network.name ELSE Some("network")]

pod_networks(f) ==
    IF f.network.external
    THEN IF f.network.name # None THEN f.network.name ELSE Some("network")
    ELSE resolve_network_name(f.network)

build_pod_spec_with_hash(f) ==
    [hash |-> pod_config_hash(f), own |-> f.own, networks |-> pod_networks(f)]

\* A file's own bits are the mode nothing else was asked for.
build_native_secrets(f, bits, bytes) ==
    [source |-> resolve_source(f),
     mode |-> IF f.secret[1] = "file" /\ f.mode = None THEN Some(bits) ELSE push_plan_mode(f),
     bytes |-> IF f.secret[1] = "external" THEN 0 ELSE bytes]

(***************************************************************************)
(* The request a container is created with.  In a pod it has no networks   *)
(* or ports of its own.  What "made" of it the hash is meant to describe,  *)
(* and what it does not look at: the names of other containers and of      *)
(* external secrets, the labels of a label_file and the pod.               *)
(***************************************************************************)
build_spec_generator(f, env, bits, bytes, labels) ==
    [own |-> f.own,
     pod |-> f.pod,
     networks |-> IF f.pod THEN None ELSE resolve_network_name(f.network),
     volume |-> resolve_volume_name(f.volume),
     env |-> env,
     secret |-> build_native_secrets(f, bits, bytes),
     references |-> resolve_target_container_name(f),
     labels |-> labels]

Payload(f, h, variable) ==
    CASE f.secret[1] = "content" -> f.secret[2]
      [] f.secret[1] = "environment" -> variable
      [] f.secret[1] = "file" -> h.bytes
      [] OTHER -> 0

\* What the file and the host ask for now.
AskedFor ==
    build_spec_generator(compose, effective_env(machine, machine.variable), machine.bits,
                         Payload(compose, machine, machine.variable), machine.label_file)

Described(made) ==
    [own |-> made.own, volume |-> made.volume, env |-> made.env,
     mode |-> made.secret.mode, bytes |-> made.secret.bytes]

-----------------------------------------------------------------------------
NotUp == [step |-> "idle", file |-> None, variable |-> 0, existing |-> None,
         digests |-> None, payload |-> 0, env |-> None, request |-> None]

UneditedFile(mode, source, in_pod) ==
    [own |-> 1, mode |-> mode, network |-> [name |-> None, external |-> FALSE],
     volume |-> [name |-> None, external |-> FALSE],
     secret |-> source, sibling |-> None, pod |-> in_pod]

HashStart ==
    /\ machine = [bytes |-> 1, bits |-> 292, env_file |-> 1, variable |-> 1, label_file |-> 1]
    /\ apply = NotUp
    /\ podSecret = None /\ replica = None /\ projectPod = None
    /\ calm = FALSE /\ since = FALSE /\ wasted = FALSE /\ edits = 0 /\ ups = 0

HashInit ==
    /\ compose \in {UneditedFile(m, s, p) :
                        m \in Values["mode"], s \in SecretSources, p \in BOOLEAN}
    /\ HashStart

unchangedPodman == UNCHANGED <<podSecret, replica, projectPod, wasted>>
unchangedUser == UNCHANGED <<compose, machine, edits>>

Touched == calm' = FALSE /\ since' = TRUE /\ edits' = edits + 1

EditFile ==
    /\ edits < MaxEdits
    /\ \E key \in Editable \cap DOMAIN Values : \E value \in Values[key] \ {compose[key]} :
          compose' = [compose EXCEPT ![key] = value]
    /\ Touched
    /\ UNCHANGED <<machine, apply, ups>> /\ unchangedPodman

EditHost ==
    /\ edits < MaxEdits
    /\ \E key \in Editable \cap DOMAIN HostValues : \E value \in HostValues[key] \ {machine[key]} :
          machine' = [machine EXCEPT ![key] = value]
    /\ Touched
    /\ UNCHANGED <<compose, apply, ups>> /\ unchangedPodman

\* The compose file is parsed, the environment is the process's from here on, and
\* the project's containers are listed once.
begin_up ==
    /\ apply.step \in {"idle", "done"} /\ ups < MaxUps
    /\ apply' = [NotUp EXCEPT !.step = "secrets", !.file = compose, !.variable = machine.variable,
                          !.existing = IF replica = None THEN None
                                       ELSE Some(replica[1].hash)]
    /\ calm' = TRUE /\ ups' = ups + 1
    /\ UNCHANGED since
    /\ unchangedUser /\ unchangedPodman

\* The bits come from the handle the bytes were read from.
create_project_secrets ==
    /\ apply.step = "secrets"
    /\ apply' = [apply EXCEPT !.step = "upload",
                        !.digests = IF apply.file.secret[1] = "file"
                                    THEN <<machine.bits, machine.bytes>> ELSE None,
                        !.payload = Payload(apply.file, machine, apply.variable)]
    /\ UNCHANGED <<calm, since, ups>> /\ unchangedUser /\ unchangedPodman

\* The old secret is deleted before the new one is created (see KillUp).
create_secret ==
    /\ apply.step = "upload"
    /\ podSecret' = IF apply.file.secret[1] = "external" THEN podSecret ELSE Some(apply.payload)
    /\ apply' = [apply EXCEPT !.step = "pod"]
    /\ UNCHANGED <<replica, projectPod, calm, since, wasted, ups>> /\ unchangedUser

Replaces == wasted' = (wasted \/ (replica' # replica /\ replica # None /\ ~since))

PodStale == projectPod # None /\ projectPod[1].hash # pod_config_hash(apply.file)

\* A pod that has the hash of the file is kept, and so are the containers beside it.
keep_pod ==
    /\ apply.step = "pod"
    /\ ~apply.file.pod \/ (projectPod # None /\ ~PodStale)
    /\ apply' = [apply EXCEPT !.step = "service"]
    /\ UNCHANGED <<calm, since, ups>> /\ unchangedUser /\ unchangedPodman

\* Removing the stale pod takes the containers in it, and the list of containers
\* describes nothing any more.
delete_stale_pod ==
    /\ apply.step = "pod" /\ apply.file.pod /\ PodStale
    /\ projectPod' = None
    /\ replica' = IF replica # None /\ replica[1].made.pod THEN None ELSE replica
    /\ apply' = [apply EXCEPT !.existing = None]
    /\ Replaces
    /\ UNCHANGED <<podSecret, calm, since, ups>> /\ unchangedUser

create_pod_now ==
    /\ apply.step = "pod" /\ apply.file.pod /\ projectPod = None
    /\ projectPod' = Some(build_pod_spec_with_hash(apply.file))
    /\ apply' = [apply EXCEPT !.step = "service"]
    /\ UNCHANGED <<podSecret, replica, calm, since, wasted, ups>> /\ unchangedUser

\* The environment is resolved here, for the hash and for the request alike.
up_one_service ==
    /\ apply.step = "service"
    /\ LET env == effective_env(machine, apply.variable)
           new_hash == config_hash(apply.file, apply.digests, env, machine, apply.variable)
       IN apply' = [apply EXCEPT !.step = IF apply.existing = Some(new_hash) THEN "done" ELSE "create",
                           !.env = env]
    /\ UNCHANGED <<calm, since, ups>> /\ unchangedUser /\ unchangedPodman

\* The label is computed again, from the digests and the environment of this `up`.
Request(env) ==
    [hash |-> config_hash(apply.file, apply.digests, env, machine, apply.variable),
     made |-> build_spec_generator(apply.file, apply.env,
                                   IF apply.digests = None THEN 0 ELSE apply.digests[1],
                                   0, machine.label_file)]

\* The request is put together, then what has the name is deleted.
\* Mutant: the label leaves the environment out.
CreateUnlabelledEnv ==
    /\ apply.step = "create"
    /\ replica' = None
    /\ Replaces
    /\ apply' = [apply EXCEPT !.step = "post", !.request = Some(Request(<<>>))]
    /\ UNCHANGED <<podSecret, projectPod, calm, since, ups>> /\ unchangedUser
create_container ==
    /\ apply.step = "create"
    /\ replica' = None
    /\ Replaces
    /\ apply' = [apply EXCEPT !.step = "post", !.request = Some(Request(apply.env))]
    /\ UNCHANGED <<podSecret, projectPod, calm, since, ups>> /\ unchangedUser

\* Podman copies the bytes of the secret into the container it creates.
post_create ==
    /\ apply.step = "post"
    /\ replica' = Some([apply.request[1] EXCEPT
          !.made.secret.bytes = IF podSecret = None \/ apply.file.secret[1] = "external"
                                THEN 0 ELSE podSecret[1]])
    /\ apply' = [apply EXCEPT !.step = "done", !.request = None]
    /\ since' = ~calm
    /\ UNCHANGED <<podSecret, projectPod, calm, wasted, ups>> /\ unchangedUser

\* The process is killed, or fails at a request, anywhere; inside create_secret the
\* secret may be gone.
KillUp ==
    /\ apply.step \notin {"idle", "done"}
    /\ apply' = NotUp
    /\ \/ UNCHANGED podSecret
       \/ apply.step = "upload" /\ apply.file.secret[1] # "external" /\ podSecret' = None
    /\ UNCHANGED <<replica, projectPod, calm, since, wasted, ups>> /\ unchangedUser

HashNext ==
    \/ EditFile \/ EditHost \/ begin_up \/ create_project_secrets \/ create_secret \/ keep_pod
    \/ delete_stale_pod \/ create_pod_now \/ up_one_service \/ create_container \/ post_create
    \/ KillUp

\* The user is done and every `up` has ended.
HashDone == apply.step \in {"idle", "done"} /\ edits = MaxEdits /\ ups = MaxUps

-----------------------------------------------------------------------------
\* `autostart --mode start` accepts a container by the same comparison, with no
\* secret uploaded.
expected_config_hash ==
    config_hash(compose, None, effective_env(machine, machine.variable), machine, machine.variable)

(***************************************************************************)
(* A container whose label is the hash of the present file and host was    *)
(* made of what they hold: the same environment, the same bytes under the  *)
(* same mode, the same objects, however the edits fell between the upload  *)
(* of the secret, the hash and the creation (hash.rs:26-34).               *)
(***************************************************************************)
LabelHonest ==
    replica # None /\ replica[1].hash = expected_config_hash
        => /\ Described(replica[1].made) = Described(AskedFor)
           /\ replica[1].made.pod = AskedFor.pod
                 => replica[1].made.networks = AskedFor.networks

(***************************************************************************)
(* An `up` that ends without an edit under it leaves a container that the  *)
(* next one, and an `autostart --mode start`, take for current.            *)
(***************************************************************************)
UpSettles ==
    apply.step = "done" /\ calm
        => replica # None /\ replica[1].hash = expected_config_hash

(***************************************************************************)
(* A container is replaced, and its writable layer lost, only when         *)
(* something was edited since the `up` that made it began (hash.rs:67-75). *)
(***************************************************************************)
KeptWhenUnchanged == ~wasted

(***************************************************************************)
(* The pod `up` leaves is on the networks the file declares, by their      *)
(* resolved names, as pod/hash.rs says of its hash.                        *)
(***************************************************************************)
PodOnDeclaredNetworks ==
    apply.step = "done" /\ calm /\ compose.pod => projectPod # None /\ projectPod[1].networks = pod_networks(compose)

(***************************************************************************)
(* With x-podman-pod, the container `up` leaves is in the project's pod    *)
(* (docs/commands-reference.md, "Pods").                                   *)
(***************************************************************************)
ServiceInPod ==
    apply.step = "done" /\ calm /\ compose.pod => replica # None /\ replica[1].made.pod

(* A container whose label is the hash of the present file was made of it, *)
(* one an `up` leaves is taken for current by the next, and none is        *)
(* replaced for nothing (container/resolve/hash).                          *)
HashFaithful == LabelHonest /\ UpSettles /\ KeptWhenUnchanged

-----------------------------------------------------------------------------
(* Why: the inductive invariant *)

HashSpec == HashInit /\ [][HashNext]_hashVars

Files ==
    [own : Values.own, mode : Values.mode, network : Values.network, volume : Values.volume,
     secret : Values.secret, sibling : Values.sibling, pod : Values.pod]
Machines ==
    [bytes : HostValues.bytes, bits : HostValues.bits, env_file : HostValues.env_file,
     variable : HostValues.variable, label_file : HostValues.label_file]

HashTypeOK ==
    /\ compose \in Files /\ machine \in Machines
    /\ DOMAIN apply = DOMAIN NotUp
    /\ apply.step \in {"idle", "secrets", "upload", "pod", "service", "create", "post", "done"}
    /\ apply.step # "idle" => apply.file \in Files /\ apply.variable \in HostValues.variable
    /\ calm \in BOOLEAN /\ since \in BOOLEAN /\ wasted \in BOOLEAN

(* What a secret holds for the process that uploaded it: its file is known *)
(* by the bits and the bytes read, once.                                   *)
SecretRead(f, digests, variable, payload) ==
    /\ f.secret[1] = "file" => \E b \in HostValues.bits : digests = <<b, payload>>
    /\ f.secret[1] # "file" => digests = None
    /\ f.secret[1] = "content" => payload = f.secret[2]
    /\ f.secret[1] = "environment" => payload = variable
    /\ f.secret[1] = "external" => payload = 0

ReadOnce ==
    /\ apply.step \notin {"idle", "secrets"} =>
          /\ SecretRead(apply.file, apply.digests, apply.variable, apply.payload)
          /\ calm /\ apply.file.secret[1] = "file" => apply.digests = <<machine.bits, machine.bytes>>
    /\ apply.step \notin {"idle", "secrets", "upload"} /\ apply.file.secret[1] # "external" =>
          podSecret = Some(apply.payload)
    /\ calm /\ apply.step # "idle" => apply.file = compose /\ apply.variable = machine.variable
    /\ calm /\ apply.step \in {"create", "post"} => apply.env = effective_env(machine, apply.variable)

(* The request is of what the process read, under the hash of the same.    *)
Requested ==
    apply.step = "post" =>
        \E labels \in HostValues.label_file :
           apply.request =
              Some([hash |-> config_hash(apply.file, apply.digests, apply.env, machine, apply.variable),
                    made |-> build_spec_generator(apply.file, apply.env,
                                IF apply.digests = None THEN 0 ELSE apply.digests[1], 0, labels)])

(* LabelHonest, for any file and host there could be.                      *)
Honest(container, f, h) ==
    container.hash = config_hash(f, None, effective_env(h, h.variable), h, h.variable) =>
        LET asked == build_spec_generator(f, effective_env(h, h.variable), h.bits,
                                          Payload(f, h, h.variable), h.label_file)
        IN /\ Described(container.made) = Described(asked)
           /\ container.made.pod = asked.pod => container.made.networks = asked.networks
AlwaysHonest == replica # None => \A f \in Files, h \in Machines : Honest(replica[1], f, h)

PodCurrent(f) == projectPod # None /\ projectPod[1].hash = pod_config_hash(f)

(* A container nothing was edited under is current, in a pod that is, and  *)
(* the running `up` has seen it.                                           *)
Current ==
    replica # None /\ ~since =>
        /\ calm /\ replica[1].hash = expected_config_hash /\ replica[1].made.pod = compose.pod
        /\ compose.pod => PodCurrent(compose)
        /\ apply.step \in {"secrets", "upload", "pod", "service"} => apply.existing = Some(replica[1].hash)
        /\ apply.step # "create"
PodReady == apply.step \in {"service", "create", "post"} /\ apply.file.pod => PodCurrent(apply.file)
ExistingSeen ==
    apply.step \in {"secrets", "upload", "pod", "service"} /\ apply.existing # None =>
        replica # None /\ apply.existing = Some(replica[1].hash)

HashIInv ==
    /\ HashTypeOK /\ ReadOnce /\ Requested /\ AlwaysHonest /\ Current /\ PodReady /\ ExistingSeen
    /\ UpSettles /\ KeptWhenUnchanged
=============================================================================

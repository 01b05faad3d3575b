------------------------------- MODULE Listing -------------------------------
(***************************************************************************)
(* The commands that ask and print: ps, ls, port, top, images, and how     *)
(* --index picks a replica for exec and cp, port and attach (observe/query *)
(* /listing, project/replicas.rs, project/discovery.rs, lifecycle/scale).  *)
(*                                                                         *)
(* Each is a listing of the project's containers and then a question about *)
(* each of the things listed; containers stop and go in between.           *)
(***************************************************************************)
EXTENDS Integers, Sequences, SequencesExt, FiniteSetsExt

CONSTANTS
    Questions,   \* [verb, services, chosen, index, all, status, filters, port, project]
    Realities    \* what Podman holds: [ctrs, imgs]

VARIABLES
    lq, ctrs, imgs,
    seen,        \* the containers of the listing
    todo,        \* what is still to ask about
    rows,        \* what was found
    lasted,      \* the containers seen that stayed as they were
    lphase, lresult

listVars == <<lq, ctrs, imgs, seen, todo, rows, lasted, lphase, lresult>>

ListInit ==
    /\ lq \in Questions
    /\ \E r \in Realities : ctrs = r.ctrs /\ imgs = r.imgs
    /\ seen = {} /\ todo = <<>> /\ rows = <<>> /\ lasted = {}
    /\ lphase = "start" /\ lresult = "none"

EndList(r) == lphase' = "done" /\ lresult' = r

-----------------------------------------------------------------------------
(* Names.  A container of a service is numbered, has the service's own     *)
(* fixed name (number 0), or is a one-off numbered by a process.           *)

MaxIndex == 99
Digits(n) == IF n < 10 THEN <<n>> ELSE <<n \div 10, n % 10>>
(* How the names of one service compare as strings: the fixed name is a    *)
(* prefix of the others, and the "run" of a one-off follows every digit.   *)
Spelled(c) == (IF c.oneoff THEN <<10>> ELSE <<>>) \o (IF c.num = 0 THEN <<>> ELSE Digits(c.num))
Precedes(s, t) ==
    \/ IsPrefix(s, t)
    \/ \E i \in DOMAIN s \cap DOMAIN t : s[i] < t[i] /\ \A j \in 1 .. i - 1 : s[j] = t[j]

ByNumber(names) == SetToSortSeq(names, LAMBDA c, d : c.num < d.num)
ByName(names) == SetToSortSeq(names, LAMBDA c, d : Precedes(Spelled(c), Spelled(d)))

(* sort_replica_names: by the number at the end, names without one last.   *)
TrailingIndex(c) == IF c.num = 0 THEN MaxIndex + 1 ELSE c.num
SortReplicaNames(names) == SetToSortSeq(names, LAMBDA c, d : TrailingIndex(c) < TrailingIndex(d))

Declared == {lq.services[i].name : i \in DOMAIN lq.services}
ServiceNamed(n) == lq.services[CHOOSE i \in DOMAIN lq.services : lq.services[i].name = n]

(* replica_names: what a service that has no container would have.         *)
Static(s) == [svc |-> s.name, num |-> 0, oneoff |-> FALSE]
ReplicaNames(s) == IF s.fixed /\ s.count = 1 THEN {Static(s)}
                   ELSE {[Static(s) EXCEPT !.num = n] : n \in 1 .. s.count}
NameOf(c) == [svc |-> c.svc, num |-> c.num, oneoff |-> c.oneoff]

(* live_project_replicas: by the label of the service, one-offs included.  *)
OfService(n) == {NameOf(c) : c \in {d \in seen : d.svc = n}}
LiveOrDeclared(n) == IF OfService(n) # {} THEN OfService(n) ELSE ReplicaNames(ServiceNamed(n))

Missing == [svc |-> "", num |-> -1, oneoff |-> FALSE]
OneOf(set) == IF set = {} THEN Missing ELSE CHOOSE c \in set : TRUE
Nth(s, i) == IF i \in DOMAIN s THEN s[i] ELSE Missing

(* The index-th of the service's own by number.                            *)
ResolveByPosition(names, index) ==
    Nth(ByNumber({c \in names : ~c.oneoff}), IF index = -1 THEN 1 ELSE index)
(* resolve_replica_name: the replica of that number, 1 for a fixed name;   *)
(* order_replicas leaves out a name that is not a number after the base.   *)
ResolveReplicaName(names, index) ==
    LET own == {c \in names : ~c.oneoff}
        numbered == {c \in own : c.num = index /\ index # 0}
    IN IF index = -1 THEN Nth(ByNumber(own), 1)
       ELSE IF numbered # {} THEN OneOf(numbered)
       ELSE IF index = 1 THEN OneOf({c \in own : c.num = 0}) ELSE Missing

(* select_replica: the index-th by the number at the end of the name.      *)
SelectReplica(names, index) == Nth(ByNumber(names), IF index = -1 THEN 1 ELSE index)

(* attach_with_index: the index-th by name.                                *)
AttachReplica(names, index) == Nth(ByName(names), IF index = -1 THEN 1 ELSE index)

-----------------------------------------------------------------------------
(* What is listed *)

(* parse_port_proto: digits without a leading zero, 1 to 65535, tcp or udp.*)
PortRefused == lq.verb = "port" /\ lq.port.num \notin 1 .. 65535
(* split_ps_filters, split_ls_filters                                      *)
FilterRefused == \E f \in lq.filters : f.key \notin {"status", "name"}
UnknownAsked == ~(ToSet(lq.chosen) \subseteq Declared)

(* dedup_preserving_order, and all of them when none is chosen.            *)
Targets == IF lq.chosen # <<>> THEN ToSet(lq.chosen) ELSE Declared
InOrder == IF lq.chosen = <<>> THEN [i \in DOMAIN lq.services |-> lq.services[i].name]
           ELSE lq.chosen
Deduplicated ==
    LET first == {i \in DOMAIN InOrder : \A j \in 1 .. i - 1 : InOrder[j] # InOrder[i]}
    IN [k \in 1 .. Cardinality(first) |-> InOrder[SetToSortSeq(first, <)[k]]]

Asked(key) == {f.value : f \in {g \in lq.filters : g.key = key}} \cup (IF key = "status" THEN lq.status ELSE {})
(* containers_path: stopped ones come when asked for, or for a status.     *)
ListsAll == lq.verb # "ps" \/ lq.all \/ Asked("status") # {}

(* ServiceFilter::keeps: by the label, by the declared names without one.  *)
Keeps(c) ==
    \/ lq.chosen = <<>>
    \/ c.svc \in ToSet(lq.chosen)
    \/ c.svc = "" /\ \E n \in ToSet(lq.chosen) : c.alias \in ReplicaNames(ServiceNamed(n))

(* select_containers: the pod's own container is never shown.              *)
SelectContainers(cs) ==
    {c \in cs : /\ ~c.infra /\ Keeps(c)
                /\ Asked("status") = {} \/ c.state \in Asked("status")
                /\ Asked("name") = {} \/ c.svc \in Asked("name")}

(* widen_add: in 32 bits.                                                  *)
WidenAdd(base, offset) == base + offset
(* publishers: a range of ports one by one, as many as the record says.    *)
Publishers(c) ==
    FlattenSeq([i \in DOMAIN c.ports |->
        LET p == c.ports[i]
        IN [k \in 1 .. (IF p.range > 0 THEN p.range ELSE 1) |->
               [target |-> WidenAdd(p.ctr, k - 1), published |-> WidenAdd(p.host, k - 1)]]])

(* span_since and format_age: the largest unit that is whole.              *)
Units == <<86400, 3600, 60, 1>>
HumanizeAge(s) ==
    LET unit == IF s < 1 THEN 0 ELSE CHOOSE u \in ToSet(Units) : u <= s /\ \A v \in ToSet(Units) : v <= s => v <= u
    IN [n |-> IF unit = 0 THEN 0 ELSE s \div unit, unit |-> unit]

(* table_status: a container that exited says so, one that runs since when.*)
TableStatus(c) == CASE c.state \in {"exited", "dead"}       -> "exited"
                    [] c.state = "running" /\ c.started > 0 -> "up"
                    [] OTHER                                -> c.state

PsRow(c) == [ctr |-> c, ports |-> Publishers(c), status |-> TableStatus(c), age |-> HumanizeAge(c.age)]

(* list_projects: what the containers of each project are doing.           *)
Tally(p) ==
    LET of == {c \in seen : c.project = p}
        running == {c \in of : c.state = "running"}
        paused == {c \in of : c.state = "paused"}
    IN [project |-> p, running |-> Cardinality(running), paused |-> Cardinality(paused),
        exited |-> Cardinality(of) - Cardinality(running) - Cardinality(paused)]
(* ls_row_matches: the status of a project is running or exited.           *)
LsRowMatches(t) == Asked("status") = {} \/ (IF t.running > 0 THEN "running" ELSE "exited") \in Asked("status")
ProjectRows == {t \in {Tally(c.project) : c \in seen} :
                   (lq.all \/ t.running > 0 \/ t.paused > 0) /\ LsRowMatches(t)}

(* The image of a service, as written or as its build is tagged.           *)
Reference(s) == IF s.image # "" THEN s.image ELSE IF s.built THEN "built " \o s.name ELSE ""
WithImage == SelectSeq(lq.services, LAMBDA s : s.name \in Targets /\ Reference(s) # "")
ServicesOf(ref) == {s.name : s \in {t \in ToSet(WithImage) : Reference(t) = ref}}
(* One question for each service.                                          *)
EachService == [i \in DOMAIN WithImage |-> [ref |-> Reference(WithImage[i]), services |-> {WithImage[i].name}]]
(* images_with_services: one question for each reference, in the order of  *)
(* the services that first name it.                                        *)
ImageQuestions ==
    LET first == {i \in DOMAIN WithImage : \A j \in 1 .. i - 1 : Reference(WithImage[j]) # Reference(WithImage[i])}
        order == SetToSortSeq(first, <)
    IN [k \in DOMAIN order |-> [ref |-> Reference(WithImage[order[k]]),
                               services |-> ServicesOf(Reference(WithImage[order[k]]))]]

-----------------------------------------------------------------------------
(* Actions *)

NeedsListing == lq.verb # "images"

RefuseQuestion ==
    /\ lphase = "start" /\ (PortRefused \/ FilterRefused \/ UnknownAsked)
    /\ EndList("refused")
    /\ UNCHANGED <<lq, ctrs, imgs, seen, todo, rows, lasted>>

ListContainers ==
    /\ lphase = "start" /\ ~PortRefused /\ ~FilterRefused /\ ~UnknownAsked
    /\ \/ /\ NeedsListing /\ EndList("error") /\ UNCHANGED <<seen, lasted>>
       \/ /\ seen' = IF NeedsListing
                     THEN {c \in ctrs : /\ lq.verb = "ls" \/ c.project = lq.project
                                        /\ ListsAll \/ c.state = "running"}
                     ELSE {}
          /\ lasted' = seen' /\ lphase' = "answer" /\ UNCHANGED lresult
    /\ UNCHANGED <<lq, ctrs, imgs, todo, rows>>

(* The containers that `top` asks about: running, by service and number.   *)
RunningReplicas(n) == SortReplicaNames({NameOf(c) : c \in {d \in seen : d.svc = n /\ d.state = "running"}})

AnswerQuestion ==
    /\ lphase = "answer"
    /\ CASE lq.verb = "ps"     -> EndList("ok") /\ rows' = SetToSeq({PsRow(c) : c \in SelectContainers(seen)})
                                  /\ UNCHANGED todo
         [] lq.verb = "ls"     -> EndList("ok") /\ rows' = SetToSeq(ProjectRows) /\ UNCHANGED todo
         [] lq.verb = "top"    -> /\ todo' = FlattenSeq([i \in DOMAIN Deduplicated |-> RunningReplicas(Deduplicated[i])])
                                  /\ lphase' = "asking" /\ UNCHANGED <<rows, lresult>>
         [] lq.verb = "images" -> todo' = ImageQuestions /\ lphase' = "asking" /\ UNCHANGED <<rows, lresult>>
         [] OTHER ->
              \E c \in { CASE lq.verb = "exec"   -> ResolveReplicaName(LiveOrDeclared(lq.chosen[1]), lq.index)
                           [] lq.verb = "port"   -> SelectReplica(LiveOrDeclared(lq.chosen[1]), lq.index)
                           [] lq.verb = "attach" -> AttachReplica(OfService(lq.chosen[1]), lq.index) } :
                 /\ todo' = <<c>>
                 /\ IF c = Missing THEN EndList("no replica") ELSE lphase' = "asking" /\ UNCHANGED lresult
                 /\ UNCHANGED rows
    /\ UNCHANGED <<lq, ctrs, imgs, seen, lasted>>

(* Others stop and remove containers, and pull or remove images.           *)
ContainerChanges ==
    /\ lphase \in {"answer", "asking"} /\ lq.verb # "images"
    /\ \E c \in ctrs :
         /\ ctrs' = (ctrs \ {c}) \cup (IF c.state = "running" THEN {[c EXCEPT !.state = "exited"]} ELSE {})
         /\ lasted' = lasted \ {c}
    /\ UNCHANGED <<lq, imgs, seen, todo, rows, lphase, lresult>>

ImageChanges ==
    /\ lphase \in {"answer", "asking"} /\ lq.verb = "images"
    /\ \E r \in DOMAIN imgs : imgs' \in {[imgs EXCEPT ![r] = 9], [imgs EXCEPT ![r] = 0]}
    /\ UNCHANGED <<lq, ctrs, seen, todo, rows, lasted, lphase, lresult>>

Named(n) == {c \in ctrs : c.project = lq.project /\ NameOf(c) = n}
Binding(c) == SelectSeq(Publishers(c), LAMBDA p : p.target = lq.port.num)

AskOnly == UNCHANGED <<lq, ctrs, imgs, seen, lasted>>
FoundRow(r) == rows' = Append(rows, r) /\ todo' = Tail(todo)

AskAboutTarget ==
    /\ lphase = "asking" /\ lq.verb \in {"exec", "port", "attach"}
    /\ LET of == Named(Head(todo))
           c == OneOf(of)
       IN EndList(IF lq.verb = "exec" THEN "ok"
                  ELSE IF of = {} THEN "not found"
                  ELSE IF lq.verb = "attach" /\ c.state # "running" THEN "not running"
                  ELSE IF lq.verb = "port" /\ Binding(c) = <<>> THEN "not published" ELSE "ok")
    /\ UNCHANGED <<todo, rows>> /\ AskOnly

(* A container gone since the listing is left out.                         *)
AskTop ==
    /\ lphase = "asking" /\ lq.verb = "top" /\ todo # <<>>
    /\ LET of == Named(Head(todo))
       IN CASE of = {} -> todo' = Tail(todo) /\ UNCHANGED <<rows, lphase, lresult>>
            [] of # {} /\ OneOf(of).state = "running" ->
                   FoundRow(Head(todo)) /\ UNCHANGED <<lphase, lresult>>
            [] OTHER -> EndList("error") /\ UNCHANGED <<todo, rows>>
    /\ AskOnly

(* An image that is absent has a row without an id.                        *)
AskImage ==
    /\ lphase = "asking" /\ lq.verb = "images" /\ todo # <<>>
    /\ \/ EndList("error") /\ UNCHANGED <<todo, rows>>
       \/ /\ rows' = rows \o SetToSeq({[service |-> n, ref |-> Head(todo).ref,
                                        id |-> IF Head(todo).ref \in DOMAIN imgs THEN imgs[Head(todo).ref] ELSE 0] :
                                          n \in Head(todo).services})
          /\ todo' = Tail(todo) /\ UNCHANGED <<lphase, lresult>>
    /\ AskOnly

AllAsked ==
    /\ lphase = "asking" /\ todo = <<>>
    /\ EndList("ok")
    /\ UNCHANGED <<todo, rows>> /\ AskOnly

ListNext ==
    \/ RefuseQuestion \/ ListContainers \/ AnswerQuestion
    \/ ContainerChanges \/ ImageChanges
    \/ AskAboutTarget \/ AskTop \/ AskImage \/ AllAsked

ListDone == lphase = "done"

-----------------------------------------------------------------------------
(* Properties *)

(* The replicas of a service are 1 to n, n at most 9, and none is a        *)
(* one-off: what `up` leaves.                                              *)
Regular(names) == /\ \A c \in names : ~c.oneoff /\ c.num \in 1 .. 9
                  /\ {c.num : c \in names} = 1 .. Cardinality(names)

(* --index N means replica N to exec and cp, to port and to attach alike   *)
(* when the replicas are as `up` leaves them, and no index means the first.*)
(* With a gap, a one-off or ten replicas only exec and cp go by the number *)
(* (README).                                                               *)
IndexMeansReplica ==
    ListDone /\ lq.verb \in {"exec", "port", "attach"} /\ todo # <<>> =>
        LET names == IF lq.verb = "attach" THEN OfService(lq.chosen[1]) ELSE LiveOrDeclared(lq.chosen[1])
            wanted == IF lq.index = -1 THEN 1 ELSE lq.index
        IN /\ Regular(names) =>
                Head(todo) = OneOf({c \in names : c.num = wanted})
           /\ lq.verb = "exec" /\ Head(todo) # Missing =>
                ~Head(todo).oneoff /\ (lq.index # -1 => Head(todo).num \in {lq.index, 0})

(* What is printed adds up though containers and images change under it:   *)
(* services with one reference show one image; `top` shows every chosen    *)
(* container that ran all along; `ps` shows every port of a range, the     *)
(* host's and the container's in step, past 65535 too, and no age is in a  *)
(* unit it does not fill; `ls` counts every container, and shows a project *)
(* that is alive.                                                          *)
ListingAccounts ==
    ListDone /\ lresult = "ok" =>
        CASE lq.verb = "images" ->
               /\ \A i, j \in DOMAIN rows : rows[i].ref = rows[j].ref => rows[i].id = rows[j].id
               /\ {rows[i].service : i \in DOMAIN rows} =
                     {n \in Targets : ServiceNamed(n).image # "" \/ ServiceNamed(n).built}
          [] lq.verb = "top" ->
               {NameOf(c) : c \in {d \in lasted : d.state = "running" /\ d.svc \in Targets}} \subseteq ToSet(rows)
          [] lq.verb = "ps" ->
               \A i \in DOMAIN rows :
                  /\ \A k \in DOMAIN rows[i].ports : \E p \in ToSet(rows[i].ctr.ports) :
                       rows[i].ports[k].published - p.host = rows[i].ports[k].target - p.ctr
                  /\ rows[i].age.n * rows[i].age.unit <= rows[i].ctr.age
                  /\ rows[i].ctr.age - rows[i].age.n * rows[i].age.unit < Max({rows[i].age.unit, 1})
          [] lq.verb = "ls" ->
               /\ \A c \in seen : c.state \in {"running", "paused"} /\ Asked("status") = {} =>
                     \E i \in DOMAIN rows : rows[i].project = c.project
               /\ \A i \in DOMAIN rows : rows[i].running + rows[i].paused + rows[i].exited =
                     Cardinality({c \in seen : c.project = rows[i].project})
          [] OTHER -> TRUE
=============================================================================

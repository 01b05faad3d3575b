----------------------------- MODULE ImageBuild -----------------------------
(***************************************************************************)
(* `podup build` (engine/images/build): one service after another, each    *)
(* planned, its tag resolved against the images there are, its context     *)
(* written by a task of its own into a bounded body while the runtime      *)
(* reads it and reports progress, and its other tags applied at the end.   *)
(***************************************************************************)
EXTENDS BuildContext

CONSTANTS
    Projects,       \* sequences of services with a build section
    Stores,         \* the images there may be before the build
    BodyCap,        \* CHANNEL_CAP, in entries of the archive
    MaxLines        \* the lines of progress one build reports at most

VARIABLES
    services,   \* the services to build, in order
    images,     \* the runtime's images: a function from full names
    bat, bphase, plan, wire, \* the service at hand: its step, plan and resolved tag
    packer,     \* the task that writes the context: [state, left]
    body,       \* the request's body: [held, gone]
    runtime,    \* the runtime's side: [head, lines, says, over]
    tagged,     \* tags applied so far
    bresult

buildVars == <<services, images, bat, bphase, plan, wire, packer, body, runtime, tagged, bresult>>

-----------------------------------------------------------------------------
(* Image names: [reg, path, tag], the registry and the tag empty where the *)
(* name spells none.                                                       *)

(* normalize_docker_reference                                              *)
NormalizeDockerReference(n) ==
    IF n.reg # "" THEN n
    ELSE [n EXCEPT !.reg = "docker.io",
                   !.path = IF Len(n.path) = 1 THEN <<"library">> \o n.path ELSE n.path]

Full(n) == IF n.tag = "" THEN [n EXCEPT !.tag = "latest"] ELSE n

(* How the runtime resolves a name among the images it has.                *)
Candidates(n) ==
    IF n.reg # "" THEN <<Full(n)>>
    ELSE <<Full([n EXCEPT !.reg = "localhost"]), Full(NormalizeDockerReference(n))>>
Resolves(n) == \E i \in DOMAIN Candidates(n) : Candidates(n)[i] \in DOMAIN images
Resolved(n) == SelectSeq(Candidates(n), LAMBDA c : c \in DOMAIN images)[1]
RepoTags(n) == {t \in DOMAIN images : images[t] = images[Resolved(n)]}

(* match_repo_tag: a qualified name as it is spelled; a short name with a  *)
(* tag, of the same repository; a short name without one takes the first   *)
(* name the image has, whichever that is.                                  *)
MatchRepoTag(tags, n) ==
    CASE n.reg # ""                -> {t \in tags : t = n}
      [] n.reg = "" /\ n.tag # ""  ->
           {t \in tags : t = NormalizeDockerReference(n) \/ <<t.path, t.tag>> = <<n.path, n.tag>>}
      [] n.reg = "" /\ n.tag = ""  -> tags

(* normalize_image_reference: what it may return.                          *)
NormalizeImageReference(n) ==
    IF Resolves(n) /\ MatchRepoTag(RepoTags(n), n) # {} THEN MatchRepoTag(RepoTags(n), n)
    ELSE {NormalizeDockerReference(n)}

NoName == [reg |-> "", path |-> <<>>, tag |-> ""]
(* primary_build_tag: the image key, the first tag, a name of podup's.     *)
PrimaryTag(b) ==
    CASE b.image # NoName -> b.image
      [] b.image = NoName /\ b.tags # <<>> -> Head(b.tags)
      [] OTHER -> [reg |-> "", path |-> <<b.name>>, tag |-> "latest"]

-----------------------------------------------------------------------------
(* The steps of build_service *)

Service == services[bat]
NoPacker == [state |-> "none", left |-> 0]
NewBody == [held |-> 0, gone |-> FALSE]
NewRuntime == [head |-> "none", lines |-> 0, says |-> "nothing", over |-> FALSE]

BuildInit ==
    /\ services \in Projects
    /\ images \in Stores
    /\ bat = 1 /\ bphase = "next" /\ plan = Refused("") /\ wire = NoName
    /\ packer = NoPacker /\ body = NewBody /\ runtime = NewRuntime
    /\ tagged = 0 /\ bresult = "none"

EndBuild(r) == bphase' = "done" /\ bresult' = r

NextService ==
    /\ bphase = "next"
    /\ IF bat > Len(services) THEN EndBuild("ok") /\ UNCHANGED plan
       ELSE LET p == PlanBuild(Service)
            IN  /\ plan' = p
                /\ IF p.body = "refused" THEN EndBuild("refused")
                   ELSE bphase' = "query" /\ UNCHANGED bresult
    /\ UNCHANGED <<services, images, bat, wire, packer, body, runtime, tagged>>

(* service_build_query: fields that cannot be sent stop the build; then    *)
(* the tag is resolved, which asks the runtime.                            *)
Query ==
    /\ bphase = "query"
    /\ \/ EndBuild("query error") /\ UNCHANGED <<wire, packer>>
       \/ /\ ~Service.badField
          /\ wire' \in NormalizeImageReference(PrimaryTag(Service))
          /\ packer' = IF plan.parts = <<>> THEN NoPacker
                       ELSE [state |-> "write", left |-> Len(plan.parts)]
          /\ bphase' = "send" /\ UNCHANGED bresult
    /\ body' = NewBody /\ runtime' = NewRuntime /\ tagged' = 0
    /\ UNCHANGED <<services, images, bat, plan>>

(* The task blocks on a full channel until the receiver is gone.           *)
PackPart ==
    /\ packer.state = "write" /\ packer.left > 0
    /\ body.gone \/ body.held < BodyCap
    /\ IF body.gone THEN packer' = [packer EXCEPT !.state = "error"] /\ UNCHANGED body
       ELSE /\ packer' = [packer EXCEPT !.left = @ - 1]
            /\ body' = [body EXCEPT !.held = @ + 1]

PackStops ==
    /\ packer.state = "write"
    /\ \/ packer' = [packer EXCEPT !.state = "error"]
       \/ /\ packer.left = 0 /\ \A i \in DOMAIN plan.parts : ~plan.parts[i].failed
          /\ packer' = [packer EXCEPT !.state = "ok"]
    /\ UNCHANGED body

(* The runtime reads the body and answers when it likes: a head, lines of  *)
(* progress, an error, or a connection that breaks.                        *)
RuntimeReads ==
    /\ body.held > 0 /\ ~body.gone
    /\ body' = [body EXCEPT !.held = @ - 1]
    /\ UNCHANGED runtime

RuntimeAnswers ==
    /\ bphase \in {"send", "stream"} /\ runtime.head = "none"
    /\ \E head \in {"ok", "refused"} : runtime' = [runtime EXCEPT !.head = head]
    /\ UNCHANGED body

RuntimeSays ==
    /\ bphase \in {"send", "stream"} /\ runtime.head = "ok"
    /\ runtime.says = "nothing" /\ ~runtime.over
    /\ \/ /\ runtime.lines < MaxLines
          /\ runtime' = [runtime EXCEPT !.lines = @ + 1, !.says = "line"]
       \/ \E end \in {"error", "cut"} : runtime' = [runtime EXCEPT !.says = end, !.over = TRUE]
    /\ UNCHANGED body

(* The image exists when the end of the body has been read; a body that    *)
(* was cut short ends the same way, and may still make an image.           *)
RuntimeCommits ==
    /\ bphase \in {"send", "stream"} /\ runtime.head = "ok" /\ ~runtime.over
    /\ runtime.says = "nothing"
    /\ body.held = 0 /\ packer.state # "write"
    /\ images' = [t \in DOMAIN images \cup {Full(wire)} |->
                    IF t = Full(wire) THEN [of |-> bat, whole |-> packer.state # "error"]
                    ELSE images[t]]
    /\ runtime' = [runtime EXCEPT !.over = TRUE]
    /\ UNCHANGED body

Sides ==
    /\ \/ (PackPart \/ PackStops) /\ UNCHANGED <<runtime, images>>
       \/ (RuntimeReads \/ RuntimeAnswers \/ RuntimeSays) /\ UNCHANGED <<packer, images>>
       \/ RuntimeCommits /\ UNCHANGED packer
    /\ UNCHANGED <<services, bat, bphase, plan, wire, tagged, bresult>>

DropBody == body' = [held |-> 0, gone |-> TRUE]

(* The head of the answer; a refusal waits for the task and passes over    *)
(* what it says.                                                           *)
HeadArrives ==
    /\ bphase = "send" /\ runtime.head # "none"
    /\ IF runtime.head = "ok" THEN bphase' = "stream" /\ UNCHANGED body
       ELSE bphase' = "refused" /\ DropBody
    /\ UNCHANGED <<services, images, bat, plan, wire, packer, runtime, tagged, bresult>>

(* The stream of the answer up to its end, an error in it, or a break.     *)
StreamItem ==
    /\ bphase = "stream"
    /\ \/ /\ runtime.says = "line"
          /\ runtime' = [runtime EXCEPT !.says = "nothing"] /\ UNCHANGED <<bphase, body>>
       \/ /\ runtime.says \in {"error", "cut"}
          /\ bphase' = runtime.says /\ DropBody /\ UNCHANGED runtime
       \/ /\ runtime.says = "nothing" /\ runtime.over
          /\ bphase' = "ended" /\ DropBody /\ UNCHANGED runtime
    /\ UNCHANGED <<services, images, bat, plan, wire, packer, tagged, bresult>>

(* The answer's end alone decides (for a mutant).                          *)
OutcomeStreamOnly(stream, produced) ==
    CASE stream = "refused" -> "podman error"
      [] stream = "error"   -> "build error"
      [] stream = "cut"     -> "podman error"
      [] OTHER              -> "ok"

(* What the runtime said comes first, then what became of the upload.      *)
Outcome(stream, produced) ==
    CASE stream = "refused" -> "podman error"
      [] stream = "error"   -> "build error"
      [] stream = "cut"     -> "podman error"
      [] stream = "ended"   -> IF produced \in {"ok", "none"} THEN "ok" ELSE "packer error"

(* finish_upload: the task has ended, or is given up on after five seconds.*)
FinishUpload ==
    /\ bphase \in {"refused", "error", "cut", "ended"}
    /\ \E produced \in {packer.state} :
         LET outcome == Outcome(bphase, IF produced = "write" THEN "timeout" ELSE produced)
         IN  IF outcome = "ok" THEN bphase' = "tags" /\ UNCHANGED bresult
             ELSE EndBuild(outcome)
    /\ packer' = NoPacker
    /\ UNCHANGED <<services, images, bat, plan, wire, body, runtime, tagged>>

(* The colon of a registry's port taken for that of a tag.                 *)
Malformed(n) == n.reg = "host:5000" /\ n.tag = ""

(* apply_extra_tags: the resolved tag names the source.                    *)
ApplyTag ==
    /\ bphase = "tags"
    /\ IF tagged = Len(Service.tags)
       THEN bphase' = "next" /\ bat' = bat + 1 /\ UNCHANGED <<images, tagged, bresult>>
       ELSE LET extra == Service.tags[tagged + 1]
            IN  /\ UNCHANGED bat
                /\ \/ /\ extra = PrimaryTag(Service)
                      /\ tagged' = tagged + 1 /\ UNCHANGED <<images, bphase, bresult>>
                   \/ /\ extra # PrimaryTag(Service)
                      /\ \E to \in {t \in NormalizeImageReference(extra) : ~Malformed(t)} :
                           images' = [t \in DOMAIN images \cup {Full(to)} |->
                                        IF t = Full(to) THEN images[Full(wire)] ELSE images[t]]
                      /\ tagged' = tagged + 1 /\ UNCHANGED <<bphase, bresult>>
                   \/ /\ extra # PrimaryTag(Service)
                      /\ EndBuild("tag error") /\ UNCHANGED <<images, tagged>>
    /\ UNCHANGED <<services, plan, wire, packer, body, runtime>>

BuildNext ==
    \/ NextService \/ Query \/ Sides \/ HeadArrives \/ StreamItem \/ FinishUpload \/ ApplyTag

BuildDone == bphase = "done"

-----------------------------------------------------------------------------
(* Correctness *)

NamesOf(b) == {PrimaryTag(b)} \cup ToSet(b.tags)

(* A build that reports success left under every name of every service the *)
(* image made from that service's whole context, whatever images had those *)
(* names before.  A short name without a tag is the exception: it is given *)
(* to the first name of the image it resolves to.                          *)
BuiltAsAsked ==
    bresult = "ok" =>
      \A i \in DOMAIN services : \A n \in NamesOf(services[i]) :
        \/ n.reg = "" /\ n.tag = ""
        \/ \E j \in i + 1 .. Len(services) : n \in NamesOf(services[j])
        \/ Resolves(n) /\ images[Resolved(n)] = [of |-> i, whole |-> TRUE]

(* The paths of the entries of one origin.                                 *)
Paths(entries, from) == {e.path : e \in {entries[i] : i \in {j \in DOMAIN entries : entries[j].from = from}}}

ContextRight(ctx, patterns, own, added, ignores, dockerfile) ==
    /\ \A i \in DOMAIN ctx.tree :
         ctx.tree[i].path \notin added \cup (IF added = {} THEN {} ELSE {IgnoreFile(ctx).name})
           => (ctx.tree[i].path \in own) =
                (ctx.tree[i].path = dockerfile \/ ~Excluded(ctx.tree[i].path, patterns))
    /\ own \cap added = {}
    /\ \A n \in added : Excluded(n, ignores)

(* The context that is sent holds each of its files exactly when no ignore *)
(* pattern keeps it out, and the Dockerfile always, in an ignored directory*)
(* too, where its name is spelled as its path in the context: under any    *)
(* other spelling (`./v/D`) the Dockerfile is a file like the others, and  *)
(* one that is ignored is left out, which the comments in the code deny.   *)
(* Every file podup adds, secrets first, hides behind none of the context's*)
(* own and is kept out of the image by the ignore file it is sent with.    *)
ContextComplete ==
    (bphase = "query" /\ plan.body = "stream" /\ ~plan.parts[1].failed) =>
      ContextRight(Service.ctx, IgnoreFile(Service.ctx).file.patterns,
                   Paths(plan.parts[1].entries, "host"), Paths(plan.parts[1].entries, "added"),
                   plan.parts[1].ignores, plan.dockerfile)
=============================================================================

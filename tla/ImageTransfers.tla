--------------------------- MODULE ImageTransfers ---------------------------
(***************************************************************************)
(* `podup pull`, `podup push`, `podup export` and the pinning of digests   *)
(* (engine/images/build/{pull,push}, engine/images/image): the images of a *)
(* project's services moved through streams that may end with an error, be *)
(* cut or stall, several pulls at a time.                                  *)
(*                                                                         *)
(* A service is a record [name, image, platform, policy, autoupdate, deps, *)
(* tags]; an image that no service names is "".                            *)
(***************************************************************************)
EXTENDS Naturals, Sequences, SequencesExt, FiniteSetsExt

CONSTANTS
    Transfers,      \* what is asked: [verb, services, targets, deps, ignore, policy]
    Held,           \* the sets of [image, platform] there may be before
    Limit,          \* MAX_PULL_CONCURRENCY and MAX_RESOLVE_CONCURRENCY
    MaxFrames       \* the frames of an exported archive

VARIABLES
    ask,        \* the command: one of Transfers
    store,      \* the images of the host
    moves,      \* per key of a pull, or item of a push: how far it is
    got,        \* the names of the image keys whose content was delivered
    output,     \* what export wrote
    tphase, tresult

transferVars == <<ask, store, moves, got, output, tphase, tresult>>

-----------------------------------------------------------------------------
(* Which services, and under which policy *)

ServiceNames == {ask.services[i].name : i \in DOMAIN ask.services}
ServiceOf(name) == SelectSeq(ask.services, LAMBDA s : s.name = name)[1]

RECURSIVE PullDepClosure(_, _)
(* pull_dep_closure: a stack of names, each met once.                      *)
PullDepClosure(stack, set) ==
    IF stack = <<>> THEN set
    ELSE IF Last(stack) \in set THEN PullDepClosure(Front(stack), set)
    ELSE IF Last(stack) \notin ServiceNames THEN PullDepClosure(Front(stack), set \cup {Last(stack)})
    ELSE PullDepClosure(Front(stack) \o SelectSeq(ServiceOf(Last(stack)).deps, LAMBDA d : d \notin set),
                        set \cup {Last(stack)})

Wanted ==
    CASE ask.targets = <<>> -> ServiceNames
      [] ask.targets # <<>> /\ ask.deps -> PullDepClosure(ask.targets, {})
      [] OTHER -> ToSet(ask.targets)

(* pull_policy_checked: the runtime's word for a policy of a compose file. *)
PullPolicyChecked(policy) ==
    CASE policy \in {"always", "newer", "never"}                -> policy
      [] policy \in {"", "missing", "if_not_present", "build"}  -> "missing"
      [] policy \in {"daily", "weekly", "refresh", "every_1h"}  -> "newer"
      [] OTHER                                                  -> "invalid"

(* resolved_pull_policy: --pull first, then an image that is kept up to    *)
(* date from its registry; a service's own policy must be known either way.*)
ResolvedPullPolicy(s) ==
    IF PullPolicyChecked(s.policy) = "invalid" THEN "invalid"
    ELSE IF ask.policy = "" /\ s.autoupdate THEN "newer"
    ELSE PullPolicyChecked(IF ask.policy # "" THEN ask.policy ELSE s.policy)

(* One pull per image, whatever its platform (for a mutant).               *)
KeyOfImage(s) == [image |-> s.image, platform |-> "", policy |-> ResolvedPullPolicy(s)]

(* What is pulled once however many services name it.                      *)
Key(s) == [image |-> s.image, platform |-> s.platform, policy |-> ResolvedPullPolicy(s)]

Wants == SelectSeq(ask.services, LAMBDA s : s.image # "" /\ s.name \in Wanted)

Keys == {Key(Wants[i]) : i \in DOMAIN Wants}

-----------------------------------------------------------------------------
TransferInit ==
    /\ ask \in Transfers
    /\ store \in Held
    /\ moves = <<>> /\ got = {} /\ output = 0
    /\ tphase = "start" /\ tresult = "none"

EndTransfer(r) == tphase' = "done" /\ tresult' = r

Unknown == \E i \in DOMAIN ask.targets : ask.targets[i] \notin ServiceNames

StartPull ==
    /\ tphase = "start" /\ ask.verb = "pull"
    /\ IF Unknown \/ \E k \in Keys : k.policy = "invalid"
       THEN EndTransfer("refused") /\ UNCHANGED moves
       ELSE /\ tphase' = "pull" /\ UNCHANGED tresult
            /\ moves' = [k \in Keys |-> [state |-> "waiting", failed |-> FALSE, present |-> FALSE]]
    /\ UNCHANGED <<ask, store, got, output>>

(* bounded_join_all: in any order, at most Limit at once.                  *)
InFlight == {k \in DOMAIN moves : moves[k].state \in {"pulling", "asking"}}

BeginPull(k) ==
    /\ moves[k].state = "waiting" /\ Cardinality(InFlight) < Limit
    /\ moves' = [moves EXCEPT ![k].state = "pulling"]
    /\ UNCHANGED <<store, got>>

Here(k) == [image |-> k.image, platform |-> k.platform] \in store

(* The stream reports an error and may go on; the first error is kept.     *)
PullError(k) ==
    /\ moves[k].state = "pulling"
    /\ moves' = [moves EXCEPT ![k].failed = TRUE]
    /\ UNCHANGED <<store, got>>

(* The stream ends: the image is there unless an error was reported.  An   *)
(* image of another platform loses its name to the one that was fetched.   *)
PullEnds(k) ==
    /\ moves[k].state = "pulling"
    /\ moves' = [moves EXCEPT ![k].state = "asking"]
    /\ IF moves[k].failed THEN UNCHANGED <<store, got>>
       ELSE /\ k.policy = "never" => Here(k)
            /\ got' = got \cup {[image |-> k.image, platform |-> k.platform]}
            /\ store' = {i \in store : i.image # k.image}
                          \cup {[image |-> k.image, platform |-> k.platform]}

(* The request is refused, the stream is cut, or it is idle for too long.  *)
PullCut(k) ==
    /\ moves[k].state = "pulling"
    /\ moves' = [moves EXCEPT ![k] = [@ EXCEPT !.state = "asking", !.failed = TRUE]]
    /\ UNCHANGED <<store, got>>

(* image_present: anything but a description of the image counts as absent.*)
ImagePresent(k) ==
    /\ moves[k].state = "asking"
    /\ \E answered \in BOOLEAN :
         moves' = [moves EXCEPT ![k] = [@ EXCEPT !.state = "over",
                      !.present = answered /\ \E i \in store : i.image = k.image]]
    /\ UNCHANGED <<store, got>>

Pulling ==
    /\ tphase = "pull"
    /\ \E k \in DOMAIN moves :
         BeginPull(k) \/ PullError(k) \/ PullEnds(k) \/ PullCut(k) \/ ImagePresent(k)
    /\ UNCHANGED <<ask, output, tphase, tresult>>

Landed(s) == moves[Key(s)].present /\ ~moves[Key(s)].failed

(* pull_candidates: the failures are reported in the order of the file.    *)
ReportPull ==
    /\ tphase = "pull"
    /\ \A k \in DOMAIN moves : moves[k].state = "over"
    /\ LET failed == SelectSeq(Wants, LAMBDA s : ~Landed(s))
       IN  EndTransfer(IF failed = <<>> \/ ask.ignore THEN "ok" ELSE failed[1].name)
    /\ UNCHANGED <<ask, store, moves, got, output>>

-----------------------------------------------------------------------------
(* push: every image, then the other tags of its build, one at a time.     *)

PushItems ==
    LET targets == SelectSeq(ask.services, LAMBDA s :
                     s.image # "" /\ (ask.targets = <<>> \/ s.name \in ToSet(ask.targets)))
        Of(s) == <<s.image>> \o SelectSeq(s.tags, LAMBDA t : t # s.image)
    IN  FlattenSeq([i \in DOMAIN targets |-> Of(targets[i])])

StartPush ==
    /\ tphase = "start" /\ ask.verb = "push"
    /\ IF Unknown THEN EndTransfer("refused") /\ UNCHANGED moves
       ELSE tphase' = "push" /\ moves' = <<>> /\ UNCHANGED tresult
    /\ UNCHANGED <<ask, store, got, output>>

Failed(of) == Cardinality({i \in DOMAIN of : of[i] # "pushed"})

(* try_push with drain_push_stream: a stream that ended without an error,  *)
(* one that reported an error or was cut, one that stalled.                *)
PushNext ==
    /\ tphase = "push" /\ Len(moves) < Len(PushItems)
    /\ \E end \in {"pushed", "error", "stalled"} :
         /\ moves' = Append(moves, end)
         /\ got' = IF end = "pushed" THEN got \cup {PushItems[Len(moves) + 1]} ELSE got
         /\ IF end # "pushed" /\ ~ask.ignore THEN EndTransfer("push error")
            ELSE UNCHANGED <<tphase, tresult>>
    /\ UNCHANGED <<ask, store, output>>

EveryPushFailed(of) == of # <<>> /\ Failed(of) = Len(of)

ReportPush ==
    /\ tphase = "push" /\ Len(moves) = Len(PushItems)
    /\ EndTransfer(IF EveryPushFailed(moves) THEN "every push failed" ELSE "ok")
    /\ UNCHANGED <<ask, store, moves, got, output>>

-----------------------------------------------------------------------------
(* export: the frames of the body written to a file or to stdout.          *)

StartExport ==
    /\ tphase = "start" /\ ask.verb = "export"
    /\ IF Unknown \/ ask.sink = "terminal" THEN EndTransfer("refused")
       ELSE tphase' = "export" /\ UNCHANGED tresult
    /\ UNCHANGED <<ask, store, moves, got, output>>

WriteFrame ==
    /\ tphase = "export"
    /\ \/ output < MaxFrames /\ output' = output + 1 /\ UNCHANGED <<tphase, tresult>>
       \/ EndTransfer("stream error") /\ UNCHANGED output
       \/ ask.sink = "pipe" /\ EndTransfer("reader gone") /\ UNCHANGED output
       \/ EndTransfer("write error") /\ UNCHANGED output
       \/ output = MaxFrames /\ EndTransfer("ok") /\ UNCHANGED output
    /\ UNCHANGED <<ask, store, moves, got>>

(* split_image_ref and commit: the colon before a slash is a port.         *)
Commit ==
    /\ tphase = "start" /\ ask.verb = "commit"
    /\ \/ ~Unknown /\ ask.image # "" /\ EndTransfer("ok")
          /\ store' = store \cup {[image |-> ask.image, platform |-> ""]}
       \/ EndTransfer("refused") /\ UNCHANGED store
    /\ UNCHANGED <<ask, moves, got, output>>

-----------------------------------------------------------------------------
(* resolve_image_digests: answers in any order, the first failure of the   *)
(* file reported, nothing pinned unless every image could be inspected.    *)

StartResolve ==
    /\ tphase = "start" /\ ask.verb = "resolve"
    /\ tphase' = "resolve"
    /\ moves' = [i \in {j \in DOMAIN ask.services : ask.services[j].image # ""} |-> "waiting"]
    /\ UNCHANGED <<ask, store, got, output, tresult>>

ResolveStep(i) ==
    \/ /\ moves[i] = "waiting"
       /\ Cardinality({j \in DOMAIN moves : moves[j] = "asked"}) < Limit
       /\ moves' = [moves EXCEPT ![i] = "asked"]
    \/ /\ moves[i] = "asked"
       /\ \E answer \in {"digest", "no digest", "failed"} : moves' = [moves EXCEPT ![i] = answer]

Resolving ==
    /\ tphase = "resolve"
    /\ \E i \in DOMAIN moves : ResolveStep(i)
    /\ UNCHANGED <<ask, store, got, output, tphase, tresult>>

ReportResolve ==
    /\ tphase = "resolve"
    /\ \A i \in DOMAIN moves : moves[i] \in {"digest", "no digest", "failed"}
    /\ LET failed == {i \in DOMAIN moves : moves[i] = "failed"}
       IN  IF failed # {} THEN EndTransfer(ask.services[Min(failed)].name) /\ UNCHANGED got
           ELSE /\ EndTransfer("ok")
                /\ got' = {ask.services[i].name : i \in {j \in DOMAIN moves : moves[j] = "digest"}}
    /\ UNCHANGED <<ask, store, moves, output>>

TransferNext ==
    \/ StartPull \/ Pulling \/ ReportPull
    \/ StartPush \/ PushNext \/ ReportPush
    \/ StartExport \/ WriteFrame \/ Commit
    \/ StartResolve \/ Resolving \/ ReportResolve

TransferDone == tphase = "done"

-----------------------------------------------------------------------------
(* Correctness *)

(* Every service a set of names stands for together with what it needs.    *)
ClosedUnderDeps(names) ==
    \A n \in names \cap ServiceNames : ToSet(ServiceOf(n).deps) \subseteq names

ToDeliver ==
    {s \in ToSet(ask.services) :
        /\ s.image # ""
        /\ \A names \in SUBSET ServiceNames :
             (/\ (ask.targets = <<>> => names = ServiceNames)
              /\ ToSet(ask.targets) \subseteq names
              /\ (ask.deps => ClosedUnderDeps(names))) => s.name \in names}

(* A pull, push or export that reports success did what was asked, in      *)
(* whatever order the answers came: every service's image was delivered    *)
(* for its own platform, every tag was pushed (with --ignore-push-failures *)
(* at least one), the whole archive was written.                           *)
TransferDelivers ==
    /\ (tresult = "ok" /\ ask.verb = "pull" /\ ~ask.ignore) =>
         \A s \in ToDeliver : [image |-> s.image, platform |-> s.platform] \in got
    /\ (tresult = "ok" /\ ask.verb = "push") =>
         /\ ask.ignore \/ ToSet(PushItems) \subseteq got
         /\ PushItems # <<>> => got # {}
    /\ (tresult = "ok" /\ ask.verb = "export") => output = MaxFrames
=============================================================================

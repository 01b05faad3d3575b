---------------------------- MODULE EngineCalls ----------------------------
(***************************************************************************)
(* One call of the engine at a time: cp in either direction, build, pull,  *)
(* push, commit and export, a follow of logs, a console, stats or events,  *)
(* exec, the listings, the containers `up` keeps or replaces, a one-off    *)
(* run, and what a lifecycle command shows while it works.  The machines   *)
(* of the calls not made stay as they are.                                 *)
(***************************************************************************)
EXTENDS CopyUpload, CopyExtract, ImageBuild, ImageTransfers, StreamFollow, ExecSession, Listing,
        ConfigHash, ProgressBoard, OneOffRun, TLC

VARIABLE call

vars == <<call, uploadVars, extractVars, buildVars, transferVars, followVars, execVars, listVars,
          hashVars, boardVars, oneoffVars>>

UploadIdle ==
    /\ job = CHOOSE j \in Uploads : TRUE
    /\ fs = CHOOSE f \in Filesystems : TRUE
    /\ reports = FALSE /\ phase = "place"
    /\ place = [dir |-> <<>>, entry |-> <<>>, plan |-> <<>>, want |-> NoEntry]
    /\ stage = "idle" /\ at = 1 /\ buf = <<>> /\ sent = <<>>
    /\ packed = "none" /\ during = FALSE /\ receiver_dropped = FALSE
    /\ chan = <<>> /\ gone = FALSE
    /\ put = "none" /\ left = <<>> /\ result = "none"

ExtractIdle ==
    /\ order = CHOOSE o \in Downloads : TRUE
    /\ host = (CHOOSE h \in Hosts : TRUE) /\ host0 = host /\ broken = 0
    /\ route = "classify" /\ pumped = 0 /\ next = 1
    /\ files = {} /\ dirs = <<>> /\ outcome = "none"

BuildIdle ==
    /\ services = CHOOSE p \in Projects : TRUE
    /\ images = CHOOSE i \in Stores : TRUE
    /\ bat = 1 /\ bphase = "next" /\ plan = Refused("") /\ wire = NoName
    /\ packer = NoPacker /\ body = NewBody /\ runtime = NewRuntime
    /\ tagged = 0 /\ bresult = "none"

TransferIdle ==
    /\ ask = CHOOSE t \in Transfers : TRUE
    /\ store = CHOOSE h \in Held : TRUE
    /\ moves = <<>> /\ got = {} /\ output = 0
    /\ tphase = "start" /\ tresult = "none"

FollowIdle ==
    /\ watch = CHOOSE w \in Follows : TRUE
    /\ up = watch.up /\ lines = <<>> /\ listed = TRUE
    /\ fphase = "start" /\ fresult = "none"

ExecIdle ==
    /\ xjob = CHOOSE x \in Execs : TRUE
    /\ xphase = "target" /\ xresult = "none"
    /\ lost = FALSE /\ handles = 0 /\ ran = 0 /\ command = NoCommand
    /\ given = 0 /\ hand = "free" /\ inq = <<>> /\ ineof = FALSE
    /\ outq = <<>> /\ held = FALSE /\ printed = <<>> /\ severed = FALSE /\ xfault = FALSE

ListIdle ==
    /\ lq = CHOOSE q \in Questions : TRUE
    /\ ctrs = {} /\ imgs = [r \in {} |-> 0]
    /\ seen = {} /\ todo = <<>> /\ rows = <<>> /\ lasted = {}
    /\ lphase = "start" /\ lresult = "none"

HashIdle ==
    /\ compose = UneditedFile(None, CHOOSE s \in SecretSources : TRUE, FALSE)
    /\ HashStart

BoardIdle ==
    /\ show = CHOOSE d \in Displays : TRUE
    /\ bstage = "over" /\ reported = <<>> /\ event = NoEvent
    /\ board = NewBoard(<<>>) /\ installed = FALSE /\ opened = FALSE
    /\ buffered = <<>> /\ screen = <<>> /\ caret = "shown"
    /\ ticker = "off" /\ emitter = NoEmitter /\ handler = "none" /\ signalled = FALSE
    /\ told = <<>> /\ disturbed = FALSE

OneoffIdle == rjob = (CHOOSE r \in Oneoffs : TRUE) /\ OneoffStart

(* What the two arguments of cp may look like, and what they ask for.      *)
Endpoints == {"-", "SERVICE:", ":PATH", "SERVICE:PATH", "PATH"}
InContainer(e) == e = "SERVICE:PATH"

CpCall(src, dst) ==
    IF {src, dst} \cap {"-", "SERVICE:"} # {} \/ InContainer(src) = InContainer(dst) THEN "refused"
    ELSE IF InContainer(src) THEN "download" ELSE "upload"

Init ==
    /\ \/ \E src, dst \in Endpoints : call = CpCall(src, dst)
       \/ call \in {"build", "transfer", "follow", "exec", "list", "up", "run", "display"}
    /\ IF call = "upload" THEN UploadInit ELSE UploadIdle
    /\ IF call = "download" THEN ExtractInit ELSE ExtractIdle
    /\ IF call = "build" THEN BuildInit ELSE BuildIdle
    /\ IF call = "transfer" THEN TransferInit ELSE TransferIdle
    /\ IF call = "follow" THEN FollowInit ELSE FollowIdle
    /\ IF call = "exec" THEN ExecInit ELSE ExecIdle
    /\ IF call = "list" THEN ListInit ELSE ListIdle
    /\ IF call = "up" THEN HashInit ELSE HashIdle
    /\ IF call = "run" THEN OneoffInit ELSE OneoffIdle
    /\ IF call = "display" THEN BoardInit ELSE BoardIdle

Steps ==
    \/ /\ call = "upload" /\ UploadNext
       /\ UNCHANGED <<extractVars, buildVars, transferVars, followVars, execVars, listVars, hashVars, boardVars, oneoffVars>>
    \/ /\ call = "download" /\ ExtractNextStep
       /\ UNCHANGED <<uploadVars, buildVars, transferVars, followVars, execVars, listVars, hashVars, boardVars, oneoffVars>>
    \/ /\ call = "build" /\ BuildNext
       /\ UNCHANGED <<uploadVars, extractVars, transferVars, followVars, execVars, listVars, hashVars, boardVars, oneoffVars>>
    \/ /\ call = "transfer" /\ TransferNext
       /\ UNCHANGED <<uploadVars, extractVars, buildVars, followVars, execVars, listVars, hashVars, boardVars, oneoffVars>>
    \/ /\ call = "follow" /\ FollowNext
       /\ UNCHANGED <<uploadVars, extractVars, buildVars, transferVars, execVars, listVars, hashVars, boardVars, oneoffVars>>
    \/ /\ call = "exec" /\ ExecNext
       /\ UNCHANGED <<uploadVars, extractVars, buildVars, transferVars, followVars, listVars, hashVars, boardVars, oneoffVars>>
    \/ /\ call = "list" /\ ListNext
       /\ UNCHANGED <<uploadVars, extractVars, buildVars, transferVars, followVars, execVars, hashVars, boardVars, oneoffVars>>
    \/ /\ call = "up" /\ HashNext
       /\ UNCHANGED <<uploadVars, extractVars, buildVars, transferVars, followVars, execVars, listVars, boardVars, oneoffVars>>
    \/ /\ call = "run" /\ OneoffNext
       /\ UNCHANGED <<uploadVars, extractVars, buildVars, transferVars, followVars, execVars, listVars, hashVars, boardVars>>
    \/ /\ call = "display" /\ BoardNext
       /\ UNCHANGED <<uploadVars, extractVars, buildVars, transferVars, followVars, execVars, listVars, hashVars, oneoffVars>>

(* A call that has ended, or for `exec` on a terminal one whose two ends   *)
(* wait for each other (ExecSession, README).                              *)
CallOver ==
    \/ call = "refused"
    \/ call = "upload" /\ UploadDone
    \/ call = "download" /\ route = "over"
    \/ call = "build" /\ BuildDone
    \/ call = "transfer" /\ TransferDone
    \/ call = "follow" /\ FollowDone
    \/ call = "exec" /\ (ExecDone \/ TerminalStuck)
    \/ call = "list" /\ ListDone
    \/ call = "up" /\ HashDone
    \/ call = "run" /\ OneoffDone
    \/ call = "display" /\ ~Alive

Next ==
    \/ Steps /\ UNCHANGED call
    \/ CallOver /\ UNCHANGED vars

Spec == Init /\ [][Next]_vars

(* cp into a container says it is done when every entry of the source is   *)
(* there, and that it is in doubt only when one may not be, though the     *)
(* answer to an upload is often lost (copy/upload); cp out of a container  *)
(* leaves the tree it was sent, touches nothing else on the host, and      *)
(* gives up half-way only for a reason (copy/extract).                     *)
CopyFaithful ==
    /\ SuccessIsLanded /\ DoubtIsJustified
    /\ CopyDelivers /\ OutsideUntouched /\ NoNeedlessRefusal

(* A build is of the files and under the names the project asks for, and   *)
(* what was pulled, pushed, committed or exported is what was asked for    *)
(* (images/build).                                                         *)
ImagesFaithful == BuiltAsAsked /\ ContextComplete /\ TransferDelivers

(* A replica is the one its index means, and a listing shows what is there *)
(* (query/listing, query/inspect).                                         *)
ListingFaithful == IndexMeansReplica /\ ListingAccounts
=============================================================================

------------------------------ MODULE WatchSync ------------------------------
(***************************************************************************)
(* A watch session (backends/engine/host_files/watch): the watcher's       *)
(* callback thread puts file events into a bounded queue, and the session's *)
(* loop coalesces them into batches and copies what changed into the       *)
(* containers, or restarts or rebuilds them.  What the queue cannot take is *)
(* dropped, and a flag asks the loop for a resync.                         *)
(*                                                                         *)
(* The callback and the loop interleave with each other and with whoever   *)
(* edits the files.  Nothing is retried: an action that fails is warned    *)
(* about, and a container that is rebuilt is not synced again.  Paths are  *)
(* files; a rule's targets do not overlap another's.                       *)
(***************************************************************************)
EXTENDS Naturals, Sequences, SequencesExt

CONSTANTS Paths, Contents, SizeOf, Gone,
          Rescan,           \* the event of a kernel queue that overflowed
          Opened,           \* one of a file that was only read
          Order,            \* the rules, as the file declares them
          Action,           \* what each rule does
          Container,        \* the container of each rule's service
          Watches,          \* the paths under each rule's root
          Ignore, Include,  \* its pattern lists: what each pattern matches, as a
                            \* path of the rule and as one of the project
          Ignorefile,       \* the patterns of its service's build context
          Mounts,           \* the mounts of its container: the paths whose copies
                            \* are under each, and those of them that land in the
                            \* rule's own root on the host
          Large,            \* the rules whose root has more files than the kernel keeps
          Baked,            \* the paths its image holds at the rule's target
          Initial,          \* the rules with initial_sync
          WATCH_CHANNEL_CAP, WATCH_MAX_BATCH_PATHS,
          KernelCap,        \* bound: events the kernel keeps
          MaxChanges        \* bound: edits of each file

Rules == {Order[i] : i \in DOMAIN Order}
Syncing == {"sync", "sync+restart", "sync+exec"}
SyncRules == {r \in Rules : Action[r] \in Syncing}
Containers == {Container[r] : r \in Rules}
Pattern == [negated : BOOLEAN, hits : SUBSET Paths, legacy : SUBSET Paths]

ASSUME RuleAssumption ==
  /\ Order \in Seq(Rules)
  /\ Action \in [Rules -> Syncing \cup {"restart", "rebuild"}]
  /\ Watches \in [Rules -> SUBSET Paths]
  /\ \A r \in Rules : \A mount \in Mounts[r] :
       mount.covers \subseteq Paths /\ mount.watched \subseteq mount.covers /\ mount.depth \in Nat
  /\ Baked \in [Rules -> SUBSET Paths]
  /\ \A lists \in {Ignore, Include, Ignorefile} : \A r \in Rules : lists[r] \in Seq(Pattern)
  /\ Initial \subseteq Rules

ASSUME BoundAssumption ==
  /\ WATCH_CHANNEL_CAP \in Nat \ {0} /\ WATCH_MAX_BATCH_PATHS \in Nat \ {0}
  /\ KernelCap \in Nat \ {0} /\ MaxChanges \in [Paths -> Nat]
  /\ Gone \notin Contents /\ Rescan \notin Paths /\ Opened \notin Paths \cup {Rescan}

VARIABLES
  host,       \* the file at each path
  kernel,     \* events the kernel has for the callback
  cb, cbEvent,\* the callback: what it is doing, with which event
  queue,      \* the channel
  flag,       \* overflow
  permit,     \* what overflow_wake holds
  pc,         \* the loop
  batch,      \* the paths coalesced
  turn,       \* the place in it of the path that is dispatched
  done,       \* whole-container actions this batch has run
  work,       \* the places in Order of the rules left for a path, or for a resync
  stage,      \* how far the first of those is
  sent,       \* the files its archive holds
  failed,     \* rules the resync could not cover
  copy,       \* each sync rule's files in its container
  dir,        \* does the rule's target directory exist
  up,         \* containers that exist
  ensured,    \* rules whose target was ensured with mkdir
  owed,       \* history: the copies the session has promised and not disowned
  dropped,    \* history: those whose last event was dropped
  presumed,   \* history: those taken for done on what Podman said of them
  rebuilt,    \* history: those that went with a container that was rebuilt
  changes

events == <<kernel, cb, cbEvent, queue, flag, permit>>
loop == <<pc, batch, turn, done, work, stage, sent, failed>>
there == <<copy, dir, up>>
history == <<owed, dropped, presumed, rebuilt>>
vars == <<host, events, loop, there, ensured, history, changes>>

(***************************************************************************)
(* What a rule's patterns decide.                                          *)
(***************************************************************************)

\* The last pattern that matches decides.
evaluate(p, patterns) ==
  LET hit == SelectSeq(patterns, LAMBDA x : p \in x.hits)
  IN  IF hit = <<>> THEN "none" ELSE IF Last(hit).negated THEN "no" ELSE "yes"

\* The rule's own patterns come after those of the build context.
evaluate_ignore(r, p) ==
  IF evaluate(p, Ignore[r]) # "none" THEN evaluate(p, Ignore[r]) ELSE evaluate(p, Ignorefile[r])

\* The matching of old: any pattern, read from the project's directory.
legacy(p, patterns) == \E i \in DOMAIN patterns : p \in patterns[i].legacy

legacy_ignore_fallback(r, p) == legacy(p, Ignore[r])

ignored_with_fallback(r, p) ==
  \/ evaluate_ignore(r, p) = "yes"
  \/ evaluate_ignore(r, p) = "none" /\ legacy_ignore_fallback(r, p)

legacy_include_fallback(r, p) == legacy(p, Include[r])

included_with_fallback(r, p) ==
  \/ Include[r] = <<>>
  \/ evaluate(p, Include[r]) = "yes"
  \/ evaluate(p, Include[r]) = "none" /\ legacy_include_fallback(r, p)

\* RuleFilter::excludes
excludes(r, p) == ignored_with_fallback(r, p) \/ ~included_with_fallback(r, p)

\* The mount a copy would land in: the deepest one over it.
Mount(r, p) ==
  LET over == {m \in Mounts[r] : p \in m.covers}
  IN  {m \in over : \A n \in over : n.depth <= m.depth}

\* A copy there would land in the rule's own tree: the mount is a bind that can
\* be written and leads back.
writes_back(r, p) == \E m \in Mount(r, p) : m.bind /\ ~m.read_only /\ p \in m.watched

ExcludedOnly(r, p) == excludes(r, p)
Skip(r, p) == excludes(r, p) \/ writes_back(r, p)

Excluded == [r \in Rules |-> {p \in Paths : excludes(r, p)}]
Shared == [r \in Rules |-> {p \in Paths : writes_back(r, p)}]
Skipped == [r \in Rules |-> {p \in Paths : Skip(r, p)}]

\* The paths whose copies outlive the container: a volume or a bind holds them,
\* not a tmpfs; and those a new container has from its image, built from what the
\* ignore file leaves of the context, with no mount over them.
Kept == [r \in Rules |-> {p \in Paths : \E m \in Mount(r, p) : m.lasts}]
Built == [r \in Rules |-> {p \in Baked[r] : Mount(r, p) = {} /\ evaluate(p, Ignorefile[r]) # "yes"}]

\* The copies a rule is for.
Pairs(p) == {<<r, p>> : r \in {q \in SyncRules : p \in Watches[q] /\ p \notin Skipped[q]}}

\* matching_rules: in the order of the file, each whole-container action once a batch.
DoneKey(r) == <<Action[r], Container[r]>>

\* The i-th rule watches p, and its patterns let it through.
Matches(i, p) == p \in Watches[Order[i]] \ Excluded[Order[i]]

\* One of those that is for the whole container, and the key it leaves.
Repeats(i, p) == Matches(i, p) /\ Action[Order[i]] \notin Syncing
Keys(p) == {DoneKey(Order[i]) : i \in {j \in DOMAIN Order : Repeats(j, p)}}

matching_rules(p) ==
  {i \in DOMAIN Order :
     /\ Matches(i, p)
     /\ Repeats(i, p) =>
          /\ DoneKey(Order[i]) \notin done
          /\ \A j \in 1 .. i - 1 : Repeats(j, p) => DoneKey(Order[j]) # DoneKey(Order[i])}

Init ==
  /\ host \in [Paths -> Contents \cup {Gone}]
  /\ kernel = <<>> /\ cb = "idle" /\ cbEvent = Rescan
  /\ queue = <<>> /\ flag = FALSE /\ permit = FALSE
  /\ pc = "setup" /\ batch = <<>> /\ turn = 0 /\ done = {} /\ work = {} /\ stage = "none"
  /\ sent = <<>> /\ failed = {}
  /\ copy = [r \in SyncRules |-> [p \in Paths |-> Gone]]
  /\ dir \in [SyncRules -> BOOLEAN]
  /\ up = Containers
  /\ ensured = {}
  /\ owed = {} /\ dropped = {} /\ presumed = {} /\ rebuilt = {}
  /\ changes = [p \in Paths |-> 0]

(***************************************************************************)
(* The files, the kernel and the callback thread.                          *)
(***************************************************************************)

WatchingLate == pc \notin {"setup", "initial", "ended"}
Watching == pc \notin {"setup", "ended"}

\* The kernel queues an event, or, when its queue is full, that it did.
Full == Len(kernel) >= KernelCap
Overrun == kernel' = IF Full /\ Last(kernel) = Rescan THEN kernel ELSE Append(kernel, Rescan)
Queue(e) == IF Full THEN Overrun ELSE kernel' = Append(kernel, e)

\* A file is written or removed.
Raise(p) ==
  IF ~Watching THEN UNCHANGED <<kernel, dropped>>
  ELSE Queue(p) /\ dropped' = IF Full THEN dropped \cup Pairs(p) ELSE dropped

\* Files are read.  The watches ask for opens as well: events for the callback to
\* discard, with which all of a large tree fills the kernel's queue.
Opens(large) ==
  /\ \/ IF kernel # <<>> /\ Last(kernel) = Opened THEN UNCHANGED kernel ELSE Queue(Opened)
     \/ large /\ Overrun
  /\ UNCHANGED dropped

Edit(p, c) ==
  /\ pc # "ended" /\ changes[p] < MaxChanges[p]
  /\ host[p] # c
  /\ host' = [host EXCEPT ![p] = c]
  /\ Raise(p)
  /\ owed' = IF Watching THEN owed \cup Pairs(p) ELSE owed
  /\ changes' = [changes EXCEPT ![p] = @ + 1]
  /\ UNCHANGED <<cb, cbEvent, queue, flag, permit, loop, there, ensured, presumed, rebuilt>>

\* should_enqueue, in the callback: one that was only read takes no slot.
should_enqueue(e) == e # Opened

Discard ==
  /\ cb = "idle" /\ Watching /\ kernel # <<>> /\ ~should_enqueue(Head(kernel))
  /\ kernel' = Tail(kernel)
  /\ UNCHANGED <<host, cb, cbEvent, queue, flag, permit, loop, there, ensured, history, changes>>

\* The callback is called with the next event.
TakeEvent ==
  /\ cb = "idle" /\ Watching /\ kernel # <<>> /\ should_enqueue(Head(kernel))
  /\ cbEvent' = Head(kernel)
  /\ kernel' = Tail(kernel)
  /\ cb' = IF Head(kernel) = Rescan THEN "storeRescan" ELSE "send"
  /\ UNCHANGED <<host, queue, flag, permit, loop, there, ensured, history, changes>>

CbOnly == UNCHANGED <<host, kernel, loop, there, ensured, owed, presumed, rebuilt, changes>>

\* enqueue: overflow.store, before anything is sent for a Rescan, or after a
\* try_send that found the queue full.
StoreFlag ==
  /\ cb \in {"storeRescan", "store"}
  /\ flag' = TRUE
  /\ cb' = IF cb = "store" THEN "notify" ELSE "notifyRescan"
  /\ CbOnly /\ UNCHANGED <<cbEvent, queue, permit, dropped>>

NoNotify ==
  /\ cb \in {"notifyRescan", "notify"}
  /\ permit' = (cb = "notifyRescan" \/ permit)
  /\ cb' = IF cb = "notify" THEN "idle" ELSE "send"
  /\ CbOnly /\ UNCHANGED <<cbEvent, queue, flag, dropped>>

\* enqueue: overflow_wake.notify_one, which keeps a permit.
NotifyOne ==
  /\ cb \in {"notifyRescan", "notify"}
  /\ permit' = TRUE
  /\ cb' = IF cb = "notify" THEN "idle" ELSE "send"
  /\ CbOnly /\ UNCHANGED <<cbEvent, queue, flag, dropped>>

\* enqueue: try_send.
TrySend ==
  /\ cb = "send"
  /\ IF Len(queue) < WATCH_CHANNEL_CAP
     THEN queue' = Append(queue, cbEvent) /\ cb' = "idle" /\ UNCHANGED dropped
     ELSE /\ cb' = "store" /\ UNCHANGED queue
          /\ dropped' = IF cbEvent = Rescan THEN dropped ELSE dropped \cup Pairs(cbEvent)
  /\ cbEvent' = Rescan
  /\ CbOnly /\ UNCHANGED <<flag, permit>>

Callback == Discard \/ TakeEvent \/ StoreFlag \/ NotifyOne \/ TrySend

(***************************************************************************)
(* The loop.                                                               *)
(***************************************************************************)

LoopOnly == UNCHANGED <<host, kernel, cb, cbEvent, there, ensured, history, changes>>

\* The rules a sync_all goes through, each from its root.
AllInitial == {i \in DOMAIN Order : Order[i] \in Initial /\ Order[i] \in SyncRules}

\* A rule without a target, no rule at all, or a watcher that cannot be set up.
Refused ==
  /\ pc = "setup"
  /\ pc' = "ended"
  /\ LoopOnly /\ UNCHANGED <<queue, flag, permit, batch, turn, done, work, stage, sent, failed>>

\* The watcher listens before the initial sync reads anything.
Register ==
  /\ pc = "setup"
  /\ pc' = "initial"
  /\ work' = AllInitial
  /\ LoopOnly /\ UNCHANGED <<queue, flag, permit, batch, turn, done, stage, sent, failed>>

\* recover_from_overflow, at the top of the loop and again after a batch.
RecoverFromOverflow ==
  /\ pc \in {"recover", "again"}
  /\ flag' = FALSE
  /\ IF flag THEN /\ pc' = IF pc = "again" THEN "resyncAgain" ELSE "resync"
                  /\ work' = AllInitial /\ failed' = {}
     ELSE pc' = (IF pc = "again" THEN "recover" ELSE "wait") /\ UNCHANGED <<work, failed>>
  /\ LoopOnly /\ UNCHANGED <<queue, permit, batch, turn, done, stage, sent>>

\* The rules the warning names.
rules_not_recovered ==
  {r \in Rules : r \in failed \/ ~(r \in Initial /\ Action[r] = "sync")}

\* sync_all is through.  A resync names the rules it did not cover, and what
\* they were owed from dropped events is disowned with that.
SyncedAll ==
  /\ pc \in {"initial", "resync", "resyncAgain"}
  /\ work = {} /\ stage = "none"
  /\ pc' = IF pc = "resync" THEN "wait" ELSE "recover"
  /\ failed' = {}
  /\ IF pc = "initial" THEN UNCHANGED <<owed, dropped>>
     ELSE LET told == {x \in dropped : x[1] \in rules_not_recovered}
          IN  owed' = owed \ told /\ dropped' = dropped \ told
  /\ UNCHANGED <<host, events, batch, turn, done, work, stage, sent, there, ensured, presumed, rebuilt, changes>>

\* rx.recv() had an event: the first of a batch, or one that is only a signal.
Receive ==
  /\ pc = "wait" /\ queue # <<>>
  /\ queue' = Tail(queue)
  /\ IF Head(queue) = Rescan THEN pc' = "recover" /\ UNCHANGED batch
     ELSE pc' = "collect" /\ batch' = <<Head(queue)>>
  /\ LoopOnly /\ UNCHANGED <<flag, permit, turn, done, work, stage, sent, failed>>

\* overflow_wake.notified()
Woken ==
  /\ pc = "wait" /\ permit
  /\ permit' = FALSE
  /\ pc' = "recover"
  /\ LoopOnly /\ UNCHANGED <<queue, flag, batch, turn, done, work, stage, sent, failed>>

Interrupt ==
  /\ pc = "wait"
  /\ pc' = "ended"
  /\ LoopOnly /\ UNCHANGED <<queue, flag, permit, batch, turn, done, work, stage, sent, failed>>

\* Within the debounce window.
Coalesce ==
  /\ pc = "collect" /\ queue # <<>> /\ Len(batch) < WATCH_MAX_BATCH_PATHS
  /\ queue' = Tail(queue)
  /\ batch' = IF Head(queue) = Rescan THEN batch ELSE Append(batch, Head(queue))
  /\ LoopOnly /\ UNCHANGED <<flag, permit, pc, turn, done, work, stage, sent, failed>>

\* The window closes.
CloseBatch ==
  /\ pc = "collect"
  /\ done' = {}
  /\ pc' = "dispatch"
  /\ LoopOnly /\ UNCHANGED <<queue, flag, permit, batch, turn, work, stage, sent, failed>>

\* A batch is dispatched path by path, each where it is first seen.
FirstSeen(i) == \A j \in 1 .. i - 1 : batch[j] # batch[i]

\* dispatch_batch: the rules of the next path, or the batch is through.
NextPath ==
  /\ pc = "dispatch" /\ work = {} /\ stage = "none"
  /\ IF turn = Len(batch)
     THEN pc' = "again" /\ batch' = <<>> /\ turn' = 0 /\ done' = {} /\ UNCHANGED work
     ELSE /\ turn' = turn + 1
          /\ IF FirstSeen(turn + 1)
             THEN /\ work' = matching_rules(batch[turn + 1])
                  /\ done' = done \cup Keys(batch[turn + 1])
             ELSE UNCHANGED <<work, done>>
          /\ UNCHANGED <<pc, batch>>
  /\ LoopOnly /\ UNCHANGED <<queue, flag, permit, stage, sent, failed>>

(***************************************************************************)
(* One rule for one path, or for its root.                                 *)
(***************************************************************************)

\* The rule, and the path when it is not a resync that goes through its root.
Place == CHOOSE i \in work : \A j \in work : i <= j
Job == Order[Place]
Path == batch[turn]
Whole == pc # "dispatch"

\* The files the job is about.
Files == IF Whole THEN {p \in Watches[Job] : p \notin Skipped[Job]} ELSE {Path}

At(s) == work # {} /\ stage = s

Over == work' = work \ {Place} /\ stage' = "none" /\ sent' = <<>>

\* The job is over with an error, which is warned about.
Fail ==
  /\ Over
  /\ failed' = IF pc \in {"resync", "resyncAgain"} THEN failed \cup {Job} ELSE failed
  /\ owed' = IF Whole THEN owed ELSE owed \ {<<Job, Path>>}
  /\ UNCHANGED <<pc, batch, turn, done>>

\* A sync that is done leaves the rest of its rule's action.
Done ==
  /\ IF Action[Job] = "sync" \/ Whole THEN Over
     ELSE stage' = "act" /\ sent' = <<>> /\ UNCHANGED work
  /\ UNCHANGED <<pc, batch, turn, done, failed>>

Step(s) == stage' = s /\ UNCHANGED <<pc, batch, turn, done, work, failed>>

Outside == UNCHANGED <<host, cb, cbEvent, queue, flag, permit, changes>>

\* Nothing of the upload passes the filters.
NothingToCopy ==
  IF Whole THEN FALSE ELSE Path \in Skipped[Job]

\* sync_op_for and sync_to_container up to the mkdir, which is asked for once
\* per target.
BeginUpload ==
  /\ IF NothingToCopy THEN Done /\ UNCHANGED ensured
     ELSE /\ Step(IF Job \in ensured THEN "pack" ELSE "mkdir") /\ UNCHANGED sent
          /\ ensured' = ensured \cup {Job}
  /\ UNCHANGED owed

\* sync_op_for: what is on the host now decides, not the event.
Present == IF Whole THEN TRUE ELSE host[Path] # Gone

\* The path is there, or is not, or cannot be read.
Start ==
  /\ At("none") /\ Job \in SyncRules
  /\ \/ Present /\ BeginUpload
     \/ /\ ~Present
        /\ IF Path \in Shared[Job] THEN Done ELSE (Step("remove") /\ UNCHANGED sent)
        /\ UNCHANGED <<owed, ensured>>
     \/ Fail /\ UNCHANGED ensured
  /\ UNCHANGED <<kernel, there, dropped, presumed, rebuilt>> /\ Outside

\* mkdir -p, whose result is not looked at.
Mkdir ==
  /\ At("mkdir")
  /\ \/ /\ Container[Job] \in up
        /\ dir' = [dir EXCEPT ![Job] = TRUE]
     \/ UNCHANGED dir
  /\ Step("pack") /\ UNCHANGED sent
  /\ UNCHANGED <<kernel, copy, up, ensured, history>> /\ Outside

\* The archive is packed, from what is there by now.
Pack ==
  /\ At("pack")
  /\ LET files == {p \in Files : host[p] # Gone}
     IN  \/ /\ IF Whole THEN TRUE ELSE files # {}
            /\ sent' = [p \in files |-> host[p]]
            /\ Opens(Whole /\ Job \in Large)
            /\ Step("put") /\ UNCHANGED owed
         \/ Fail /\ UNCHANGED <<kernel, dropped>>
  /\ UNCHANGED <<there, ensured, presumed, rebuilt>> /\ Outside

\* The copies of ps that hold what the host has by now: an event of theirs that
\* was dropped is made up for.
Current(ps) == {<<Job, p>> : p \in {q \in ps : sent[q] = host[q]}}

\* The files ps of the archive are extracted; one that is shared changes on the
\* host as well.
Land(ps) ==
  /\ copy' = [copy EXCEPT ![Job] = [p \in Paths |-> IF p \in ps THEN sent[p] ELSE @[p]]]
  /\ dropped' = dropped \ Current(ps)
  /\ presumed' = presumed \ {<<Job, p>> : p \in ps}
  /\ rebuilt' = rebuilt \ {<<Job, p>> : p \in ps}
  /\ UNCHANGED <<dir, up>>

WriteBack(ps) ==
  IF ps \cap Shared[Job] = {} THEN UNCHANGED kernel
  ELSE Queue(CHOOSE p \in ps \cap Shared[Job] : TRUE)

\* Once a sync of the whole rule has succeeded, its files are promised too.
Promise(ps) == owed' = owed \cup {<<Job, p>> : p \in ps}

Extracted == IF Container[Job] \in up /\ dir[Job] THEN SUBSET DOMAIN sent ELSE {{}}

\* PUT archive: all of it extracted and answered; failed, whatever was
\* extracted by then; or the connection closed without an answer.
Put ==
  /\ At("put")
  /\ \E ps \in Extracted :
       /\ Land(ps) /\ WriteBack(ps)
       /\ \/ /\ ps = DOMAIN sent /\ Container[Job] \in up /\ dir[Job]
             /\ Done /\ Promise(ps)
          \/ Fail
          \/ Step("verify") /\ UNCHANGED <<owed, sent>>
  /\ UNCHANGED ensured /\ Outside

\* Mutant: whatever is there will do.
entry_there(p) == copy[Job][p] # Gone

entry_landed(p) ==
  copy[Job][p] # Gone /\ SizeOf[copy[Job][p]] = SizeOf[sent[p]]

\* The copies of ps that hold something else of the size that was sent.
Alike(ps) == {<<Job, p>> : p \in {q \in ps : /\ copy[Job][q] \notin {sent[q], Gone}
                                            /\ SizeOf[copy[Job][q]] = SizeOf[sent[q]]}}

\* Each entry is looked up, and must be of the size that was sent.
Verify ==
  /\ At("verify")
  /\ \/ /\ sent # <<>> /\ \A p \in DOMAIN sent : entry_landed(p)
        /\ presumed' = presumed \cup Alike(DOMAIN sent)
        /\ dropped' = dropped \ Current(DOMAIN sent)
        /\ Done /\ Promise(DOMAIN sent)
     \/ Fail /\ UNCHANGED <<presumed, dropped>>
  /\ UNCHANGED <<kernel, there, rebuilt, ensured>> /\ Outside

\* rm -rf in the container: done and seen done; or not seen, done or not; or the
\* output broke off while it ran, which leaves no exit status to object to.
RemoveCopy ==
  /\ At("remove")
  /\ \/ /\ Container[Job] \in up
        /\ copy' = [copy EXCEPT ![Job][Path] = Gone]
        /\ dropped' = IF host[Path] = Gone THEN dropped \ {<<Job, Path>>} ELSE dropped
        /\ presumed' = presumed \ {<<Job, Path>>} /\ rebuilt' = rebuilt \ {<<Job, Path>>}
        /\ UNCHANGED <<dir, up>>
        /\ (Done /\ UNCHANGED owed) \/ Fail
     \/ Fail /\ UNCHANGED <<there, dropped, presumed, rebuilt>>
     \/ /\ Container[Job] \in up
        /\ presumed' = presumed \cup {<<Job, Path>>}
        /\ Done /\ UNCHANGED <<there, owed, dropped, rebuilt>>
  /\ UNCHANGED <<kernel, ensured>> /\ Outside

\* watch_restart, and watch_exec of the rule's command: neither changes files.
Act ==
  /\ \/ At("act")
     \/ At("none") /\ Action[Job] = "restart"
  /\ Over /\ UNCHANGED <<pc, batch, turn, done, failed>>
  /\ UNCHANGED <<kernel, there, ensured, history>> /\ Outside

\* watch_rebuild, as far as the image: built from what is there now of the
\* context, or failed.
Build ==
  /\ At("none") /\ Action[Job] = "rebuild"
  /\ \/ sent' = host /\ Opens(Job \in Large) /\ Step("recreate")
     \/ Over /\ UNCHANGED <<kernel, dropped, pc, batch, turn, done, failed>>
  /\ UNCHANGED <<there, ensured, owed, presumed, rebuilt>> /\ Outside

RulesIn(c) == {r \in SyncRules : Container[r] = c}
Copies(c, of) == {x \in RulesIn(c) \X Paths : x[2] \in of[x[1]]}

\* The container is replaced.  What was copied into it stays in its volumes; of
\* the rest the new one has what its image holds.
Recreated(c) ==
  /\ up' = up \cup {c}
  /\ copy' = [r \in SyncRules |-> [p \in Paths |->
       IF r \notin RulesIn(c) \/ p \in Kept[r] THEN copy[r][p] ELSE IF p \in Built[r] THEN sent[p] ELSE Gone]]
  /\ dir' = [r \in SyncRules |-> IF r \in RulesIn(c) THEN Mounts[r] # {} \/ Built[r] # {} ELSE dir[r]]
  /\ presumed' = presumed \ Copies(c, Built)
  /\ rebuilt' = (rebuilt \cup (Copies(c, [r \in Rules |-> Paths \ Kept[r]]))) \ Copies(c, Built)
  /\ UNCHANGED <<owed, dropped>>

\* Removed and not created again.
Removed(c) ==
  /\ up' = up \ {c}
  /\ copy' = [r \in SyncRules |-> [p \in Paths |->
       IF r \notin RulesIn(c) \/ p \in Kept[r] THEN copy[r][p] ELSE Gone]]
  /\ dir' = [r \in SyncRules |-> r \notin RulesIn(c) /\ dir[r]]
  /\ rebuilt' = rebuilt \cup Copies(c, [r \in Rules |-> Paths \ Kept[r]])
  /\ UNCHANGED <<owed, dropped, presumed>>

\* recreate_service: replaced and initialized, with its post_start hooks run or
\* failed; failed before anything; or failed between the delete and the create.
\* None of the rules is synced again.
Recreate ==
  /\ At("recreate")
  /\ LET c == Container[Job]
     IN  Recreated(c) \/ Removed(c) \/ UNCHANGED <<there, history>>
  /\ Over /\ UNCHANGED <<pc, batch, turn, done, failed>>
  /\ UNCHANGED <<kernel, ensured>> /\ Outside

Dispatch == Start \/ Mkdir \/ Pack \/ Put \/ Verify \/ RemoveCopy \/ Act \/ Build \/ Recreate

Loop ==
  \/ Refused \/ Register \/ RecoverFromOverflow \/ SyncedAll \/ Receive \/ Woken
  \/ Coalesce \/ CloseBatch \/ NextPath \/ Dispatch

Next ==
  \/ \E p \in Paths, c \in Contents \cup {Gone} : Edit(p, c)
  \/ Callback \/ Loop \/ Interrupt

Spec == Init /\ [][Next]_vars

\* What the loop waits for without a limit: a command in a container, the build of
\* an image, and the init steps and hooks of one that is recreated.
Executing ==
  /\ work # {}
  /\ \/ stage \in {"mkdir", "remove", "recreate"}
     \/ stage = "act" /\ Action[Job] = "sync+exec"
     \/ stage = "none" /\ Action[Job] = "rebuild"

\* The callback thread and the loop run on; every other request has a deadline.
Fairness == WF_vars(Callback) /\ WF_vars(~Executing /\ Loop)

FairSpec == Spec /\ Fairness

(***************************************************************************)
(* Properties                                                              *)
(***************************************************************************)

\* The types of the state.
TypeOK ==
  /\ host \in [Paths -> Contents \cup {Gone}]
  /\ kernel \in Seq(Paths \cup {Rescan, Opened}) /\ Len(kernel) <= KernelCap + 1
  /\ Len(kernel) > KernelCap => Last(kernel) = Rescan
  /\ cb \in {"idle", "send", "store", "notify", "storeRescan", "notifyRescan"}
  /\ cbEvent \in Paths \cup {Rescan}
  /\ queue \in Seq(Paths \cup {Rescan}) /\ Len(queue) <= WATCH_CHANNEL_CAP
  /\ flag \in BOOLEAN /\ permit \in BOOLEAN
  /\ pc \in {"setup", "initial", "recover", "resync", "wait", "collect", "dispatch",
             "again", "resyncAgain", "ended"}
  /\ batch \in Seq(Paths) /\ Len(batch) <= WATCH_MAX_BATCH_PATHS
  /\ turn \in 0 .. Len(batch) /\ work \subseteq DOMAIN Order
  /\ stage \in {"none", "mkdir", "pack", "put", "verify", "remove", "act", "recreate"}
  /\ \A p \in DOMAIN sent : p \in Paths /\ sent[p] \in Contents \cup {Gone}
  /\ failed \subseteq Rules
  /\ copy \in [SyncRules -> [Paths -> Contents \cup {Gone}]]
  /\ dir \in [SyncRules -> BOOLEAN] /\ up \subseteq Containers
  /\ ensured \subseteq SyncRules
  /\ owed \cup dropped \cup presumed \cup rebuilt \subseteq SyncRules \X Paths
  /\ changes \in [Paths -> Nat] /\ \A p \in Paths : changes[p] <= MaxChanges[p]

\* A loop that waits for an event while the overflow flag is set, or that will
\* wait without another look at it, is about to be woken: the flag is stored
\* before notify_one, and its permit is kept even when the loop had drained the
\* queue and passed both its checks in between (events::enqueue, the select! of
\* Engine::watch).
WakesForOverflow ==
  pc \in {"wait", "resync"} /\ flag => permit \/ cb \in {"notify", "notifyRescan"}

Idle == pc = "wait" /\ queue = <<>> /\ kernel = <<>> /\ cb = "idle" /\ ~flag /\ ~permit

\* When everything has been dealt with, every copy the session owes is what the
\* host has, however edits raced its reads, whatever the queue dropped and whichever
\* answers were lost.  Four kinds are excepted:
\*  - an upload whose answer was lost where something else of the same size was,
\*    and a removal whose output broke off: both are taken for done;
\*  - a removal that was dropped, which a resync does not mirror;
\*  - what was outside the image and the volumes of a container a rebuild replaced
\*    or lost: nothing syncs it again before its file changes (watch_rebuild);
\*  - what failed, or was named in a warning after an overflow: it is not owed.
CaughtUp ==
  Idle => \A x \in owed :
    \/ copy[x[1]][x[2]] = host[x[2]]
    \/ x \in presumed
    \/ x \in dropped /\ host[x[2]] = Gone
    \/ x \in rebuilt

(***************************************************************************)
(* Why CaughtUp holds: an inductive invariant.                             *)
(***************************************************************************)

Resyncing == pc \in {"resync", "resyncAgain"}

\* An event of p is on its way to the loop, or waits its turn in the batch.
Queued(p) ==
  \/ p \in ToSet(kernel)
  \/ cb = "send" /\ cbEvent = p
  \/ p \in ToSet(queue)
  \/ pc = "collect" /\ p \in ToSet(batch)
  \/ pc = "dispatch" /\ \E i \in DOMAIN batch : i > turn /\ batch[i] = p /\ FirstSeen(i)

\* A job after the one at hand is for the rule of x.
Later(x) == \E i \in work \ {Place} : Order[i] = x[1]

\* The job at hand is, and has not read the file of x yet, or what it has read
\* is what the host has.
AtHand(x) ==
  /\ work # {} /\ Job = x[1]
  /\ \/ stage \in {"none", "mkdir", "pack"}
     \/ stage \in {"put", "verify"} /\ x[2] \in DOMAIN sent /\ sent[x[2]] = host[x[2]]
     \/ stage = "remove" /\ host[x[2]] = Gone

Underway(x) == Later(x) \/ AtHand(x)

Dispatching(x) == pc = "dispatch" /\ turn # 0 /\ Path = x[2] /\ Underway(x)

\* A resync is due; or one is going on that covers x, or will name its rule.
Overflowed == Rescan \in ToSet(kernel) \/ cb \in {"storeRescan", "store"} \/ flag
Recovering(x) == Resyncing /\ (x[1] \in rules_not_recovered \/ Underway(x))

\* An event of x was dropped, and that is or need not be made up for.
Lost(x) == x \in dropped /\ (host[x[2]] = Gone \/ Overflowed \/ Recovering(x))

\* Something newer than what was read of x is known about.
Newer(x) == Queued(x[2]) \/ Lost(x)

Accounted(x) ==
  copy[x[1]][x[2]] = host[x[2]] \/ x \in presumed \/ x \in rebuilt \/ Newer(x) \/ Dispatching(x)

OwedAccounted == Watching => \A x \in owed : x \in Pairs(x[2]) /\ Accounted(x)

\* What was read for the job at hand is the host's, or known not to be.
ReadFresh ==
  Watching =>
    /\ stage \in {"put", "verify"} =>
         \A p \in DOMAIN sent : sent[p] = host[p] \/ Newer(<<Job, p>>)
    /\ stage = "remove" => host[Path] = Gone \/ Newer(<<Job, Path>>)
    /\ stage = "recreate" =>
         \A r \in RulesIn(Container[Job]), p \in Paths :
           <<r, p>> \in Pairs(p) => sent[p] = host[p] \/ Newer(<<r, p>>)

\* Before the session watches it owes nothing, and its jobs are in order.
JobsInOrder ==
  /\ pc = "setup" => owed = {}
  /\ pc # "dispatch" => turn = 0
  /\ pc \notin {"initial", "resync", "resyncAgain", "dispatch"} => work = {}
  /\ work = {} => stage = "none"
  /\ pc = "dispatch" /\ work # {} => turn # 0 /\ \A i \in work : Matches(i, Path)
  /\ stage \in {"mkdir", "pack", "put", "verify", "remove"} => Job \in SyncRules
  /\ stage \in {"mkdir", "pack", "remove"} /\ pc = "dispatch" => Path \notin Skipped[Job]
  /\ stage = "remove" => pc = "dispatch"
  /\ stage = "recreate" => sent \in [Paths -> Contents \cup {Gone}]
  /\ stage \in {"put", "verify"} => \A p \in DOMAIN sent : <<Job, p>> \in Pairs(p)

IInv == TypeOK /\ JobsInOrder /\ ReadFresh /\ OwedAccounted

\* Once nobody edits any more, the session comes to rest: its own reading and
\* copying does not keep it going (should_enqueue, writes_back), and an overflow
\* is recovered from once.  It may stay in a command, a build, an init step or a
\* hook that never ends; and its reading may overflow the kernel's queue again
\* with every resync, when the trees have more files than that keeps.
Rests ==
  \/ <>[](Idle \/ pc = "ended")
  \/ <>[]Executing
  \/ []<>(Rescan \in ToSet(kernel))
=============================================================================

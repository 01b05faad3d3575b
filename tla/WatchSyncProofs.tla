--------------------------- MODULE WatchSyncProofs ---------------------------
(***************************************************************************)
(* The loop of a watch session is never left asleep over an overflow, and  *)
(* when it has nothing left to do its copies are what it promised.         *)
(*                                                                         *)
(* The first is inductive as it stands.  The second follows from IInv:     *)
(* what the callback and an edit do to the news of a file (EditNews,       *)
(* CallbackNews), what the loop does between jobs (QuietAccounted and the  *)
(* lemmas after it), and what a step of a job does to the copies it is     *)
(* about (LandAccounts), to those it gives up (FailAccounts) and to all    *)
(* the others (AccountMoves).                                              *)
(***************************************************************************)
EXTENDS WatchSync, WellFoundedInduction, TLAPS

\* A step that leaves the callback's side alone, and does not put the loop to
\* sleep or into the resync before it, keeps the invariant.
LEMMA LoopAwake ==
  ASSUME WakesForOverflow, UNCHANGED <<cb, flag, permit>>,
         pc' \in {"wait", "resync"} => pc \in {"wait", "resync"}
  PROVE  WakesForOverflow'
  BY DEF WakesForOverflow

\* A step of a rule's action leaves the loop where it is.
LEMMA DispatchKeeps ==
  ASSUME WakesForOverflow, Dispatch
  PROVE  WakesForOverflow'
<1>1. UNCHANGED <<cb, flag, permit, pc>>
  <2>1. CASE Start
    BY <2>1 DEF Start, BeginUpload, Outside, Done, Fail, Step
  <2>2. CASE Mkdir
    BY <2>2 DEF Mkdir, Outside, Step
  <2>3. CASE Pack
    BY <2>3 DEF Pack, Outside, Step, Fail
  <2>4. CASE Put
    BY <2>4 DEF Put, Outside, Step, Fail, Done
  <2>5. CASE Verify
    BY <2>5 DEF Verify, Outside, Fail, Done
  <2>6. CASE RemoveCopy
    BY <2>6 DEF RemoveCopy, Outside, Fail, Done
  <2>7. CASE Act \/ Build \/ Recreate
    BY <2>7 DEF Act, Build, Recreate, Outside, Step
  <2> QED
    BY <2>1, <2>2, <2>3, <2>4, <2>5, <2>6, <2>7 DEF Dispatch
<1> QED
  BY <1>1, LoopAwake

\* Nor does a step of the loop between the actions.
LEMMA LoopKeeps ==
  ASSUME WakesForOverflow, Loop
  PROVE  WakesForOverflow'
<1>1. CASE Refused \/ Register
  BY <1>1 DEF Refused, Register, LoopOnly, WakesForOverflow
<1>2. CASE RecoverFromOverflow
  <2>1. UNCHANGED <<cb, permit>> /\ flag' = FALSE
    BY <1>2 DEF RecoverFromOverflow, LoopOnly
  <2> QED
    BY <2>1 DEF WakesForOverflow
<1>3. CASE SyncedAll
  <2>1. UNCHANGED <<cb, flag, permit>>
    BY <1>3 DEF SyncedAll, events
  <2>2. pc' \in {"wait", "resync"} => pc \in {"wait", "resync"}
    BY <1>3 DEF SyncedAll
  <2> QED
    BY <2>1, <2>2, LoopAwake
<1>4. CASE Receive
  BY <1>4, LoopAwake DEF Receive, LoopOnly
<1>5. CASE Woken
  BY <1>5 DEF Woken, WakesForOverflow
<1>6. CASE Coalesce \/ CloseBatch \/ NextPath
  BY <1>6, LoopAwake DEF Coalesce, CloseBatch, NextPath, LoopOnly
<1>7. CASE Dispatch
  BY <1>7, DispatchKeeps
<1> QED
  BY <1>1, <1>2, <1>3, <1>4, <1>5, <1>6, <1>7 DEF Loop

\* The callback stores the flag only to notify next, and notifies for good.
LEMMA CallbackKeeps ==
  ASSUME WakesForOverflow, Callback
  PROVE  WakesForOverflow'
<1>1. CASE TakeEvent
  BY <1>1 DEF TakeEvent, WakesForOverflow, loop
<1>5. CASE Discard
  BY <1>5 DEF Discard, WakesForOverflow, loop
<1>2. CASE StoreFlag
  <2>1. cb' \in {"notify", "notifyRescan"}
    BY <1>2 DEF StoreFlag
  <2> QED
    BY <2>1 DEF WakesForOverflow
<1>3. CASE NotifyOne
  BY <1>3 DEF NotifyOne, WakesForOverflow
<1>4. CASE TrySend
  BY <1>4 DEF TrySend, WakesForOverflow, CbOnly, loop
<1> QED
  BY <1>1, <1>2, <1>3, <1>4, <1>5 DEF Callback

\* Whatever the rules, the paths and the caps are: a loop that waits while the
\* overflow flag is set has a permit, or one is about to be given to it.
THEOREM WakesForOverflowHolds == Spec => []WakesForOverflow
<1>1. Init => WakesForOverflow
  BY DEF Init, WakesForOverflow
<1>2. WakesForOverflow /\ [Next]_vars => WakesForOverflow'
  <2> SUFFICES ASSUME WakesForOverflow, [Next]_vars PROVE WakesForOverflow'
    OBVIOUS
  <2>1. ASSUME NEW p \in Paths, NEW c \in Contents \cup {Gone}, Edit(p, c)
        PROVE  WakesForOverflow'
    BY <2>1, LoopAwake DEF Edit, loop
  <2>2. CASE Callback
    BY <2>2, CallbackKeeps
  <2>3. CASE Loop
    BY <2>3, LoopKeeps
  <2>4. CASE Interrupt
    BY <2>4, LoopAwake DEF Interrupt, LoopOnly
  <2>5. CASE UNCHANGED vars
    BY <2>5, LoopAwake DEF vars, events, loop
  <2> QED
    BY <2>1, <2>2, <2>3, <2>4, <2>5 DEF Next
<1> QED
  BY <1>1, <1>2, PTL DEF Spec

(***************************************************************************)
(* Sequences, and the rule whose turn it is.                               *)
(***************************************************************************)

\* A set of numbers has a least one.
LEMMA Smallest ==
  ASSUME NEW T \in SUBSET Nat, T # {}
  PROVE  \E x \in T : \A y \in T : x <= y
<1> DEFINE R == {ss \in Nat \X Nat : ss[1] < ss[2]}
<1>0. IsWellFoundedOn(R, Nat)
  BY NatLessThanWellFounded DEF OpToRel
<1>1. \A x, y \in Nat : <<y, x>> \in R <=> y < x
  OBVIOUS
<1> HIDE DEF R
<1>2. PICK x \in T : \A y \in T : <<y, x>> \notin R
  BY <1>0, WFMin
<1>3. \A y \in T : ~(y < x)
  BY <1>1, <1>2
<1>4. \A y \in T : x <= y
  BY <1>3
<1> QED
  BY <1>4

LEMMA AppendSet ==
  ASSUME NEW S, NEW s \in Seq(S), NEW e \in S
  PROVE  /\ Append(s, e) \in Seq(S) /\ Len(Append(s, e)) = Len(s) + 1
         /\ ToSet(Append(s, e)) = ToSet(s) \cup {e}
<1>1. /\ Append(s, e) \in Seq(S) /\ Len(Append(s, e)) = Len(s) + 1
      /\ DOMAIN Append(s, e) = DOMAIN s \cup {Len(s) + 1}
      /\ \A i \in DOMAIN s : Append(s, e)[i] = s[i]
      /\ Append(s, e)[Len(s) + 1] = e
  OBVIOUS
<1> QED
  BY <1>1 DEF ToSet

LEMMA TailSet ==
  ASSUME NEW S, NEW s \in Seq(S), s # <<>>
  PROVE  /\ Tail(s) \in Seq(S) /\ Len(Tail(s)) = Len(s) - 1 /\ Len(s) \in Nat \ {0}
         /\ Head(s) \in S
         /\ ToSet(s) = {Head(s)} \cup ToSet(Tail(s))
<1>1. /\ Tail(s) \in Seq(S) /\ Len(Tail(s)) = Len(s) - 1 /\ Len(s) \in Nat \ {0}
      /\ DOMAIN s = 1 .. Len(s) /\ DOMAIN Tail(s) = 1 .. Len(s) - 1
      /\ Head(s) = s[1] /\ s[1] \in S
      /\ \A i \in 1 .. Len(s) - 1 : Tail(s)[i] = s[i + 1]
  OBVIOUS
<1>2. ASSUME NEW i \in DOMAIN s, i # 1 PROVE s[i] \in ToSet(Tail(s))
  <2>1. i - 1 \in 1 .. Len(s) - 1 /\ Tail(s)[i - 1] = s[i]
    BY <1>1, <1>2
  <2> QED
    BY <1>1, <2>1 DEF ToSet
<1>3. ASSUME NEW i \in DOMAIN Tail(s) PROVE Tail(s)[i] \in ToSet(s)
  <2>1. i + 1 \in 1 .. Len(s) /\ Tail(s)[i] = s[i + 1]
    BY <1>1
  <2> QED
    BY <1>1, <2>1 DEF ToSet
<1>4. s[1] \in ToSet(s)
  BY <1>1 DEF ToSet
<1> QED
  BY <1>1, <1>2, <1>3, <1>4 DEF ToSet

\* The constants.
LEMMA OrderTyped ==
  /\ Order \in Seq(Rules) /\ DOMAIN Order \subseteq Nat
  /\ \A i \in DOMAIN Order : Order[i] \in Rules
<1>1. Order \in Seq(Rules)
  BY RuleAssumption
<1> QED
  BY <1>1

\* The job at hand is one of those left.
LEMMA PlaceIn ==
  ASSUME TypeOK, work # {}
  PROVE  Place \in work /\ Place \in DOMAIN Order /\ Job \in Rules
<1>1. work \subseteq Nat /\ work \subseteq DOMAIN Order
  BY OrderTyped DEF TypeOK
<1>2. \E i \in work : \A j \in work : i <= j
  BY <1>1, Smallest
<1>3. Place \in work
  BY <1>2 DEF Place
<1> QED
  BY <1>1, <1>3, OrderTyped DEF Job

\* What a rule is for.
LEMMA PairsOf ==
  ASSUME NEW p, NEW x \in Pairs(p)
  PROVE  /\ x = <<x[1], x[2]>> /\ x[2] = p /\ x[1] \in SyncRules /\ x[1] \in Rules
         /\ p \in Watches[x[1]] /\ p \in Paths /\ p \notin Skipped[x[1]]
         /\ p \notin Excluded[x[1]] /\ p \notin Shared[x[1]]
<1>1. PICK r \in SyncRules : p \in Watches[r] /\ p \notin Skipped[r] /\ x = <<r, p>>
  BY DEF Pairs
<1>2. r \in Rules
  BY <1>1 DEF SyncRules
<1>3. p \in Paths
  BY <1>1, <1>2, RuleAssumption
<1>4. p \notin Excluded[r] /\ p \notin Shared[r]
  BY <1>1, <1>2, <1>3 DEF Skipped, Excluded, Shared, Skip
<1> QED
  BY <1>1, <1>2, <1>3, <1>4

LEMMA PairIs ==
  ASSUME NEW r \in SyncRules, NEW p \in Watches[r], p \notin Skipped[r]
  PROVE  <<r, p>> \in Pairs(p) /\ r \in Rules /\ p \in Paths
<1>1. r \in Rules
  BY DEF SyncRules
<1> QED
  BY <1>1, RuleAssumption DEF Pairs

(***************************************************************************)
(* Types.                                                                  *)
(***************************************************************************)

Events == Paths \cup {Rescan}
KernelEvents == Events \cup {Opened}

\* The kernel's queue keeps what it had, and its bound.
KernelGrows ==
  /\ kernel' \in Seq(KernelEvents) /\ Len(kernel') <= KernelCap + 1
  /\ Len(kernel') > KernelCap => Last(kernel') = Rescan
  /\ ToSet(kernel) \subseteq ToSet(kernel')

LEMMA KernelTyped ==
  ASSUME TypeOK
  PROVE  /\ kernel \in Seq(KernelEvents) /\ Len(kernel) \in Nat /\ Len(kernel) <= KernelCap + 1
         /\ Len(kernel) > KernelCap => Last(kernel) = Rescan
         /\ KernelCap \in Nat \ {0}
  BY BoundAssumption DEF TypeOK, KernelEvents, Events

LEMMA KernelStays ==
  ASSUME TypeOK, kernel' = kernel
  PROVE  KernelGrows
  BY KernelTyped DEF KernelGrows

\* One more event where there is room.
LEMMA KernelAppends ==
  ASSUME TypeOK, NEW e \in KernelEvents, kernel' = Append(kernel, e), ~Full \/ e = Rescan,
         Len(kernel) <= KernelCap
  PROVE  KernelGrows /\ e \in ToSet(kernel')
<1>1. /\ kernel \in Seq(KernelEvents) /\ Len(kernel) \in Nat /\ KernelCap \in Nat \ {0}
  BY KernelTyped
<1>2. /\ kernel' \in Seq(KernelEvents) /\ Len(kernel') = Len(kernel) + 1
      /\ ToSet(kernel') = ToSet(kernel) \cup {e}
  BY <1>1, AppendSet
<1>3. Len(kernel') <= KernelCap + 1
  BY <1>1, <1>2
<1>4. Last(kernel') = e
  BY <1>1, <1>2 DEF Last
<1>5. ~Full => Len(kernel') <= KernelCap
  BY <1>1, <1>2 DEF Full
<1> QED
  BY <1>1, <1>2, <1>3, <1>4, <1>5 DEF KernelGrows

\* The overflow of the kernel's queue is an event in it.
LEMMA OverrunTells ==
  ASSUME TypeOK, Overrun
  PROVE  KernelGrows /\ Rescan \in ToSet(kernel')
<1>1. /\ kernel \in Seq(KernelEvents) /\ Len(kernel) \in Nat /\ KernelCap \in Nat \ {0}
      /\ Len(kernel) <= KernelCap + 1 /\ (Len(kernel) > KernelCap => Last(kernel) = Rescan)
  BY KernelTyped
<1>2. CASE Full /\ Last(kernel) = Rescan
  <2>1. kernel' = kernel
    BY <1>2 DEF Overrun
  <2>2. Len(kernel) \in DOMAIN kernel
    BY <1>1, <1>2 DEF Full
  <2>3. Rescan \in ToSet(kernel)
    BY <1>2, <2>2 DEF Last, ToSet
  <2> QED
    BY <2>1, <2>3, KernelStays
<1>3. CASE ~(Full /\ Last(kernel) = Rescan)
  <2>1. kernel' = Append(kernel, Rescan)
    BY <1>3 DEF Overrun
  <2>2. Len(kernel) <= KernelCap
    BY <1>1, <1>3 DEF Full
  <2>3. Rescan \in KernelEvents
    BY DEF KernelEvents, Events
  <2> QED
    BY <2>1, <2>2, <2>3, KernelAppends
<1> QED
  BY <1>2, <1>3

LEMMA QueueKeeps ==
  ASSUME TypeOK, NEW e \in KernelEvents, Queue(e)
  PROVE  /\ KernelGrows
         /\ IF Full THEN Rescan \in ToSet(kernel') ELSE e \in ToSet(kernel')
<1>1. CASE Full
  BY <1>1, OverrunTells DEF Queue
<1>2. CASE ~Full
  <2>1. kernel' = Append(kernel, e) /\ Len(kernel) <= KernelCap
    BY <1>2, KernelTyped DEF Queue, Full
  <2> QED
    BY <1>2, <2>1, KernelAppends
<1> QED
  BY <1>1, <1>2

\* What an edit adds to the kernel's events.
LEMMA RaiseKeeps ==
  ASSUME TypeOK, NEW p \in Paths, Raise(p)
  PROVE  /\ KernelGrows
         /\ dropped' = dropped \/ dropped' = dropped \cup Pairs(p)
         /\ Watching =>
              \/ p \in ToSet(kernel') /\ dropped' = dropped
              \/ dropped' = dropped \cup Pairs(p) /\ Rescan \in ToSet(kernel')
<1>1. CASE ~Watching
  BY <1>1, KernelStays DEF Raise
<1>2. CASE Watching
  <2>1. Queue(p) /\ dropped' = IF Full THEN dropped \cup Pairs(p) ELSE dropped
    BY <1>2 DEF Raise
  <2>2. p \in KernelEvents
    BY DEF KernelEvents, Events
  <2> QED
    BY <2>1, <2>2, QueueKeeps
<1> QED
  BY <1>1, <1>2

\* What reading adds to them.
LEMMA OpensKeeps ==
  ASSUME TypeOK, NEW large, Opens(large)
  PROVE  KernelGrows /\ dropped' = dropped
<1>1. Opened \in KernelEvents
  BY DEF KernelEvents
<1>2. dropped' = dropped /\ (kernel' = kernel \/ Queue(Opened) \/ Overrun)
  BY DEF Opens
<1> QED
  BY <1>1, <1>2, KernelStays, QueueKeeps, OverrunTells

\* The parts of the state that belong to the events, to the loop and to the copies.
EventsOK ==
  /\ kernel \in Seq(KernelEvents) /\ Len(kernel) <= KernelCap + 1
  /\ Len(kernel) > KernelCap => Last(kernel) = Rescan
  /\ cb \in {"idle", "send", "store", "notify", "storeRescan", "notifyRescan"}
  /\ cbEvent \in Events
  /\ queue \in Seq(Events) /\ Len(queue) <= WATCH_CHANNEL_CAP
  /\ flag \in BOOLEAN /\ permit \in BOOLEAN
LoopOK ==
  /\ pc \in {"setup", "initial", "recover", "resync", "wait", "collect", "dispatch",
             "again", "resyncAgain", "ended"}
  /\ batch \in Seq(Paths) /\ Len(batch) <= WATCH_MAX_BATCH_PATHS
  /\ turn \in 0 .. Len(batch) /\ work \subseteq DOMAIN Order
  /\ stage \in {"none", "mkdir", "pack", "put", "verify", "remove", "act", "recreate"}
  /\ \A p \in DOMAIN sent : p \in Paths /\ sent[p] \in Contents \cup {Gone}
  /\ failed \subseteq Rules
CopiesOK ==
  /\ copy \in [SyncRules -> [Paths -> Contents \cup {Gone}]]
  /\ dir \in [SyncRules -> BOOLEAN] /\ up \subseteq Containers
  /\ ensured \subseteq SyncRules
  /\ owed \cup dropped \cup presumed \cup rebuilt \subseteq SyncRules \X Paths
HostOK ==
  /\ host \in [Paths -> Contents \cup {Gone}]
  /\ changes \in [Paths -> Nat] /\ \A p \in Paths : changes[p] <= MaxChanges[p]

LEMMA TypesParts == TypeOK <=> EventsOK /\ LoopOK /\ CopiesOK /\ HostOK
  BY DEF TypeOK, EventsOK, LoopOK, CopiesOK, HostOK, KernelEvents, Events

LEMMA TypesNext == EventsOK' /\ LoopOK' /\ CopiesOK' /\ HostOK' => TypeOK'
  BY DEF TypeOK, EventsOK, LoopOK, CopiesOK, HostOK, KernelEvents, Events

LEMMA PairsTyped ==
  ASSUME NEW p \in Paths
  PROVE  Pairs(p) \subseteq SyncRules \X Paths
  BY DEF Pairs

LEMMA BeginTyped == Init => TypeOK
<1> SUFFICES ASSUME Init PROVE TypeOK
  OBVIOUS
<1>1. EventsOK
  <2>1. kernel = <<>> /\ queue = <<>> /\ Len(kernel) = 0 /\ Len(queue) = 0
        /\ kernel \in Seq(KernelEvents) /\ queue \in Seq(Events)
    BY DEF Init
  <2>2. WATCH_CHANNEL_CAP \in Nat /\ KernelCap \in Nat
    BY BoundAssumption
  <2>3. cbEvent \in Events /\ cb = "idle"
    BY DEF Init, Events
  <2>4. flag \in BOOLEAN /\ permit \in BOOLEAN
    BY DEF Init
  <2>5. Len(kernel) <= KernelCap + 1 /\ ~(Len(kernel) > KernelCap) /\ Len(queue) <= WATCH_CHANNEL_CAP
    BY <2>1, <2>2
  <2> QED
    BY <2>1, <2>3, <2>4, <2>5 DEF EventsOK
<1>2. LoopOK
  <2>1. batch \in Seq(Paths) /\ Len(batch) = 0 /\ turn \in 0 .. Len(batch) /\ WATCH_MAX_BATCH_PATHS \in Nat
    BY BoundAssumption DEF Init
  <2>2. DOMAIN sent = {}
    BY DEF Init
  <2> QED
    BY <2>1, <2>2 DEF Init, LoopOK
<1>3. CopiesOK
  BY DEF Init, CopiesOK
<1>4. HostOK
  <2>1. \A p \in Paths : MaxChanges[p] \in Nat
    BY BoundAssumption
  <2> QED
    BY <2>1 DEF Init, HostOK
<1> QED
  BY <1>1, <1>2, <1>3, <1>4, TypesParts

LEMMA EditTyped ==
  ASSUME TypeOK, NEW p \in Paths, NEW c \in Contents \cup {Gone}, Edit(p, c)
  PROVE  TypeOK'
<1>1. /\ kernel' \in Seq(KernelEvents) /\ Len(kernel') <= KernelCap + 1
      /\ Len(kernel') > KernelCap => Last(kernel') = Rescan
      /\ dropped' = dropped \/ dropped' = dropped \cup Pairs(p)
  BY RaiseKeeps DEF Edit, KernelGrows
<1>2. owed' = owed \/ owed' = owed \cup Pairs(p)
  BY DEF Edit
<1>3. UNCHANGED <<cb, cbEvent, queue, flag, permit, loop, there, ensured, presumed, rebuilt>>
  BY DEF Edit
<1>4. EventsOK'
  BY <1>1, <1>3, TypesParts DEF EventsOK
<1>5. LoopOK'
  BY <1>3, TypesParts DEF LoopOK, loop
<1>6. CopiesOK'
  BY <1>1, <1>2, <1>3, TypesParts, PairsTyped DEF CopiesOK, there
<1>7. HostOK'
  <2>1. /\ host' = [host EXCEPT ![p] = c] /\ changes' = [changes EXCEPT ![p] = @ + 1]
        /\ changes[p] < MaxChanges[p]
    BY DEF Edit
  <2>2. MaxChanges[p] \in Nat
    BY BoundAssumption
  <2> QED
    BY <2>1, <2>2, TypesParts DEF HostOK
<1> QED
  BY <1>4, <1>5, <1>6, <1>7, TypesNext

LEMMA CallbackTyped ==
  ASSUME TypeOK, Callback
  PROVE  TypeOK'
<1>1. UNCHANGED <<host, changes, loop, there, ensured, owed, presumed, rebuilt>>
  BY DEF Callback, Discard, TakeEvent, StoreFlag, NotifyOne, TrySend, CbOnly, history
<1>2. EventsOK /\ CopiesOK
  BY TypesParts
<1>3. EventsOK' /\ (dropped' = dropped \/ (cbEvent \in Paths /\ dropped' = dropped \cup Pairs(cbEvent)))
  <2>0. ASSUME kernel # <<>>, kernel' = Tail(kernel)
        PROVE  /\ kernel' \in Seq(KernelEvents) /\ Len(kernel') <= KernelCap /\ Len(kernel') \in Nat
               /\ Len(kernel') <= KernelCap + 1 /\ ~(Len(kernel') > KernelCap)
               /\ Head(kernel) \in KernelEvents
    <3>1. /\ kernel' \in Seq(KernelEvents) /\ Len(kernel') = Len(kernel) - 1 /\ Len(kernel) \in Nat
          /\ Head(kernel) \in KernelEvents /\ Len(kernel') \in Nat
      BY <1>2, <2>0, TailSet DEF EventsOK
    <3> QED
      BY <1>2, <3>1, BoundAssumption DEF EventsOK
  <2>1. CASE TakeEvent
    <3>1. kernel' = Tail(kernel) /\ cbEvent' = Head(kernel) /\ kernel # <<>> /\ Head(kernel) # Opened
      BY <2>1 DEF TakeEvent, should_enqueue
    <3>2. cbEvent' \in Events
      BY <2>0, <3>1 DEF KernelEvents
    <3> QED
      BY <1>2, <2>0, <2>1, <3>1, <3>2 DEF TakeEvent, EventsOK, history
  <2>5. CASE Discard
    <3>1. kernel' = Tail(kernel) /\ kernel # <<>>
      BY <2>5 DEF Discard
    <3> QED
      BY <1>2, <2>0, <2>5, <3>1 DEF Discard, EventsOK, history
  <2>2. CASE StoreFlag
    BY <1>2, <2>2 DEF StoreFlag, CbOnly, EventsOK
  <2>3. CASE NotifyOne
    BY <1>2, <2>3 DEF NotifyOne, CbOnly, EventsOK
  <2>4. CASE TrySend
    <3>1. CASE Len(queue) < WATCH_CHANNEL_CAP
      <4>1. queue' = Append(queue, cbEvent) /\ cb' = "idle" /\ dropped' = dropped
            /\ cbEvent' = Rescan /\ UNCHANGED <<kernel, flag, permit>>
        BY <2>4, <3>1 DEF TrySend, CbOnly
      <4>2. queue' \in Seq(Events) /\ Len(queue') = Len(queue) + 1 /\ Len(queue) \in Nat
        BY <1>2, <4>1, AppendSet DEF EventsOK
      <4> QED
        BY <1>2, <3>1, <4>1, <4>2, BoundAssumption DEF EventsOK, Events
    <3>2. CASE ~(Len(queue) < WATCH_CHANNEL_CAP)
      BY <1>2, <2>4, <3>2 DEF TrySend, CbOnly, EventsOK, Events
    <3> QED
      BY <3>1, <3>2
  <2> QED
    BY <2>1, <2>2, <2>3, <2>4, <2>5 DEF Callback
<1>4. CopiesOK'
  BY <1>1, <1>2, <1>3, PairsTyped DEF CopiesOK, there
<1>5. LoopOK' /\ HostOK'
  BY <1>1, TypesParts DEF LoopOK, HostOK, loop
<1> QED
  BY <1>3, <1>4, <1>5, TypesNext

(***************************************************************************)
(* The jobs are in order.                                                  *)
(***************************************************************************)

JobPcs == {"initial", "resync", "resyncAgain", "dispatch"}

\* Between two jobs.
LEMMA BetweenJobs ==
  ASSUME stage' = "none", pc' # "setup",
         pc' # "dispatch" => turn' = 0,
         pc' \notin JobPcs => work' = {},
         pc' = "dispatch" /\ work' # {} => turn' # 0 /\ (\A i \in work : Matches(i, Path))'
  PROVE  JobsInOrder'
  BY DEF JobsInOrder, JobPcs

\* What a step of a job has to see to.
JobOK ==
  /\ stage \in {"mkdir", "pack", "put", "verify", "remove"} => Job \in SyncRules
  /\ stage \in {"mkdir", "pack", "remove"} /\ pc = "dispatch" => Path \notin Skipped[Job]
  /\ stage = "remove" => pc = "dispatch"
  /\ stage = "recreate" => sent \in [Paths -> Contents \cup {Gone}]
  /\ stage \in {"put", "verify"} => \A p \in DOMAIN sent : <<Job, p>> \in Pairs(p)

LEMMA JobGoesOn ==
  ASSUME JobsInOrder, work # {}, work' = work, UNCHANGED <<pc, batch, turn>>, JobOK'
  PROVE  JobsInOrder'
<1>1. Path' = Path /\ pc \in JobPcs /\ pc # "setup"
  BY DEF JobsInOrder, JobPcs, Path
<1>2. (\A i \in work : Matches(i, Path)) => (\A i \in work : Matches(i, Path))'
  BY <1>1 DEF Matches
<1> QED
  BY <1>1, <1>2 DEF JobsInOrder, JobOK

LEMMA JobIsOver ==
  ASSUME TypeOK, JobsInOrder, work # {}, Over, UNCHANGED <<pc, batch, turn>>
  PROVE  JobsInOrder'
<1>1. Path' = Path /\ pc \in JobPcs /\ pc # "setup" /\ work' \subseteq work /\ stage' = "none"
  BY DEF JobsInOrder, JobPcs, Path, Over
<1>2. pc = "dispatch" => turn # 0 /\ (\A i \in work : Matches(i, Path))'
  BY <1>1 DEF JobsInOrder, Matches
<1>3. pc # "dispatch" => turn = 0
  BY DEF JobsInOrder
<1> QED
  BY <1>1, <1>2, <1>3, BetweenJobs

(***************************************************************************)
(* The loop between the jobs.                                              *)
(***************************************************************************)

LEMMA SetupOrdered ==
  ASSUME TypeOK, JobsInOrder, Refused \/ Register \/ Interrupt \/ Woken
  PROVE  TypeOK' /\ JobsInOrder'
<1>1. /\ stage = "none" /\ turn = 0 /\ work = {}
      /\ UNCHANGED <<host, kernel, cb, cbEvent, queue, flag, there, ensured, history, changes,
                     batch, turn, done, stage, sent, failed>>
      /\ permit' \in {permit, FALSE} /\ pc' \in {"ended", "initial", "recover"}
      /\ work' \in {work, AllInitial} /\ (pc' = "initial" \/ work' = {})
  BY DEF Refused, Register, Interrupt, Woken, LoopOnly, JobsInOrder
<1>2. AllInitial \subseteq DOMAIN Order
  BY DEF AllInitial
<1>3. EventsOK' /\ HostOK' /\ CopiesOK'
  BY <1>1, TypesParts DEF EventsOK, HostOK, CopiesOK, there, history
<1>4. LoopOK'
  BY <1>1, <1>2, TypesParts DEF LoopOK
<1>5. JobsInOrder'
  BY <1>1, BetweenJobs DEF JobPcs
<1> QED
  BY <1>3, <1>4, <1>5, TypesNext

LEMMA RecoverOrdered ==
  ASSUME TypeOK, JobsInOrder, RecoverFromOverflow
  PROVE  TypeOK' /\ JobsInOrder'
<1>1. /\ stage = "none" /\ turn = 0 /\ work = {}
      /\ UNCHANGED <<host, kernel, cb, cbEvent, queue, permit, there, ensured, history, changes,
                     batch, turn, done, stage, sent>>
      /\ flag' = FALSE /\ pc' \in {"recover", "wait", "resync", "resyncAgain"}
      /\ work' \in {work, AllInitial} /\ (pc' \in {"resync", "resyncAgain"} \/ work' = {})
      /\ failed' \in {failed, {}}
  BY DEF RecoverFromOverflow, LoopOnly, JobsInOrder
<1>2. AllInitial \subseteq DOMAIN Order
  BY DEF AllInitial
<1>3. EventsOK' /\ HostOK' /\ CopiesOK'
  BY <1>1, TypesParts DEF EventsOK, HostOK, CopiesOK, there, history
<1>4. LoopOK'
  BY <1>1, <1>2, TypesParts DEF LoopOK
<1>5. JobsInOrder'
  BY <1>1, BetweenJobs DEF JobPcs
<1> QED
  BY <1>3, <1>4, <1>5, TypesNext

LEMMA SyncedOrdered ==
  ASSUME TypeOK, JobsInOrder, SyncedAll
  PROVE  TypeOK' /\ JobsInOrder'
<1>1. /\ stage = "none" /\ turn = 0 /\ work = {}
      /\ UNCHANGED <<host, events, there, ensured, presumed, rebuilt, changes, batch, turn, done, work, stage, sent>>
      /\ pc' \in {"recover", "wait"} /\ failed' = {}
      /\ owed' \subseteq owed /\ dropped' \subseteq dropped
  BY DEF SyncedAll, JobsInOrder
<1>3. EventsOK' /\ HostOK' /\ CopiesOK'
  BY <1>1, TypesParts DEF EventsOK, HostOK, CopiesOK, there, events
<1>4. LoopOK'
  BY <1>1, TypesParts DEF LoopOK
<1>5. JobsInOrder'
  BY <1>1, BetweenJobs DEF JobPcs
<1> QED
  BY <1>3, <1>4, <1>5, TypesNext

LEMMA ReceiveOrdered ==
  ASSUME TypeOK, JobsInOrder, Receive
  PROVE  TypeOK' /\ JobsInOrder'
<1>1. /\ stage = "none" /\ turn = 0 /\ work = {}
      /\ UNCHANGED <<host, kernel, cb, cbEvent, flag, permit, there, ensured, history, changes,
                     turn, done, work, stage, sent, failed>>
      /\ queue # <<>> /\ queue' = Tail(queue)
      /\ \/ Head(queue) = Rescan /\ pc' = "recover" /\ batch' = batch
         \/ Head(queue) # Rescan /\ pc' = "collect" /\ batch' = <<Head(queue)>>
  BY DEF Receive, LoopOnly, JobsInOrder
<1>2. /\ queue \in Seq(Events) /\ Len(queue) <= WATCH_CHANNEL_CAP
  BY TypesParts DEF EventsOK
<1>3. queue' \in Seq(Events) /\ Len(queue') <= WATCH_CHANNEL_CAP /\ Head(queue) \in Events
  BY <1>1, <1>2, TailSet, BoundAssumption
<1>4. EventsOK' /\ HostOK' /\ CopiesOK'
  BY <1>1, <1>3, TypesParts DEF EventsOK, HostOK, CopiesOK, there, history
<1>5. batch' \in Seq(Paths) /\ Len(batch') <= WATCH_MAX_BATCH_PATHS /\ Len(batch') \in Nat
  <2>1. CASE Head(queue) # Rescan
    <3>1. Head(queue) \in Paths /\ batch' = <<Head(queue)>>
      BY <1>1, <1>3, <2>1 DEF Events
    <3>2. batch' \in Seq(Paths) /\ Len(batch') = 1
      BY <3>1
    <3> QED
      BY <3>2, BoundAssumption
  <2>2. CASE Head(queue) = Rescan
    BY <1>1, <2>2, TypesParts DEF LoopOK
  <2> QED
    BY <2>1, <2>2
<1>6. LoopOK'
  BY <1>1, <1>5, TypesParts DEF LoopOK
<1>7. JobsInOrder'
  BY <1>1, BetweenJobs DEF JobPcs
<1> QED
  BY <1>4, <1>6, <1>7, TypesNext

LEMMA CoalesceOrdered ==
  ASSUME TypeOK, JobsInOrder, Coalesce
  PROVE  TypeOK' /\ JobsInOrder'
<1>1. /\ stage = "none" /\ turn = 0 /\ work = {} /\ pc = "collect"
      /\ UNCHANGED <<host, kernel, cb, cbEvent, flag, permit, there, ensured, history, changes,
                     pc, turn, done, work, stage, sent, failed>>
      /\ queue # <<>> /\ queue' = Tail(queue) /\ Len(batch) < WATCH_MAX_BATCH_PATHS
      /\ batch' = IF Head(queue) = Rescan THEN batch ELSE Append(batch, Head(queue))
  BY DEF Coalesce, LoopOnly, JobsInOrder
<1>2. /\ queue \in Seq(Events) /\ Len(queue) <= WATCH_CHANNEL_CAP /\ batch \in Seq(Paths)
  BY TypesParts DEF EventsOK, LoopOK
<1>3. queue' \in Seq(Events) /\ Len(queue') <= WATCH_CHANNEL_CAP /\ Head(queue) \in Events
  BY <1>1, <1>2, TailSet, BoundAssumption
<1>4. EventsOK' /\ HostOK' /\ CopiesOK'
  BY <1>1, <1>3, TypesParts DEF EventsOK, HostOK, CopiesOK, there, history
<1>5. batch' \in Seq(Paths) /\ Len(batch') <= WATCH_MAX_BATCH_PATHS /\ Len(batch') \in Nat
  <2>1. CASE Head(queue) # Rescan
    <3>1. Head(queue) \in Paths /\ batch' = Append(batch, Head(queue))
      BY <1>1, <1>3, <2>1 DEF Events
    <3>2. batch' \in Seq(Paths) /\ Len(batch') = Len(batch) + 1 /\ Len(batch) \in Nat
      BY <1>2, <3>1, AppendSet
    <3> QED
      BY <1>1, <3>2, BoundAssumption
  <2>2. CASE Head(queue) = Rescan
    BY <1>1, <2>2, TypesParts DEF LoopOK
  <2> QED
    BY <2>1, <2>2
<1>6. LoopOK'
  BY <1>1, <1>5, TypesParts DEF LoopOK
<1>7. JobsInOrder'
  BY <1>1, BetweenJobs DEF JobPcs
<1> QED
  BY <1>4, <1>6, <1>7, TypesNext

LEMMA BatchOrdered ==
  ASSUME TypeOK, JobsInOrder, CloseBatch \/ NextPath
  PROVE  TypeOK' /\ JobsInOrder'
<1>1. /\ stage = "none" /\ work = {} /\ stage' = "none"
      /\ UNCHANGED <<host, kernel, cb, cbEvent, queue, flag, permit, there, ensured, history, changes,
                     sent, failed>>
      /\ batch \in Seq(Paths) /\ Len(batch) \in Nat /\ turn \in 0 .. Len(batch)
  <2>1. batch \in Seq(Paths) /\ turn \in 0 .. Len(batch)
    BY TypesParts DEF LoopOK
  <2>2. work = {} /\ stage = "none"
    BY DEF CloseBatch, NextPath, JobsInOrder
  <2> QED
    BY <2>1, <2>2 DEF CloseBatch, NextPath, LoopOnly
<1>2. EventsOK' /\ HostOK' /\ CopiesOK'
  BY <1>1, TypesParts DEF EventsOK, HostOK, CopiesOK, there, history
<1>3. CASE CloseBatch
  <2>1. pc' = "dispatch" /\ UNCHANGED <<batch, turn, work>>
    BY <1>3 DEF CloseBatch
  <2>2. LoopOK'
    BY <1>1, <2>1, TypesParts DEF LoopOK
  <2>3. JobsInOrder'
    BY <1>1, <2>1, BetweenJobs
  <2> QED
    BY <1>2, <2>2, <2>3, TypesNext
<1>4. CASE NextPath /\ turn = Len(batch)
  <2>1. pc' = "again" /\ batch' = <<>> /\ turn' = 0 /\ work' = {}
    BY <1>1, <1>4 DEF NextPath
  <2>2. batch' \in Seq(Paths) /\ Len(batch') = 0
    BY <2>1
  <2>3. LoopOK'
    BY <1>1, <2>1, <2>2, TypesParts, BoundAssumption DEF LoopOK
  <2>4. JobsInOrder'
    BY <1>1, <2>1, BetweenJobs
  <2> QED
    BY <1>2, <2>3, <2>4, TypesNext
<1>5. CASE NextPath /\ turn # Len(batch)
  <2>1. /\ pc = "dispatch" /\ pc' = "dispatch" /\ batch' = batch /\ turn' = turn + 1
        /\ work' = {} \/ work' = matching_rules(batch[turn + 1])
    BY <1>1, <1>5 DEF NextPath
  <2>2. turn' \in 0 .. Len(batch) /\ turn' # 0
    BY <1>1, <1>5, <2>1
  <2>3. work' \subseteq DOMAIN Order /\ \A i \in work' : Matches(i, batch[turn + 1])
    BY <2>1 DEF matching_rules
  <2>4. LoopOK'
    BY <1>1, <2>1, <2>2, <2>3, TypesParts DEF LoopOK
  <2>5. (\A i \in work : Matches(i, Path))'
    <3>1. Path' = batch[turn + 1]
      BY <2>1 DEF Path
    <3> QED
      BY <2>3, <3>1 DEF Matches
  <2>6. JobsInOrder'
    BY <1>1, <2>1, <2>2, <2>5, BetweenJobs DEF JobPcs
  <2> QED
    BY <1>2, <2>4, <2>6, TypesNext
<1> QED
  BY <1>3, <1>4, <1>5

(***************************************************************************)
(* A job, step by step.                                                    *)
(***************************************************************************)

Ordered == TypeOK /\ JobsInOrder

\* Where the loop is does not change within a job, and nothing is taken.
Within ==
  /\ UNCHANGED <<host, cb, cbEvent, queue, flag, permit, changes, pc, batch, turn, done>>
  /\ work' = work \/ Over

LEMMA JobTyped ==
  ASSUME TypeOK, work # {}, Within,
         kernel' = kernel \/ KernelGrows,
         stage' \in {"none", "mkdir", "pack", "put", "verify", "remove", "act", "recreate"},
         \A p \in DOMAIN sent' : p \in Paths /\ sent'[p] \in Contents \cup {Gone},
         failed' \subseteq failed \cup {Job},
         CopiesOK'
  PROVE  TypeOK'
<1>2. /\ kernel' \in Seq(KernelEvents) /\ Len(kernel') <= KernelCap + 1
      /\ Len(kernel') > KernelCap => Last(kernel') = Rescan
  BY KernelStays DEF KernelGrows
<1>3. EventsOK'
  BY <1>2, TypesParts DEF EventsOK, Within
<1>4. work' \subseteq DOMAIN Order /\ failed' \subseteq Rules
  <2>1. Job \in Rules
    BY PlaceIn
  <2> QED
    BY <2>1, TypesParts DEF LoopOK, Within, Over
<1>5. LoopOK'
  BY <1>4, TypesParts DEF LoopOK, Within
<1>6. HostOK'
  BY TypesParts DEF HostOK, Within
<1> QED
  BY <1>3, <1>5, <1>6, TypesNext

\* What the job at hand is about.
LEMMA JobOf ==
  ASSUME Ordered, work # {}, Job \in SyncRules
  PROVE  /\ Place \in work /\ Job \in Rules
         /\ pc = "dispatch" =>
              /\ turn \in DOMAIN batch /\ Path \in Paths
              /\ Path \in Watches[Job] /\ Path \notin Excluded[Job]
         /\ Files \subseteq Paths
         /\ \A p \in Files : p \in Watches[Job] /\ (p \notin Skipped[Job] => <<Job, p>> \in Pairs(p))
<1>1. Place \in work /\ Job \in Rules
  BY PlaceIn DEF Ordered
<1>2. ASSUME pc = "dispatch"
      PROVE  /\ turn \in DOMAIN batch /\ Path \in Paths
             /\ Path \in Watches[Job] /\ Path \notin Excluded[Job]
  <2>1. turn # 0 /\ Matches(Place, Path)
    BY <1>1, <1>2 DEF Ordered, JobsInOrder
  <2>2. batch \in Seq(Paths) /\ turn \in 0 .. Len(batch)
    BY TypesParts DEF Ordered, LoopOK
  <2>3. turn \in DOMAIN batch /\ batch[turn] \in Paths
    BY <2>1, <2>2
  <2> QED
    BY <2>1, <2>3 DEF Matches, Job, Path
<1>3. ASSUME NEW p \in Files PROVE p \in Watches[Job] /\ p \in Paths
  <2>1. CASE pc = "dispatch"
    BY <1>2, <1>3, <2>1 DEF Files, Whole
  <2>2. CASE pc # "dispatch"
    BY <1>1, <1>3, <2>2, RuleAssumption DEF Files, Whole
  <2> QED
    BY <2>1, <2>2
<1> QED
  BY <1>1, <1>2, <1>3, PairIs

LEMMA FailOrdered ==
  ASSUME Ordered, work # {}, Fail, UNCHANGED <<host, cb, cbEvent, queue, flag, permit, changes>>,
         kernel' = kernel \/ KernelGrows,
         CopiesOK'
  PROVE  Ordered'
<1>1. Over /\ UNCHANGED <<pc, batch, turn, done>> /\ failed' \subseteq failed \cup {Job}
  BY DEF Fail
<1>2. stage' = "none" /\ DOMAIN sent' = {}
  BY <1>1 DEF Over
<1>3. TypeOK'
  BY <1>1, <1>2, JobTyped DEF Ordered, Within
<1> QED
  BY <1>1, <1>3, JobIsOver DEF Ordered

LEMMA DoneOrdered ==
  ASSUME Ordered, work # {}, Done, UNCHANGED <<host, cb, cbEvent, queue, flag, permit, changes>>,
         kernel' = kernel \/ KernelGrows,
         CopiesOK'
  PROVE  Ordered'
<1>1. CASE Over
  <2>1. UNCHANGED <<pc, batch, turn, done, failed>> /\ stage' = "none" /\ DOMAIN sent' = {}
    BY <1>1 DEF Done, Over
  <2>2. TypeOK'
    BY <1>1, <2>1, JobTyped DEF Ordered, Within
  <2> QED
    BY <1>1, <2>1, <2>2, JobIsOver DEF Ordered
<1>2. CASE stage' = "act" /\ sent' = <<>> /\ work' = work
  <2>1. UNCHANGED <<pc, batch, turn, done, failed>> /\ DOMAIN sent' = {}
    BY <1>2 DEF Done
  <2>2. TypeOK'
    BY <1>2, <2>1, JobTyped DEF Ordered, Within
  <2>3. JobOK'
    BY <1>2 DEF JobOK
  <2> QED
    BY <1>2, <2>1, <2>2, <2>3, JobGoesOn DEF Ordered
<1> QED
  BY <1>1, <1>2 DEF Done

\* The next stage of the same job.
LEMMA StepOrdered ==
  ASSUME Ordered, work # {}, UNCHANGED <<host, cb, cbEvent, queue, flag, permit, changes>>,
         NEW s, Step(s),
         kernel' = kernel \/ KernelGrows,
         s \in {"mkdir", "pack", "put", "verify", "remove", "recreate"},
         \A p \in DOMAIN sent' : p \in Paths /\ sent'[p] \in Contents \cup {Gone},
         s # "recreate" => Job \in SyncRules,
         s \in {"mkdir", "pack", "remove"} /\ pc = "dispatch" => Path \notin Skipped[Job],
         s = "remove" => pc = "dispatch",
         s = "recreate" => sent' \in [Paths -> Contents \cup {Gone}],
         s \in {"put", "verify"} => \A p \in DOMAIN sent' : <<Job, p>> \in Pairs(p),
         CopiesOK'
  PROVE  Ordered'
<1>1. stage' = s /\ UNCHANGED <<pc, batch, turn, done, work, failed>>
  BY DEF Step
<1>2. TypeOK'
  BY <1>1, JobTyped DEF Ordered, Within
<1>3. Job' = Job /\ Path' = Path
  BY <1>1 DEF Job, Place, Path
<1>4. JobOK'
  BY <1>1, <1>3 DEF JobOK
<1> QED
  BY <1>1, <1>2, <1>4, JobGoesOn DEF Ordered

LEMMA CopiesKept ==
  ASSUME TypeOK, UNCHANGED <<copy, dir, up, dropped, rebuilt>>,
         ensured' = ensured \/ (Job \in SyncRules /\ ensured' = ensured \cup {Job}),
         owed' \subseteq owed, presumed' = presumed
  PROVE  CopiesOK'
  BY TypesParts DEF CopiesOK

\* What Fail takes off is no more.
LEMMA FailOwes ==
  ASSUME Fail
  PROVE  owed' \subseteq owed
  BY DEF Fail

LEMMA StartOrdered ==
  ASSUME Ordered, Start
  PROVE  Ordered'
<1>1. /\ work # {} /\ stage = "none" /\ Job \in SyncRules
      /\ UNCHANGED <<kernel, copy, dir, up, dropped, presumed, rebuilt>>
      /\ UNCHANGED <<host, cb, cbEvent, queue, flag, permit, changes>>
  BY DEF Start, At, there, Outside
<1>2. CASE Fail /\ UNCHANGED ensured
  <2>1. CopiesOK'
    BY <1>1, <1>2, FailOwes, CopiesKept DEF Ordered
  <2> QED
    BY <1>1, <1>2, <2>1, FailOrdered
<1>3. CASE BeginUpload
  <2>1. owed' = owed /\ (ensured' = ensured \/ ensured' = ensured \cup {Job})
    BY <1>3 DEF BeginUpload
  <2>2. CopiesOK'
    BY <1>1, <2>1, CopiesKept DEF Ordered
  <2>3. CASE NothingToCopy
    BY <1>1, <1>3, <2>2, <2>3, DoneOrdered DEF BeginUpload
  <2>4. CASE ~NothingToCopy
    <3>1. PICK s \in {"pack", "mkdir"} : Step(s)
      BY <1>3, <2>4 DEF BeginUpload
    <3>2. sent' = sent /\ \A p \in DOMAIN sent' : p \in Paths /\ sent'[p] \in Contents \cup {Gone}
      BY <1>3, <2>4, TypesParts DEF BeginUpload, Ordered, LoopOK
    <3>3. pc = "dispatch" => Path \notin Skipped[Job]
      BY <2>4 DEF NothingToCopy, Whole
    <3> QED
      BY <1>1, <2>2, <3>1, <3>2, <3>3, StepOrdered
  <2> QED
    BY <2>3, <2>4
<1>4. CASE /\ ~Present
           /\ IF Path \in Shared[Job] THEN Done ELSE (Step("remove") /\ UNCHANGED sent)
           /\ UNCHANGED <<owed, ensured>>
  <2>1. CopiesOK'
    BY <1>1, <1>4, CopiesKept DEF Ordered
  <2>2. CASE Path \in Shared[Job]
    BY <1>1, <1>4, <2>1, <2>2, DoneOrdered
  <2>3. CASE Path \notin Shared[Job]
    <3>1. Step("remove") /\ sent' = sent
      BY <1>4, <2>3
    <3>2. \A p \in DOMAIN sent' : p \in Paths /\ sent'[p] \in Contents \cup {Gone}
      BY <3>1, TypesParts DEF Ordered, LoopOK
    <3>3. pc = "dispatch"
      BY <1>4 DEF Present, Whole
    <3>4. Path \notin Skipped[Job]
      <4>1. Path \in Paths /\ Path \notin Excluded[Job] /\ Job \in Rules
        BY <1>1, <3>3, JobOf
      <4> QED
        BY <2>3, <4>1 DEF Skipped, Skip, Excluded, Shared
    <3> QED
      BY <1>1, <2>1, <3>1, <3>2, <3>3, <3>4, StepOrdered
  <2> QED
    BY <2>2, <2>3
<1> QED
  BY <1>2, <1>3, <1>4 DEF Start

LEMMA MkdirOrdered ==
  ASSUME Ordered, Mkdir
  PROVE  Ordered'
<1>1. /\ work # {} /\ stage = "mkdir" /\ Job \in SyncRules /\ Step("pack") /\ sent' = sent
      /\ UNCHANGED <<kernel, copy, up, ensured, owed, dropped, presumed, rebuilt>>
      /\ UNCHANGED <<host, cb, cbEvent, queue, flag, permit, changes>>
      /\ pc = "dispatch" => Path \notin Skipped[Job]
      /\ dir' = dir \/ dir' = [dir EXCEPT ![Job] = TRUE]
  BY DEF Mkdir, At, Outside, history, Ordered, JobsInOrder
<1>2. CopiesOK'
  BY <1>1, TypesParts DEF CopiesOK, Ordered
<1>3. \A p \in DOMAIN sent' : p \in Paths /\ sent'[p] \in Contents \cup {Gone}
  BY <1>1, TypesParts DEF Ordered, LoopOK
<1> QED
  BY <1>1, <1>2, <1>3, StepOrdered

LEMMA PackOrdered ==
  ASSUME Ordered, Pack
  PROVE  Ordered'
<1>1. /\ work # {} /\ stage = "pack" /\ Job \in SyncRules
      /\ UNCHANGED <<copy, dir, up, ensured, presumed, rebuilt>>
      /\ UNCHANGED <<host, cb, cbEvent, queue, flag, permit, changes>>
      /\ pc = "dispatch" => Path \notin Skipped[Job]
  BY DEF Pack, At, Outside, there, Ordered, JobsInOrder
<1>2. CASE Fail /\ UNCHANGED <<kernel, dropped>>
  <2>1. CopiesOK'
    BY <1>1, <1>2, FailOwes, CopiesKept DEF Ordered
  <2> QED
    BY <1>1, <1>2, <2>1, FailOrdered
<1>3. ASSUME NEW files, files = {p \in Files : host[p] # Gone},
             sent' = [p \in files |-> host[p]],
             Opens(Whole /\ Job \in Large),
             Step("put") /\ UNCHANGED owed
      PROVE  Ordered'
  <2>1. files \subseteq Files /\ files \subseteq Paths
    BY <1>1, <1>3, JobOf
  <2>2. KernelGrows /\ dropped' = dropped
    BY <1>3, OpensKeeps DEF Ordered
  <2>3. CopiesOK'
    BY <1>1, <1>3, <2>2, CopiesKept DEF Ordered
  <2>4. ASSUME NEW p \in DOMAIN sent'
        PROVE  p \in Paths /\ sent'[p] \in Contents \cup {Gone} /\ <<Job, p>> \in Pairs(p)
    <3>1. p \in files /\ sent'[p] = host[p] /\ p \in Paths
      BY <1>3, <2>1, <2>4
    <3>2. host[p] \in Contents \cup {Gone}
      BY <3>1, TypesParts DEF Ordered, HostOK
    <3>3. p \in Files /\ (p \notin Skipped[Job] => <<Job, p>> \in Pairs(p))
      BY <1>1, <2>1, <3>1, JobOf
    <3>4. p \notin Skipped[Job]
      BY <1>1, <3>3 DEF Files, Whole
    <3> QED
      BY <3>1, <3>2, <3>3, <3>4
  <2> QED
    BY <1>1, <1>3, <2>2, <2>3, <2>4, StepOrdered
<1> QED
  BY <1>2, <1>3 DEF Pack

\* The copies after an archive has landed, as far as it did.
LEMMA LandTyped ==
  ASSUME Ordered, work # {}, stage = "put", NEW ps \in SUBSET DOMAIN sent, Land(ps), UNCHANGED ensured,
         owed' \subseteq owed \cup {<<Job, p>> : p \in DOMAIN sent}
  PROVE  CopiesOK'
<1>1. Job \in SyncRules /\ CopiesOK
      /\ \A p \in DOMAIN sent : p \in Paths /\ sent[p] \in Contents \cup {Gone}
  BY TypesParts DEF Ordered, JobsInOrder, LoopOK
<1>2. copy' \in [SyncRules -> [Paths -> Contents \cup {Gone}]]
  <2> DEFINE new == [p \in Paths |-> IF p \in ps THEN sent[p] ELSE copy[Job][p]]
  <2>1. copy' = [copy EXCEPT ![Job] = new]
    BY <1>1 DEF Land, CopiesOK
  <2>2. new \in [Paths -> Contents \cup {Gone}]
    BY <1>1 DEF CopiesOK
  <2> HIDE DEF new
  <2> QED
    BY <1>1, <2>1, <2>2 DEF CopiesOK
<1>3. owed' \subseteq SyncRules \X Paths
  BY <1>1 DEF CopiesOK
<1>4. /\ dropped' \subseteq dropped /\ presumed' \subseteq presumed /\ rebuilt' \subseteq rebuilt
      /\ UNCHANGED <<dir, up>>
  BY DEF Land
<1> QED
  BY <1>1, <1>2, <1>3, <1>4 DEF CopiesOK

LEMMA PutOrdered ==
  ASSUME Ordered, Put
  PROVE  Ordered'
<1>1. /\ work # {} /\ stage = "put" /\ Job \in SyncRules /\ UNCHANGED ensured
      /\ UNCHANGED <<host, cb, cbEvent, queue, flag, permit, changes>>
      /\ \A p \in DOMAIN sent : p \in Paths /\ sent[p] \in Contents \cup {Gone} /\ <<Job, p>> \in Pairs(p)
  BY TypesParts DEF Put, At, Outside, Ordered, JobsInOrder, LoopOK
<1>2. PICK ps \in Extracted : 
       /\ Land(ps) /\ WriteBack(ps)
       /\ \/ /\ ps = DOMAIN sent /\ Container[Job] \in up /\ dir[Job]
             /\ Done /\ Promise(ps)
          \/ Fail
          \/ Step("verify") /\ UNCHANGED <<owed, sent>>
  BY DEF Put
<1>3. ps \in SUBSET DOMAIN sent
  BY <1>2 DEF Extracted
<1>4. kernel' = kernel \/ KernelGrows
  <2>1. CASE ps \cap Shared[Job] = {}
    BY <1>2, <2>1 DEF WriteBack
  <2>2. CASE ps \cap Shared[Job] # {}
    <3> DEFINE q == CHOOSE p \in ps \cap Shared[Job] : TRUE
    <3>1. q \in Paths
      BY <1>1, <1>3, <2>2
    <3>2. Queue(q) /\ q \in KernelEvents
      BY <1>2, <2>2, <3>1 DEF WriteBack, KernelEvents, Events
    <3> HIDE DEF q
    <3> QED
      BY <3>2, QueueKeeps DEF Ordered
  <2> QED
    BY <2>1, <2>2
<1>5. owed' \subseteq owed \cup {<<Job, p>> : p \in DOMAIN sent}
  BY <1>2, <1>3, FailOwes DEF Promise
<1>6. CopiesOK'
  BY <1>1, <1>2, <1>3, <1>5, LandTyped
<1>7. CASE Done
  BY <1>1, <1>4, <1>6, <1>7, DoneOrdered
<1>8. CASE Fail
  BY <1>1, <1>4, <1>6, <1>8, FailOrdered
<1>9. CASE Step("verify") /\ UNCHANGED <<owed, sent>>
  BY <1>1, <1>4, <1>6, <1>9, StepOrdered
<1> QED
  BY <1>2, <1>7, <1>8, <1>9

LEMMA VerifyOrdered ==
  ASSUME Ordered, Verify
  PROVE  Ordered'
<1>1. /\ work # {} /\ stage = "verify" /\ Job \in SyncRules
      /\ UNCHANGED <<kernel, copy, dir, up, rebuilt, ensured>>
      /\ UNCHANGED <<host, cb, cbEvent, queue, flag, permit, changes>>
      /\ \A p \in DOMAIN sent : p \in Paths
  BY TypesParts DEF Verify, At, Outside, there, Ordered, JobsInOrder, LoopOK
<1>2. CASE Fail /\ UNCHANGED <<presumed, dropped>>
  <2>1. CopiesOK'
    BY <1>1, <1>2, FailOwes, CopiesKept DEF Ordered
  <2> QED
    BY <1>1, <1>2, <2>1, FailOrdered
<1>3. CASE /\ presumed' = presumed \cup Alike(DOMAIN sent)
           /\ dropped' = dropped \ Current(DOMAIN sent)
           /\ Done /\ Promise(DOMAIN sent)
  <2>1. CopiesOK'
    <3>1. Alike(DOMAIN sent) \subseteq SyncRules \X Paths
      BY <1>1 DEF Alike
    <3>2. owed' \subseteq owed \cup {<<Job, p>> : p \in DOMAIN sent}
      BY <1>3 DEF Promise
    <3> QED
      BY <1>1, <1>3, <3>1, <3>2, TypesParts DEF CopiesOK, Ordered
  <2> QED
    BY <1>1, <1>3, <2>1, DoneOrdered
<1> QED
  BY <1>2, <1>3 DEF Verify

LEMMA RemoveOrdered ==
  ASSUME Ordered, RemoveCopy
  PROVE  Ordered'
<1>1. /\ work # {} /\ stage = "remove" /\ Job \in SyncRules /\ UNCHANGED <<kernel, ensured>>
      /\ UNCHANGED <<host, cb, cbEvent, queue, flag, permit, changes>>
  BY DEF RemoveCopy, At, Outside, Ordered, JobsInOrder
<1>2. CASE Fail /\ UNCHANGED <<there, dropped, presumed, rebuilt>>
  <2>1. CopiesOK'
    BY <1>1, <1>2, FailOwes, CopiesKept DEF Ordered, there
  <2> QED
    BY <1>1, <1>2, <2>1, FailOrdered
<1>3. CASE /\ copy' = [copy EXCEPT ![Job][Path] = Gone]
           /\ dropped' = IF host[Path] = Gone THEN dropped \ {<<Job, Path>>} ELSE dropped
           /\ presumed' = presumed \ {<<Job, Path>>} /\ rebuilt' = rebuilt \ {<<Job, Path>>}
           /\ UNCHANGED <<dir, up>>
           /\ (Done /\ UNCHANGED owed) \/ Fail
  <2>1. CopiesOK
    BY TypesParts DEF Ordered
  <2>2. copy' \in [SyncRules -> [Paths -> Contents \cup {Gone}]]
    <3>1. copy[Job] \in [Paths -> Contents \cup {Gone}]
      BY <1>1, <2>1 DEF CopiesOK
    <3>2. [copy[Job] EXCEPT ![Path] = Gone] \in [Paths -> Contents \cup {Gone}]
      BY <3>1
    <3> QED
      BY <1>3, <2>1, <3>2 DEF CopiesOK
  <2>3. owed' \subseteq owed
    BY <1>3, FailOwes
  <2>4. CopiesOK'
    BY <1>1, <1>3, <2>1, <2>2, <2>3 DEF CopiesOK
  <2> QED
    BY <1>1, <1>3, <2>4, FailOrdered, DoneOrdered
<1>4. CASE /\ presumed' = presumed \cup {<<Job, Path>>}
           /\ Done /\ UNCHANGED <<there, owed, dropped, rebuilt>>
  <2>1. Path \in Paths
    BY <1>1, JobOf DEF Ordered, JobsInOrder
  <2>2. CopiesOK'
    BY <1>1, <1>4, <2>1, TypesParts DEF CopiesOK, Ordered, there
  <2> QED
    BY <1>1, <1>4, <2>2, DoneOrdered
<1> QED
  BY <1>2, <1>3, <1>4 DEF RemoveCopy

LEMMA ActOrdered ==
  ASSUME Ordered, Act
  PROVE  Ordered'
<1>1. /\ work # {} /\ Over /\ UNCHANGED <<kernel, there, ensured, history>>
      /\ UNCHANGED <<host, cb, cbEvent, queue, flag, permit, changes, pc, batch, turn, done, failed>>
  BY DEF Act, At, Outside
<1>2. CopiesOK'
  BY <1>1, TypesParts DEF CopiesOK, Ordered, there, history
<1>3. stage' = "none" /\ DOMAIN sent' = {}
  BY <1>1 DEF Over
<1>4. TypeOK'
  BY <1>1, <1>2, <1>3, JobTyped DEF Ordered, Within
<1> QED
  BY <1>1, <1>4, JobIsOver DEF Ordered

LEMMA BuildOrdered ==
  ASSUME Ordered, Build
  PROVE  Ordered'
<1>1. /\ work # {} /\ UNCHANGED <<there, ensured, owed, presumed, rebuilt>>
      /\ UNCHANGED <<host, cb, cbEvent, queue, flag, permit, changes>>
  BY DEF Build, At, Outside
<1>2. dropped' = dropped => CopiesOK'
  BY <1>1, TypesParts DEF CopiesOK, Ordered, there
<1>3. CASE Over /\ UNCHANGED <<kernel, dropped, pc, batch, turn, done, failed>>
  <2>1. stage' = "none" /\ DOMAIN sent' = {}
    BY <1>3 DEF Over
  <2>2. TypeOK'
    BY <1>1, <1>2, <1>3, <2>1, JobTyped DEF Ordered, Within
  <2> QED
    BY <1>1, <1>3, <2>2, JobIsOver DEF Ordered
<1>4. CASE sent' = host /\ Opens(Job \in Large) /\ Step("recreate")
  <2>1. host \in [Paths -> Contents \cup {Gone}]
    BY TypesParts DEF Ordered, HostOK
  <2>2. KernelGrows /\ dropped' = dropped
    BY <1>4, OpensKeeps DEF Ordered
  <2> QED
    BY <1>1, <1>2, <1>4, <2>1, <2>2, StepOrdered
<1> QED
  BY <1>3, <1>4 DEF Build

\* The copies of a container's rules.
LEMMA CopiesTyped ==
  ASSUME NEW c, NEW of
  PROVE  Copies(c, of) \subseteq SyncRules \X Paths
  BY DEF Copies, RulesIn

LEMMA RecreateOrdered ==
  ASSUME Ordered, Recreate
  PROVE  Ordered'
<1>1. /\ work # {} /\ stage = "recreate" /\ Over /\ UNCHANGED <<kernel, ensured>>
      /\ UNCHANGED <<host, cb, cbEvent, queue, flag, permit, changes, pc, batch, turn, done, failed>>
  BY DEF Recreate, At, Outside
<1>2. CopiesOK /\ sent \in [Paths -> Contents \cup {Gone}] /\ Container[Job] \in Containers
  <2>1. Job \in Rules
    BY <1>1, PlaceIn DEF Ordered
  <2> QED
    BY <1>1, <2>1, TypesParts DEF Ordered, JobsInOrder, Containers
<1>3. CopiesOK'
  <2>1. CASE UNCHANGED <<there, history>>
    BY <1>1, <1>2, <2>1 DEF CopiesOK, there, history
  <2>2. CASE Recreated(Container[Job])
    <3> DEFINE has(r) == Mounts[r] # {} \/ Built[r] # {}
               anew(r) == IF r \in RulesIn(Container[Job]) THEN has(r) ELSE dir[r]
               gone == Copies(Container[Job], [r \in Rules |-> Paths \ Kept[r]])
               held == Copies(Container[Job], Built)
    <3>1. /\ up' = up \cup {Container[Job]} /\ dir' = [r \in SyncRules |-> anew(r)]
          /\ presumed' = presumed \ held /\ rebuilt' = (rebuilt \cup gone) \ held
          /\ UNCHANGED <<owed, dropped>>
      BY <2>2 DEF Recreated
    <3>3. gone \subseteq SyncRules \X Paths
      BY CopiesTyped
    <3> HIDE DEF has, gone, held
    <3>4. ASSUME NEW r \in SyncRules PROVE anew(r) \in BOOLEAN
      <4>1. dir[r] \in BOOLEAN /\ has(r) \in BOOLEAN
        BY <1>2 DEF CopiesOK, has
      <4> QED
        BY <4>1
    <3> HIDE DEF anew
    <3>5. dir' \in [SyncRules -> BOOLEAN]
      BY <3>1, <3>4
    <3>6. copy' \in [SyncRules -> [Paths -> Contents \cup {Gone}]]
      BY <1>2, <2>2 DEF Recreated, CopiesOK
    <3> QED
      BY <1>1, <1>2, <3>1, <3>3, <3>5, <3>6 DEF CopiesOK
  <2>3. CASE Removed(Container[Job])
    <3> DEFINE gone == Copies(Container[Job], [r \in Rules |-> Paths \ Kept[r]])
    <3>1. /\ UNCHANGED <<owed, dropped, presumed>> /\ rebuilt' = rebuilt \cup gone
          /\ up' \subseteq Containers /\ dir' \in [SyncRules -> BOOLEAN]
      BY <1>2, <2>3 DEF Removed, CopiesOK
    <3>2. copy' \in [SyncRules -> [Paths -> Contents \cup {Gone}]]
      BY <1>2, <2>3 DEF Removed, CopiesOK
    <3>3. gone \subseteq SyncRules \X Paths
      BY CopiesTyped
    <3> HIDE DEF gone
    <3> QED
      BY <1>1, <1>2, <3>1, <3>2, <3>3 DEF CopiesOK
  <2> QED
    BY <2>1, <2>2, <2>3 DEF Recreate
<1>4. stage' = "none" /\ DOMAIN sent' = {}
  BY <1>1 DEF Over
<1>5. TypeOK'
  BY <1>1, <1>3, <1>4, JobTyped DEF Ordered, Within
<1> QED
  BY <1>1, <1>5, JobIsOver DEF Ordered

\* An edit and a callback leave the jobs alone.
LEMMA LoopKept ==
  ASSUME JobsInOrder, UNCHANGED loop, pc = "setup" => owed' \subseteq owed
  PROVE  JobsInOrder'
<1>1. UNCHANGED <<pc, batch, turn, done, work, stage, sent, failed>>
  BY DEF loop
<1>2. Job' = Job /\ Path' = Path
  BY <1>1 DEF Job, Place, Path
<1>3. (\A i \in work : Matches(i, Path)) => (\A i \in work : Matches(i, Path))'
  BY <1>1, <1>2 DEF Matches
<1> QED
  BY <1>1, <1>2, <1>3 DEF JobsInOrder

LEMMA EditOrdered ==
  ASSUME Ordered, NEW p \in Paths, NEW c \in Contents \cup {Gone}, Edit(p, c)
  PROVE  Ordered'
<1>1. UNCHANGED loop /\ (pc = "setup" => owed' \subseteq owed)
  BY DEF Edit, Watching
<1> QED
  BY <1>1, EditTyped, LoopKept DEF Ordered

LEMMA CallbackOrdered ==
  ASSUME Ordered, Callback
  PROVE  Ordered'
<1>1. UNCHANGED loop /\ owed' = owed
  BY DEF Callback, Discard, TakeEvent, StoreFlag, NotifyOne, TrySend, CbOnly, history
<1> QED
  BY <1>1, CallbackTyped, LoopKept DEF Ordered

LEMMA DispatchOrdered ==
  ASSUME Ordered, Dispatch
  PROVE  Ordered'
  BY StartOrdered, MkdirOrdered, PackOrdered, PutOrdered, VerifyOrdered, RemoveOrdered, ActOrdered,
     BuildOrdered, RecreateOrdered DEF Dispatch

LEMMA LoopOrdered ==
  ASSUME Ordered, Loop
  PROVE  Ordered'
<1>1. CASE Refused \/ Register \/ Woken
  BY <1>1, SetupOrdered DEF Ordered
<1>2. CASE RecoverFromOverflow \/ SyncedAll \/ Receive
  BY <1>2, RecoverOrdered, SyncedOrdered, ReceiveOrdered DEF Ordered
<1>3. CASE Coalesce \/ CloseBatch \/ NextPath
  BY <1>3, CoalesceOrdered, BatchOrdered DEF Ordered
<1> QED
  BY <1>1, <1>2, <1>3, DispatchOrdered DEF Loop

LEMMA NextOrdered ==
  ASSUME Ordered, [Next]_vars
  PROVE  Ordered'
<1>1. ASSUME NEW p \in Paths, NEW c \in Contents \cup {Gone}, Edit(p, c)
      PROVE  Ordered'
  BY <1>1, EditOrdered
<1>2. CASE Callback
  BY <1>2, CallbackOrdered
<1>3. CASE Loop
  BY <1>3, LoopOrdered
<1>4. CASE Interrupt
  BY <1>4, SetupOrdered DEF Ordered
<1>5. CASE UNCHANGED vars
  <2>1. UNCHANGED <<host, events, loop, there, ensured, history, changes>>
    BY <1>5 DEF vars
  <2>2. EventsOK' /\ LoopOK' /\ CopiesOK' /\ HostOK'
    BY <2>1, TypesParts DEF EventsOK, LoopOK, CopiesOK, HostOK, Ordered, events, loop, there, history
  <2>3. JobsInOrder'
    BY <2>1, LoopKept DEF Ordered, history
  <2> QED
    BY <2>2, <2>3, TypesNext DEF Ordered
<1> QED
  BY <1>1, <1>2, <1>3, <1>4, <1>5 DEF Next

LEMMA BeginOrdered == Init => Ordered
<1>1. Init => JobsInOrder
  BY DEF Init, JobsInOrder
<1> QED
  BY <1>1, BeginTyped DEF Ordered

(***************************************************************************)
(* What was read is fresh, or something newer is known about.              *)
(***************************************************************************)

\* The file q of the rule r, as far as the job at hand has read it.
FreshAt(r, q) ==
  /\ stage \in {"put", "verify"} /\ Job = r /\ q \in DOMAIN sent => sent[q] = host[q] \/ Newer(<<r, q>>)
  /\ stage = "remove" /\ Job = r /\ Path = q => host[q] = Gone \/ Newer(<<r, q>>)
  /\ stage = "recreate" /\ r \in RulesIn(Container[Job]) /\ <<r, q>> \in Pairs(q) =>
       sent[q] = host[q] \/ Newer(<<r, q>>)
FreshAll == Watching => \A r \in SyncRules : \A q \in Paths : <<r, q>> \in Pairs(q) => FreshAt(r, q)

LEMMA FreshParts == Ordered => (ReadFresh <=> FreshAll)
<1> SUFFICES ASSUME Ordered PROVE ReadFresh <=> FreshAll
  OBVIOUS
<1>1. ASSUME stage \in {"put", "verify"}, NEW p \in DOMAIN sent
      PROVE  Job \in SyncRules /\ p \in Paths /\ <<Job, p>> \in Pairs(p)
  BY <1>1, TypesParts DEF Ordered, JobsInOrder, LoopOK
<1>2. ASSUME stage = "remove"
      PROVE  Job \in SyncRules /\ Path \in Paths /\ <<Job, Path>> \in Pairs(Path)
  <2>1. Job \in SyncRules /\ pc = "dispatch" /\ Path \notin Skipped[Job] /\ work # {}
    BY <1>2 DEF Ordered, JobsInOrder
  <2>2. Path \in Paths /\ Path \in Watches[Job]
    BY <2>1, JobOf
  <2> QED
    BY <2>1, <2>2, PairIs
<1>3. RulesIn(Container[Job]) \subseteq SyncRules
  BY DEF RulesIn
<1>4. ASSUME ReadFresh, Watching, NEW r \in SyncRules, NEW q \in Paths, <<r, q>> \in Pairs(q)
      PROVE  FreshAt(r, q)
  <2>1. stage \in {"put", "verify"} /\ Job = r /\ q \in DOMAIN sent => sent[q] = host[q] \/ Newer(<<r, q>>)
    BY <1>4 DEF ReadFresh
  <2>2. stage = "remove" /\ Job = r /\ Path = q => host[q] = Gone \/ Newer(<<r, q>>)
    BY <1>4 DEF ReadFresh
  <2>3. stage = "recreate" /\ r \in RulesIn(Container[Job]) => sent[q] = host[q] \/ Newer(<<r, q>>)
    BY <1>4 DEF ReadFresh
  <2> QED
    BY <2>1, <2>2, <2>3 DEF FreshAt
<1>5. ASSUME FreshAll, Watching
      PROVE  ReadFresh
  <2>0. \A r \in SyncRules : \A q \in Paths : <<r, q>> \in Pairs(q) => FreshAt(r, q)
    BY <1>5 DEF FreshAll
  <2>1. ASSUME stage \in {"put", "verify"}, NEW p \in DOMAIN sent
        PROVE  sent[p] = host[p] \/ Newer(<<Job, p>>)
    <3>1. FreshAt(Job, p)
      BY <1>1, <2>0, <2>1
    <3> QED
      BY <2>1, <3>1 DEF FreshAt
  <2>2. ASSUME stage = "remove" PROVE host[Path] = Gone \/ Newer(<<Job, Path>>)
    <3>1. FreshAt(Job, Path)
      BY <1>2, <2>0, <2>2
    <3> QED
      BY <2>2, <3>1 DEF FreshAt
  <2>3. ASSUME stage = "recreate", NEW r \in RulesIn(Container[Job]), NEW p \in Paths, <<r, p>> \in Pairs(p)
        PROVE  sent[p] = host[p] \/ Newer(<<r, p>>)
    <3>1. FreshAt(r, p)
      BY <1>3, <2>0, <2>3
    <3> QED
      BY <2>3, <3>1 DEF FreshAt
  <2> QED
    BY <2>1, <2>2, <2>3 DEF ReadFresh
<1>6. ASSUME ~Watching PROVE ReadFresh /\ FreshAll
  BY <1>6 DEF ReadFresh, FreshAll
<1> QED
  BY <1>4, <1>5, <1>6 DEF FreshAll

LEMMA FreshNext == Ordered' => (ReadFresh' <=> FreshAll')
  BY FreshParts, PTL

\* Between the jobs nothing has been read.
LEMMA FreshQuiet ==
  ASSUME stage' \in {"none", "mkdir", "pack", "act"} \/ ~Watching'
  PROVE  ReadFresh'
  BY DEF ReadFresh

(***************************************************************************)
(* The events.                                                             *)
(***************************************************************************)

\* What is known about x is still known after a step that leaves the loop and
\* x's file alone.
LEMMA LoopStays ==
  ASSUME UNCHANGED loop, NEW x, host'[x[2]] = host[x[2]]
  PROVE  /\ Recovering(x)' <=> Recovering(x)
         /\ Dispatching(x)' <=> Dispatching(x)
         /\ pc' = pc /\ batch' = batch /\ turn' = turn
<1>1. UNCHANGED <<pc, batch, turn, done, work, stage, sent, failed>>
  BY DEF loop
<1>2. Place' = Place /\ Job' = Job /\ Path' = Path
  BY <1>1 DEF Job, Place, Path
<1>3. Later(x)' <=> Later(x)
  BY <1>1, <1>2 DEF Later
<1>4. AtHand(x)' <=> AtHand(x)
  BY <1>1, <1>2 DEF AtHand
<1>5. Underway(x)' <=> Underway(x)
  BY <1>3, <1>4 DEF Underway
<1>6. rules_not_recovered' = rules_not_recovered /\ Resyncing' = Resyncing
  BY <1>1 DEF rules_not_recovered, Resyncing
<1> QED
  BY <1>1, <1>2, <1>5, <1>6 DEF Recovering, Dispatching

\* The callback loses no event: it hands it on, or asks for a resync.
LEMMA CallbackNews ==
  ASSUME Ordered, Callback, NEW p \in Paths, NEW x \in Pairs(p), Newer(x)
  PROVE  Newer(x)'
<1>0. x[2] = p /\ p # Rescan
  BY PairsOf, BoundAssumption
<1>1. UNCHANGED <<host, loop>>
  BY DEF Callback, Discard, TakeEvent, StoreFlag, NotifyOne, TrySend, CbOnly
<1>2. /\ Recovering(x)' <=> Recovering(x)
      /\ pc' = pc /\ batch' = batch /\ turn' = turn
  BY <1>1, LoopStays
<1>3. kernel \in Seq(KernelEvents) /\ queue \in Seq(Events) /\ cbEvent \in Events
  BY TypesParts DEF Ordered, EventsOK
<1>8. CASE Discard
  <2>1. /\ kernel # <<>> /\ Head(kernel) = Opened /\ kernel' = Tail(kernel)
        /\ UNCHANGED <<cb, cbEvent, queue, flag, dropped>>
    BY <1>8 DEF Discard, should_enqueue, history
  <2>2. ToSet(kernel) = {Opened} \cup ToSet(kernel')
    BY <1>3, <2>1, TailSet
  <2>3. Opened # p /\ Opened # Rescan
    BY BoundAssumption
  <2>4. Queued(p) => Queued(p)'
    BY <1>2, <2>1, <2>2, <2>3 DEF Queued, FirstSeen
  <2>5. Overflowed => Overflowed'
    BY <2>1, <2>2, <2>3 DEF Overflowed
  <2> QED
    BY <1>0, <1>1, <1>2, <2>1, <2>4, <2>5 DEF Newer, Lost
<1>4. CASE TakeEvent
  <2>1. /\ cb = "idle" /\ kernel # <<>> /\ cbEvent' = Head(kernel) /\ kernel' = Tail(kernel)
        /\ cb' = IF Head(kernel) = Rescan THEN "storeRescan" ELSE "send"
        /\ UNCHANGED <<queue, flag, dropped>>
    BY <1>4 DEF TakeEvent, history
  <2>2. ToSet(kernel) = {Head(kernel)} \cup ToSet(kernel')
    BY <1>3, <2>1, TailSet
  <2>3. Queued(p) => Queued(p)'
    BY <1>0, <1>2, <2>1, <2>2 DEF Queued, FirstSeen
  <2>4. Overflowed => Overflowed'
    BY <2>1, <2>2 DEF Overflowed
  <2> QED
    BY <1>0, <1>1, <1>2, <2>1, <2>3, <2>4 DEF Newer, Lost
<1>5. CASE StoreFlag \/ NotifyOne
  <2>1. UNCHANGED <<kernel, queue, dropped, cbEvent>> /\ cb # "send"
    BY <1>5 DEF StoreFlag, NotifyOne, CbOnly
  <2>2. Overflowed => Overflowed'
    BY <1>5, <2>1 DEF Overflowed, StoreFlag, NotifyOne
  <2>3. Queued(p) => Queued(p)'
    BY <1>2, <2>1 DEF Queued, FirstSeen
  <2> QED
    BY <1>0, <1>1, <1>2, <2>1, <2>2, <2>3 DEF Newer, Lost
<1>6. CASE TrySend /\ Len(queue) < WATCH_CHANNEL_CAP
  <2>1. /\ cb = "send" /\ queue' = Append(queue, cbEvent) /\ cb' = "idle"
        /\ UNCHANGED <<kernel, dropped, flag>>
    BY <1>6 DEF TrySend, CbOnly
  <2>2. ToSet(queue') = ToSet(queue) \cup {cbEvent}
    BY <1>3, <2>1, AppendSet
  <2>3. Queued(p) => Queued(p)'
    BY <1>2, <2>1, <2>2 DEF Queued, FirstSeen
  <2>4. Overflowed => Overflowed'
    BY <2>1 DEF Overflowed
  <2> QED
    BY <1>0, <1>1, <1>2, <2>1, <2>3, <2>4 DEF Newer, Lost
<1>7. CASE TrySend /\ ~(Len(queue) < WATCH_CHANNEL_CAP)
  <2>1. /\ cb = "send" /\ cb' = "store" /\ UNCHANGED <<kernel, queue, flag>>
        /\ dropped' = IF cbEvent = Rescan THEN dropped ELSE dropped \cup Pairs(cbEvent)
    BY <1>7 DEF TrySend, CbOnly
  <2>2. Overflowed'
    BY <2>1 DEF Overflowed
  <2>3. Queued(p) /\ cbEvent # p => Queued(p)'
    BY <1>2, <2>1 DEF Queued, FirstSeen
  <2>4. cbEvent = p => x \in dropped'
    BY <1>0, <2>1
  <2>5. x \in dropped => x \in dropped'
    BY <2>1
  <2> QED
    BY <1>0, <2>2, <2>3, <2>4, <2>5 DEF Newer, Lost
<1> QED
  BY <1>4, <1>5, <1>6, <1>7, <1>8 DEF Callback

\* An edit is known about, unless nobody watches; what is known of other files stays.
LEMMA EditNews ==
  ASSUME Ordered, Watching, NEW e \in Paths, NEW c \in Contents \cup {Gone}, Edit(e, c),
         NEW p \in Paths, NEW x \in Pairs(p), p = e \/ Newer(x)
  PROVE  Newer(x)'
<1>0. x[2] = p
  BY PairsOf
<1>1. /\ UNCHANGED <<cb, cbEvent, queue, flag, loop>>
      /\ host' = [host EXCEPT ![e] = c] /\ Raise(e)
  BY DEF Edit
<1>2. UNCHANGED <<pc, batch, turn>>
  BY <1>1 DEF loop
<1>3. /\ ToSet(kernel) \subseteq ToSet(kernel') /\ dropped \subseteq dropped'
      /\ \/ e \in ToSet(kernel')
         \/ dropped' = dropped \cup Pairs(e) /\ Rescan \in ToSet(kernel')
  BY <1>1, RaiseKeeps DEF Ordered, KernelGrows
<1>4. CASE p = e
  BY <1>0, <1>3, <1>4 DEF Newer, Queued, Lost, Overflowed
<1>5. CASE p # e /\ Newer(x)
  <2>1. host'[p] = host[p]
    BY <1>1, <1>5, TypesParts DEF Ordered, HostOK
  <2>2. Recovering(x) => Recovering(x)'
    BY <1>0, <1>1, <2>1, LoopStays
  <2>3. Queued(p) => Queued(p)'
    BY <1>1, <1>2, <1>3 DEF Queued, FirstSeen
  <2>4. Overflowed => Overflowed'
    BY <1>1, <1>3 DEF Overflowed
  <2> QED
    BY <1>0, <1>3, <1>5, <2>1, <2>2, <2>3, <2>4 DEF Newer, Lost
<1> QED
  BY <1>4, <1>5

\* A step of them leaves what was read, and the copies, fresh or known not to be.
LEMMA NewsKeep ==
  ASSUME Ordered, Ordered', ReadFresh, OwedAccounted, Watching, UNCHANGED <<loop, copy>>,
         presumed \subseteq presumed', rebuilt \subseteq rebuilt',
         \A p \in Paths : \A x \in Pairs(p) : Newer(x) \/ host'[p] # host[p] => Newer(x)',
         \A x \in owed' : x \in owed \/ (x[2] \in Paths /\ x \in Pairs(x[2]) /\ host'[x[2]] # host[x[2]])
  PROVE  ReadFresh' /\ OwedAccounted'
<1>1. UNCHANGED <<pc, batch, turn, done, work, stage, sent, failed>>
  BY DEF loop
<1>2. Job' = Job /\ Path' = Path /\ Watching'
  BY <1>1 DEF Job, Place, Path, Watching
<1>3. ASSUME NEW r \in SyncRules, NEW q \in Paths, <<r, q>> \in Pairs(q)
      PROVE  FreshAt(r, q)'
  <2>1. FreshAt(r, q)
    BY <1>3, FreshParts DEF FreshAll
  <2>2. Newer(<<r, q>>) \/ host'[q] # host[q] => Newer(<<r, q>>)'
    BY <1>3
  <2> QED
    BY <1>1, <1>2, <2>1, <2>2 DEF FreshAt, RulesIn
<1>4. ReadFresh'
  BY <1>2, <1>3, FreshNext DEF FreshAll
<1>5. ASSUME NEW x \in owed' PROVE (x \in Pairs(x[2]) /\ Accounted(x))'
  <2>1. x[2] \in Paths /\ x \in Pairs(x[2])
    <3>1. CASE x \in owed
      <4>1. x \in Pairs(x[2])
        BY <3>1 DEF OwedAccounted
      <4> QED
        BY <4>1, PairsOf
    <3> QED
      BY <1>5, <3>1
  <2>2. Newer(x) \/ host'[x[2]] # host[x[2]] => Newer(x)'
    BY <2>1
  <2>3. CASE host'[x[2]] # host[x[2]]
    BY <2>1, <2>2, <2>3 DEF Accounted, Pairs
  <2>4. CASE host'[x[2]] = host[x[2]]
    <3>1. Dispatching(x) => Dispatching(x)'
      BY <2>4, LoopStays
    <3>2. Accounted(x)
      BY <1>5, <2>4 DEF OwedAccounted
    <3> QED
      BY <2>1, <2>2, <2>4, <3>1, <3>2 DEF Accounted, Pairs
  <2> QED
    BY <2>3, <2>4
<1> QED
  BY <1>2, <1>4, <1>5 DEF OwedAccounted

LEMMA CallbackAccounted ==
  ASSUME IInv, Callback
  PROVE  ReadFresh' /\ OwedAccounted'
<1>1. UNCHANGED <<host, loop, copy, presumed, rebuilt, owed>> /\ Ordered /\ Ordered'
  BY CallbackOrdered DEF Callback, Discard, TakeEvent, StoreFlag, NotifyOne, TrySend, CbOnly, there, history,
                         IInv, Ordered
<1>2. CASE Watching
  <2>1. \A p \in Paths : \A x \in Pairs(p) : Newer(x) \/ host'[p] # host[p] => Newer(x)'
    BY <1>1, CallbackNews
  <2> QED
    BY <1>1, <1>2, <2>1, NewsKeep DEF IInv
<1>3. CASE ~Watching
  <2>1. ~Watching'
    BY <1>1, <1>3 DEF Watching, loop
  <2> QED
    BY <2>1 DEF ReadFresh, OwedAccounted
<1> QED
  BY <1>2, <1>3

LEMMA EditAccounted ==
  ASSUME IInv, NEW e \in Paths, NEW c \in Contents \cup {Gone}, Edit(e, c)
  PROVE  ReadFresh' /\ OwedAccounted'
<1>1. /\ UNCHANGED <<loop, copy, presumed, rebuilt>> /\ Ordered /\ Ordered'
      /\ host' = [host EXCEPT ![e] = c] /\ host[e] # c
      /\ owed' = IF Watching THEN owed \cup Pairs(e) ELSE owed
  BY EditOrdered DEF Edit, there, IInv, Ordered
<1>2. CASE Watching
  <2>0. host \in [Paths -> Contents \cup {Gone}]
    BY <1>1, TypesParts DEF Ordered, HostOK
  <2>1. \A p \in Paths : host'[p] # host[p] => p = e
    BY <1>1, <2>0
  <2>2. \A p \in Paths : \A x \in Pairs(p) : Newer(x) \/ host'[p] # host[p] => Newer(x)'
    BY <1>1, <1>2, <2>1, EditNews
  <2>3. host'[e] # host[e]
    BY <1>1, <2>0
  <2>4. \A x \in owed' : x \in owed \/ (x[2] \in Paths /\ x \in Pairs(x[2]) /\ host'[x[2]] # host[x[2]])
    <3>1. \A x \in Pairs(e) : x[2] = e
      BY PairsOf
    <3> QED
      BY <1>1, <1>2, <2>3, <3>1
  <2> QED
    BY <1>1, <1>2, <2>2, <2>4, NewsKeep DEF IInv
<1>3. CASE ~Watching
  <2>1. ~Watching'
    BY <1>1, <1>3 DEF Watching, loop
  <2> QED
    BY <2>1 DEF ReadFresh, OwedAccounted
<1> QED
  BY <1>2, <1>3

(***************************************************************************)
(* The loop between the jobs.                                              *)
(***************************************************************************)

\* Nothing is at hand, before and after: what was known must be known, unless
\* it is no longer owed.
LEMMA QuietAccounted ==
  ASSUME IInv, Watching, work = {}, UNCHANGED <<host, copy, presumed, rebuilt>>, stage' = "none",
         owed' \subseteq owed,
         \A p \in Paths : \A x \in Pairs(p) : x \in owed' /\ Newer(x) => Newer(x)' \/ Dispatching(x)'
  PROVE  ReadFresh' /\ OwedAccounted'
<1>1. ASSUME NEW x \in owed' PROVE (x \in Pairs(x[2]) /\ Accounted(x))'
  <2>1. x \in Pairs(x[2]) /\ Accounted(x)
    BY <1>1 DEF IInv, OwedAccounted
  <2>2. x[2] \in Paths
    BY <2>1, PairsOf
  <2>3. ~Dispatching(x)
    BY DEF Dispatching, Underway, Later, AtHand
  <2>4. Newer(x) => Newer(x)' \/ Dispatching(x)'
    BY <1>1, <2>1, <2>2
  <2> QED
    BY <2>1, <2>3, <2>4 DEF Accounted, Pairs
<1> QED
  BY <1>1, FreshQuiet DEF OwedAccounted

\* The watcher is set up, or there is nothing to watch, or no longer.
LEMMA SetupAccounted ==
  ASSUME IInv, Refused \/ Register \/ Interrupt
  PROVE  ReadFresh' /\ OwedAccounted'
<1>1. CASE Refused \/ Interrupt
  BY <1>1 DEF Refused, Interrupt, Watching, ReadFresh, OwedAccounted
<1>2. CASE Register
  <2>1. stage' = "none" /\ owed' = {}
    BY <1>2 DEF Register, LoopOnly, history, IInv, JobsInOrder
  <2> QED
    BY <2>1, FreshQuiet DEF OwedAccounted
<1> QED
  BY <1>1, <1>2

\* A rule that a resync does not go through is one it will name.
LEMMA Covered ==
  ASSUME NEW p, NEW x \in Pairs(p)
  PROVE  (x[1] \in rules_not_recovered)' \/ \E i \in AllInitial : Order[i] = x[1]
<1>1. x[1] \in SyncRules /\ x[1] \in Rules
  BY PairsOf
<1>2. x[1] \in Initial \/ (x[1] \in rules_not_recovered)'
  BY <1>1 DEF rules_not_recovered
<1> QED
  BY <1>1, <1>2 DEF AllInitial, Rules

LEMMA RecoverAccounted ==
  ASSUME IInv, RecoverFromOverflow
  PROVE  ReadFresh' /\ OwedAccounted'
<1>0. Ordered /\ Ordered'
  BY RecoverOrdered DEF IInv, Ordered
<1>1. /\ pc \in {"recover", "again"} /\ work = {} /\ stage' = "none"
      /\ UNCHANGED <<host, kernel, cb, cbEvent, queue, copy, presumed, rebuilt, owed, dropped, turn, batch>>
      /\ pc' \in {"recover", "wait", "resync", "resyncAgain"}
      /\ flag => /\ pc' \in {"resync", "resyncAgain"} /\ work' = AllInitial
  BY DEF RecoverFromOverflow, LoopOnly, there, history, IInv, JobsInOrder
<1>2. ASSUME NEW p \in Paths, NEW x \in Pairs(p), Newer(x)
      PROVE  Newer(x)'
  <2>1. x[2] = p
    BY PairsOf
  <2>2. Queued(p) => Queued(p)'
    BY <1>1 DEF Queued
  <2>3. ~Recovering(x)
    BY <1>1 DEF Recovering, Resyncing
  <2>4. Overflowed /\ ~flag => Overflowed'
    BY <1>1 DEF Overflowed
  <2>5. ASSUME flag PROVE Recovering(x)'
    <3>1. Resyncing' /\ work' = AllInitial
      BY <1>1, <2>5 DEF Resyncing
    <3>2. (x[1] \in rules_not_recovered)' \/ \E i \in work' : Order[i] = x[1]
      BY <3>1, Covered
    <3>3. (\E i \in work : Order[i] = x[1])' => Underway(x)'
      BY <1>1 DEF Underway, Later, AtHand, Job
    <3> QED
      BY <3>1, <3>2, <3>3 DEF Recovering
  <2> QED
    BY <1>1, <1>2, <2>1, <2>2, <2>3, <2>4, <2>5 DEF Newer, Lost
<1> QED
  BY <1>1, <1>2, QuietAccounted DEF Watching

LEMMA SyncedAccounted ==
  ASSUME IInv, SyncedAll
  PROVE  ReadFresh' /\ OwedAccounted'
<1>1. /\ pc \in {"initial", "resync", "resyncAgain"} /\ work = {} /\ stage' = "none"
      /\ UNCHANGED <<host, kernel, cb, cbEvent, queue, flag, copy, presumed, rebuilt, turn, batch>>
      /\ owed' \subseteq owed
      /\ \A x \in owed' : /\ x \in dropped => x \in dropped'
                          /\ pc # "initial" /\ x \in dropped => x[1] \notin rules_not_recovered
  BY DEF SyncedAll, there, events
<1>2. ASSUME NEW p \in Paths, NEW x \in Pairs(p), x \in owed', Newer(x)
      PROVE  Newer(x)'
  <2>1. x[2] = p
    BY PairsOf
  <2>2. Queued(p) => Queued(p)'
    BY <1>1 DEF Queued
  <2>3. ~Underway(x)
    BY <1>1 DEF Underway, Later, AtHand
  <2>4. Recovering(x) => x \notin dropped
    BY <1>1, <1>2, <2>3 DEF Recovering, Resyncing
  <2>5. Overflowed => Overflowed'
    BY <1>1 DEF Overflowed
  <2> QED
    BY <1>1, <1>2, <2>1, <2>2, <2>4, <2>5 DEF Newer, Lost
<1> QED
  BY <1>1, <1>2, QuietAccounted DEF Watching

LEMMA ReceiveAccounted ==
  ASSUME IInv, Receive \/ Woken \/ Coalesce
  PROVE  ReadFresh' /\ OwedAccounted'
<1>1. /\ pc \in {"wait", "collect"} /\ work = {} /\ stage' = "none"
      /\ UNCHANGED <<host, kernel, cb, cbEvent, flag, copy, presumed, rebuilt, owed, dropped>>
  BY DEF Receive, Woken, Coalesce, LoopOnly, there, history, IInv, JobsInOrder
<1>2. /\ queue \in Seq(Events) /\ batch \in Seq(Paths) /\ Rescan \notin Paths
  BY TypesParts, BoundAssumption DEF EventsOK, LoopOK, IInv
<1>3. ASSUME NEW p \in Paths, Queued(p) PROVE Queued(p)'
  <2>1. CASE Receive
    <3>1. ToSet(queue) = {Head(queue)} \cup ToSet(queue')
      BY <1>2, <2>1, TailSet DEF Receive
    <3>2. Head(queue) = p => pc' = "collect" /\ p \in ToSet(batch')
      BY <1>2, <2>1 DEF Receive, ToSet
    <3> QED
      BY <1>1, <1>3, <2>1, <3>1, <3>2 DEF Queued, Receive
  <2>2. CASE Woken
    BY <1>1, <1>3, <2>2 DEF Queued, Woken
  <2>3. CASE Coalesce
    <3>1. ToSet(queue) = {Head(queue)} \cup ToSet(queue') /\ Head(queue) \in Events
      BY <1>2, <2>3, TailSet DEF Coalesce
    <3>2. ToSet(batch) \subseteq ToSet(batch') /\ (Head(queue) # Rescan => Head(queue) \in ToSet(batch'))
      <4>1. CASE Head(queue) = Rescan
        BY <2>3, <4>1 DEF Coalesce
      <4>2. CASE Head(queue) # Rescan
        <5>1. Head(queue) \in Paths /\ batch' = Append(batch, Head(queue))
          BY <2>3, <3>1, <4>2 DEF Coalesce, Events
        <5>2. ToSet(batch') = ToSet(batch) \cup {Head(queue)}
          BY <1>2, <5>1, AppendSet
        <5> QED
          BY <5>2
      <4> QED
        BY <4>1, <4>2
    <3> QED
      BY <1>1, <1>2, <1>3, <2>3, <3>1, <3>2 DEF Queued, Coalesce
  <2> QED
    BY <2>1, <2>2, <2>3
<1>4. ASSUME NEW p \in Paths, NEW x \in Pairs(p), Newer(x)
      PROVE  Newer(x)'
  <2>1. x[2] = p
    BY PairsOf
  <2>2. ~Recovering(x)
    BY <1>1 DEF Recovering, Resyncing
  <2>3. Overflowed => Overflowed'
    BY <1>1 DEF Overflowed
  <2> QED
    BY <1>1, <1>3, <1>4, <2>1, <2>2, <2>3 DEF Newer, Lost
<1> QED
  BY <1>1, <1>4, QuietAccounted DEF Watching

LEMMA CloseAccounted ==
  ASSUME IInv, CloseBatch
  PROVE  ReadFresh' /\ OwedAccounted'
<1>1. /\ pc = "collect" /\ pc' = "dispatch" /\ work = {} /\ stage' = "none" /\ turn' = 0
      /\ UNCHANGED <<host, kernel, cb, cbEvent, queue, flag, copy, presumed, rebuilt, owed, dropped, batch>>
  BY DEF CloseBatch, LoopOnly, there, history, IInv, JobsInOrder
<1>2. ASSUME NEW p \in ToSet(batch)
      PROVE  \E i \in DOMAIN batch : i > 0 /\ batch[i] = p /\ FirstSeen(i)
  <2> DEFINE T == {i \in DOMAIN batch : batch[i] = p}
  <2>1. batch \in Seq(Paths)
    BY TypesParts DEF LoopOK, IInv
  <2>2. T \subseteq Nat /\ T # {}
    BY <1>2, <2>1 DEF ToSet
  <2>3. PICK i \in T : \A j \in T : i <= j
    BY <2>2, Smallest
  <2>4. i \in DOMAIN batch /\ batch[i] = p /\ DOMAIN batch = 1 .. Len(batch) /\ Len(batch) \in Nat
    BY <2>1, <2>3
  <2>5. ASSUME NEW j \in 1 .. i - 1 PROVE batch[j] # batch[i]
    <3>1. j \in DOMAIN batch /\ ~(i <= j)
      BY <2>4, <2>5
    <3> QED
      BY <2>3, <2>4, <3>1
  <2> QED
    BY <2>4, <2>5 DEF FirstSeen
<1>3. ASSUME NEW p, Queued(p) PROVE Queued(p)'
  <2>1. p \in ToSet(batch) => (pc = "dispatch" /\ \E i \in DOMAIN batch : i > turn /\ batch[i] = p /\ FirstSeen(i))'
    BY <1>1, <1>2 DEF FirstSeen
  <2> QED
    BY <1>1, <1>3, <2>1 DEF Queued
<1>4. ASSUME NEW p \in Paths, NEW x \in Pairs(p), Newer(x)
      PROVE  Newer(x)'
  <2>1. x[2] = p
    BY PairsOf
  <2>2. ~Recovering(x)
    BY <1>1 DEF Recovering, Resyncing
  <2>3. Overflowed => Overflowed'
    BY <1>1 DEF Overflowed
  <2> QED
    BY <1>1, <1>3, <1>4, <2>1, <2>2, <2>3 DEF Newer, Lost
<1> QED
  BY <1>1, <1>4, QuietAccounted DEF Watching

\* A path whose turn comes is handed to the rules that are for it.
LEMMA TurnAccounted ==
  ASSUME IInv, NextPath
  PROVE  ReadFresh' /\ OwedAccounted'
<1>1. /\ pc = "dispatch" /\ work = {} /\ stage' = "none"
      /\ UNCHANGED <<host, kernel, cb, cbEvent, queue, flag, copy, presumed, rebuilt, owed, dropped>>
  BY DEF NextPath, LoopOnly, there, history, IInv, JobsInOrder
<1>2. batch \in Seq(Paths) /\ turn \in 0 .. Len(batch) /\ Len(batch) \in Nat
  BY TypesParts DEF LoopOK, IInv
<1>3. ASSUME NEW p \in Paths, NEW x \in Pairs(p), Queued(p)
      PROVE  Queued(p)' \/ Dispatching(x)'
  <2>1. CASE p \in ToSet(kernel) \/ (cb = "send" /\ cbEvent = p) \/ p \in ToSet(queue)
    BY <1>1, <2>1 DEF Queued
  <2>2. ASSUME NEW i \in DOMAIN batch, i > turn, batch[i] = p, FirstSeen(i)
        PROVE  Queued(p)' \/ Dispatching(x)'
    <3>1. turn # Len(batch) /\ i \in Nat
      BY <1>2, <2>2
    <3>2. /\ UNCHANGED <<pc, batch>> /\ turn' = turn + 1
          /\ FirstSeen(turn + 1) => work' = matching_rules(batch[turn + 1])
      BY <3>1 DEF NextPath
    <3>3. CASE i # turn + 1
      <4>1. i > turn'
        BY <1>2, <2>2, <3>1, <3>2, <3>3
      <4> QED
        BY <1>1, <2>2, <3>2, <4>1 DEF Queued, FirstSeen
    <3>4. CASE i = turn + 1
      <4>1. /\ x = <<x[1], x[2]>> /\ x[2] = p /\ x[1] \in SyncRules /\ x[1] \in Rules
            /\ p \in Watches[x[1]] /\ p \notin Excluded[x[1]]
        BY PairsOf
      <4>2. PICK j \in DOMAIN Order : Order[j] = x[1]
        BY <4>1 DEF Rules
      <4>3. Matches(j, p) /\ ~Repeats(j, p)
        BY <4>1, <4>2 DEF Matches, Repeats, SyncRules
      <4>4. j \in work'
        BY <2>2, <3>2, <3>4, <4>3 DEF matching_rules
      <4>5. turn' # 0 /\ Path' = p
        BY <1>2, <2>2, <3>2, <3>4 DEF Path
      <4>6. Underway(x)'
        BY <1>1, <4>2, <4>4 DEF Underway, Later, AtHand, Job
      <4> QED
        BY <1>1, <3>2, <4>1, <4>5, <4>6 DEF Dispatching
    <3> QED
      BY <3>3, <3>4
  <2> QED
    BY <1>1, <1>3, <2>1, <2>2 DEF Queued
<1>4. ASSUME NEW p \in Paths, NEW x \in Pairs(p), Newer(x)
      PROVE  Newer(x)' \/ Dispatching(x)'
  <2>1. x[2] = p
    BY PairsOf
  <2>2. ~Recovering(x)
    BY <1>1 DEF Recovering, Resyncing
  <2>3. Overflowed => Overflowed'
    BY <1>1 DEF Overflowed
  <2> QED
    BY <1>1, <1>3, <1>4, <2>1, <2>2, <2>3 DEF Newer, Lost
<1> QED
  BY <1>1, <1>4, QuietAccounted DEF Watching

(***************************************************************************)
(* A job, as far as the files of its rule and those of the others go.      *)
(***************************************************************************)

\* A step of a job: what is on its way stays on its way.
Moving ==
  /\ work # {} /\ UNCHANGED <<host, cb, cbEvent, queue, flag, pc, batch, turn>>
  /\ ToSet(kernel) \subseteq ToSet(kernel') /\ failed \subseteq failed'
  /\ (work' = work /\ Job' = Job) \/ Over

LEMMA JobMoves ==
  ASSUME TypeOK, Moving, NEW x
  PROVE  /\ Queued(x[2]) => Queued(x[2])'
         /\ Overflowed => Overflowed'
         /\ Later(x) => Underway(x)'
         /\ x[1] \in rules_not_recovered => (x[1] \in rules_not_recovered)'
         /\ Resyncing' = Resyncing /\ Path' = Path
<1>1. Queued(x[2]) => Queued(x[2])'
  BY DEF Moving, Queued, FirstSeen
<1>2. Overflowed => Overflowed'
  BY DEF Moving, Overflowed
<1>3. Later(x) => Underway(x)'
  <2>1. CASE Over
    <3>1. work' = work \ {Place} /\ stage' = "none"
      BY <2>1 DEF Over
    <3>2. Later(x) => \E i \in work' : Order[i] = x[1]
      BY <3>1 DEF Later
    <3>3. (\E i \in work : Order[i] = x[1])' => Underway(x)'
      BY <3>1 DEF Underway, Later, AtHand, Job
    <3> QED
      BY <3>2, <3>3
  <2>2. CASE work' = work
    <3>1. Place' = Place
      BY <2>2 DEF Place
    <3> QED
      BY <2>2, <3>1 DEF Underway, Later
  <2> QED
    BY <2>1, <2>2 DEF Moving
<1>4. x[1] \in rules_not_recovered => (x[1] \in rules_not_recovered)'
  BY DEF Moving, rules_not_recovered
<1>5. Resyncing' = Resyncing /\ Path' = Path
  BY DEF Moving, Resyncing, Path
<1> QED
  BY <1>1, <1>2, <1>3, <1>4, <1>5

\* The job has something of x to see to: its events were dropped and it is there.
Due(x) == AtHand(x) /\ Resyncing /\ host[x[2]] # Gone

LEMMA NewerMoves ==
  ASSUME TypeOK, Moving, NEW x, Newer(x), x \in dropped => x \in dropped', Due(x) => Recovering(x)'
  PROVE  Newer(x)'
<1>1. /\ Queued(x[2]) => Queued(x[2])'
      /\ Overflowed => Overflowed'
      /\ Later(x) => Underway(x)'
      /\ x[1] \in rules_not_recovered => (x[1] \in rules_not_recovered)'
      /\ Resyncing' = Resyncing
  BY JobMoves
<1>2. host' = host
  BY DEF Moving
<1>3. Recovering(x) => Recovering(x)' \/ host[x[2]] = Gone
  BY <1>1 DEF Recovering, Underway, Due
<1> QED
  BY <1>1, <1>2, <1>3 DEF Newer, Lost

LEMMA DispatchMoves ==
  ASSUME TypeOK, Moving, NEW x, Dispatching(x), AtHand(x) => AtHand(x)'
  PROVE  Dispatching(x)'
<1>1. (Later(x) => Underway(x)') /\ Path' = Path
  BY JobMoves
<1>2. Underway(x)'
  BY <1>1 DEF Dispatching, Underway
<1> QED
  BY <1>1, <1>2 DEF Dispatching, Moving

\* Whatever the job does that is not about x.
LEMMA AccountMoves ==
  ASSUME TypeOK, Moving, NEW x, x \in Pairs(x[2]), Accounted(x),
         copy'[x[1]][x[2]] = copy[x[1]][x[2]], x \in presumed => x \in presumed', x \in rebuilt => x \in rebuilt',
         x \in dropped => x \in dropped', Due(x) => Recovering(x)',
         Dispatching(x) /\ AtHand(x) => AtHand(x)'
  PROVE  (x \in Pairs(x[2]) /\ Accounted(x))'
<1>1. Newer(x) => Newer(x)'
  BY NewerMoves
<1>2. Dispatching(x) => Dispatching(x)'
  BY DispatchMoves
<1>3. host' = host
  BY DEF Moving
<1> QED
  BY <1>1, <1>2, <1>3 DEF Accounted, Pairs

\* The job fails: x is recovered as one the resync could not cover, or not owed.
LEMMA FailAccounts ==
  ASSUME IInv, Moving, Fail, NEW x \in owed', x \in Pairs(x[2]), Accounted(x),
         copy'[x[1]][x[2]] = copy[x[1]][x[2]], x \in presumed => x \in presumed', x \in rebuilt => x \in rebuilt',
         x \in dropped => x \in dropped'
  PROVE  (x \in Pairs(x[2]) /\ Accounted(x))'
<1>1. Due(x) => Recovering(x)'
  <2> SUFFICES ASSUME Due(x) PROVE Recovering(x)'
    OBVIOUS
  <2>1. Resyncing /\ x[1] = Job
    BY DEF Due, AtHand
  <2>2. Resyncing' /\ Job \in failed'
    BY <2>1, JobMoves DEF Fail, Resyncing, IInv
  <2>3. x[1] \in Rules /\ x[1] \in failed'
    BY <2>1, <2>2, PairsOf
  <2> QED
    BY <2>2, <2>3 DEF Recovering, rules_not_recovered
<1>2. ~(Dispatching(x) /\ AtHand(x))
  <2> SUFFICES ASSUME Dispatching(x), AtHand(x) PROVE FALSE
    OBVIOUS
  <2>1. x[1] = Job /\ x[2] = Path /\ ~Whole /\ x = <<x[1], x[2]>>
    BY PairsOf DEF Dispatching, AtHand, Whole
  <2>2. x \notin owed'
    BY <2>1 DEF Fail
  <2> QED
    BY <2>2
<1> QED
  BY <1>1, <1>2, AccountMoves DEF IInv

\* What was read of x is what the host has, or there is news of x: either is
\* left when the archive, or the image, has landed and no more is asked of it.
LEMMA LandAccounts ==
  ASSUME TypeOK, Moving, NEW x, x \in Pairs(x[2]), sent[x[2]] = host[x[2]] \/ Newer(x),
         stage \in {"put", "verify", "recreate"},
         copy'[x[1]][x[2]] = sent[x[2]],
         sent[x[2]] # host[x[2]] /\ x \in dropped => x \in dropped'
  PROVE  (x \in Pairs(x[2]) /\ Accounted(x))'
<1>1. host' = host
  BY DEF Moving
<1>2. ASSUME sent[x[2]] # host[x[2]] PROVE Newer(x)'
  <2>1. ~Due(x)
    BY <1>2 DEF Due, AtHand
  <2> QED
    BY <1>2, <2>1, NewerMoves
<1> QED
  BY <1>1, <1>2 DEF Accounted, Pairs

\* The step as a whole, of a job that is over or goes on with nothing read.
LEMMA JobAccounted ==
  ASSUME IInv, Watching, UNCHANGED pc, \A x \in owed' : (x \in Pairs(x[2]) /\ Accounted(x))'
  PROVE  OwedAccounted'
  BY DEF OwedAccounted

\* A job is only there while the session watches.
LEMMA JobWatches ==
  ASSUME IInv, work # {}
  PROVE  /\ Watching /\ Ordered /\ pc \in JobPcs
         /\ \A x \in owed : x \in Pairs(x[2]) /\ Accounted(x)
  BY DEF IInv, Ordered, JobsInOrder, JobPcs, Watching, OwedAccounted

LEMMA StartAccounted ==
  ASSUME IInv, Start
  PROVE  ReadFresh' /\ OwedAccounted'
<1>1. /\ work # {} /\ stage = "none" /\ Job \in SyncRules /\ UNCHANGED <<pc, batch, turn>>
      /\ UNCHANGED <<kernel, copy, dropped, presumed, rebuilt, host, cb, cbEvent, queue, flag>>
      /\ owed' \subseteq owed
  BY FailOwes DEF Start, At, there, Outside, BeginUpload, Fail, Done, Step
<1>2. Watching /\ Ordered /\ Ordered' /\ \A x \in owed : x \in Pairs(x[2]) /\ Accounted(x)
  BY <1>1, JobWatches, StartOrdered
<1>3. CASE Fail
  <2>1. Moving /\ stage' = "none"
    BY <1>1, <1>3 DEF Moving, Fail, Over
  <2>2. \A x \in owed' : (x \in Pairs(x[2]) /\ Accounted(x))'
    BY <1>1, <1>2, <1>3, <2>1, FailAccounts
  <2> QED
    BY <1>1, <1>2, <2>1, <2>2, FreshQuiet, JobAccounted
<1>4. CASE Done /\ pc = "dispatch" /\ Path \in Skipped[Job]
  <2>1. Moving /\ stage' \in {"none", "act"}
    <3>1. CASE Over
      BY <1>1, <1>4, <3>1 DEF Moving, Done, Over
    <3>2. CASE stage' = "act" /\ work' = work
      BY <1>1, <1>4, <3>2 DEF Moving, Done, Job, Place
    <3> QED
      BY <1>4, <3>1, <3>2 DEF Done
  <2>2. ASSUME NEW x \in owed' PROVE (x \in Pairs(x[2]) /\ Accounted(x))'
    <3>1. x \in Pairs(x[2]) /\ Accounted(x)
      BY <1>1, <1>2
    <3>2. x[2] \notin Skipped[x[1]]
      BY <3>1, PairsOf
    <3>3. ~(Dispatching(x) /\ AtHand(x))
      BY <1>4, <3>2 DEF Dispatching, AtHand
    <3>4. ~Due(x)
      BY <1>4 DEF Due, Resyncing
    <3> QED
      BY <1>1, <1>2, <2>1, <3>1, <3>3, <3>4, AccountMoves DEF Ordered
  <2> QED
    BY <1>1, <1>2, <2>1, <2>2, FreshQuiet, JobAccounted
<1>5. CASE (Step("pack") \/ Step("mkdir")) /\ UNCHANGED sent
  <2>1. Moving /\ work' = work /\ stage' \in {"pack", "mkdir"} /\ Job' = Job
    BY <1>1, <1>5 DEF Moving, Step, Job, Place
  <2>2. ASSUME NEW x \in owed' PROVE (x \in Pairs(x[2]) /\ Accounted(x))'
    <3>1. x \in Pairs(x[2]) /\ Accounted(x)
      BY <1>1, <1>2
    <3>2. AtHand(x) => AtHand(x)'
      BY <2>1 DEF AtHand
    <3>3. Due(x) => Recovering(x)'
      BY <1>1, <3>2 DEF Due, Recovering, Resyncing, Underway
    <3> QED
      BY <1>1, <1>2, <2>1, <3>1, <3>2, <3>3, AccountMoves DEF Ordered
  <2> QED
    BY <1>1, <1>2, <2>1, <2>2, FreshQuiet, JobAccounted
<1>6. CASE Step("remove") /\ UNCHANGED sent /\ pc = "dispatch" /\ host[Path] = Gone
  <2>1. Moving /\ work' = work /\ stage' = "remove" /\ Job' = Job /\ Path' = Path
    BY <1>1, <1>6 DEF Moving, Step, Job, Place, Path
  <2>2. ASSUME NEW x \in owed' PROVE (x \in Pairs(x[2]) /\ Accounted(x))'
    <3>1. x \in Pairs(x[2]) /\ Accounted(x)
      BY <1>1, <1>2
    <3>2. Dispatching(x) /\ AtHand(x) => AtHand(x)'
      BY <1>1, <1>6, <2>1 DEF AtHand, Dispatching
    <3>3. ~Due(x)
      BY <1>6 DEF Due, Resyncing
    <3> QED
      BY <1>1, <1>2, <2>1, <3>1, <3>2, <3>3, AccountMoves DEF Ordered
  <2>3. ReadFresh'
    BY <1>1, <1>6, <2>1 DEF ReadFresh
  <2> QED
    BY <1>1, <1>2, <2>2, <2>3, JobAccounted
<1> QED
  <2>1. Path \in Shared[Job] /\ pc = "dispatch" => Path \in Skipped[Job]
    <3> SUFFICES ASSUME Path \in Shared[Job], pc = "dispatch" PROVE Path \in Skipped[Job]
      OBVIOUS
    <3>1. Job \in Rules /\ Path \in Paths
      BY <1>1, <1>2, JobOf
    <3> QED
      BY <3>1 DEF Shared, Skipped, Skip
  <2>2. CASE BeginUpload
    BY <1>4, <1>5, <2>2 DEF BeginUpload, NothingToCopy, Whole
  <2>3. CASE ~Present /\ IF Path \in Shared[Job] THEN Done ELSE (Step("remove") /\ UNCHANGED sent)
    BY <1>4, <1>6, <2>1, <2>3 DEF Present, Whole
  <2> QED
    BY <1>3, <2>2, <2>3 DEF Start

LEMMA MkdirAccounted ==
  ASSUME IInv, Mkdir
  PROVE  ReadFresh' /\ OwedAccounted'
<1>1. /\ work # {} /\ stage = "mkdir" /\ stage' = "pack" /\ UNCHANGED <<pc, batch, turn, work, failed, sent>>
      /\ UNCHANGED <<kernel, copy, owed, dropped, presumed, rebuilt, host, cb, cbEvent, queue, flag>>
  BY DEF Mkdir, At, Outside, Step, history
<1>2. Watching /\ Ordered /\ \A x \in owed : x \in Pairs(x[2]) /\ Accounted(x)
  BY <1>1, JobWatches
<1>3. Moving /\ Job' = Job
  BY <1>1 DEF Moving, Job, Place
<1>4. ASSUME NEW x \in owed' PROVE (x \in Pairs(x[2]) /\ Accounted(x))'
  <2>1. x \in Pairs(x[2]) /\ Accounted(x)
    BY <1>1, <1>2
  <2>2. AtHand(x) => AtHand(x)'
    BY <1>1, <1>3 DEF AtHand
  <2>3. Due(x) => Recovering(x)'
    BY <1>1, <2>2 DEF Due, Recovering, Resyncing, Underway
  <2> QED
    BY <1>1, <1>2, <1>3, <2>1, <2>2, <2>3, AccountMoves DEF Ordered
<1> QED
  BY <1>1, <1>2, <1>4, FreshQuiet, JobAccounted

\* The archive holds what is there when it is packed, all of the rule's files
\* or the one there is an event of.
LEMMA PackAccounted ==
  ASSUME IInv, Pack
  PROVE  ReadFresh' /\ OwedAccounted'
<1>1. /\ work # {} /\ stage = "pack" /\ Job \in SyncRules /\ UNCHANGED <<pc, batch, turn>>
      /\ UNCHANGED <<copy, presumed, rebuilt, host, cb, cbEvent, queue, flag>>
  BY DEF Pack, At, there, Outside, Fail, Step, IInv, JobsInOrder
<1>2. Watching /\ Ordered /\ Ordered' /\ \A x \in owed : x \in Pairs(x[2]) /\ Accounted(x)
  BY <1>1, JobWatches, PackOrdered
<1>3. CASE Fail /\ UNCHANGED <<kernel, dropped>>
  <2>1. Moving /\ stage' = "none" /\ owed' \subseteq owed
    BY <1>1, <1>3, FailOwes DEF Moving, Fail, Over
  <2>2. \A x \in owed' : (x \in Pairs(x[2]) /\ Accounted(x))'
    BY <1>1, <1>2, <1>3, <2>1, FailAccounts
  <2> QED
    BY <1>1, <1>2, <2>1, <2>2, FreshQuiet, JobAccounted
<1>4. ASSUME NEW files, files = {p \in Files : host[p] # Gone},
             IF Whole THEN TRUE ELSE files # {},
             sent' = [p \in files |-> host[p]],
             Opens(Whole /\ Job \in Large),
             Step("put") /\ UNCHANGED owed
      PROVE  ReadFresh' /\ OwedAccounted'
  <2>1. files \subseteq Paths
    BY <1>1, <1>2, <1>4, JobOf
  <2>2. ToSet(kernel) \subseteq ToSet(kernel') /\ dropped' = dropped
    BY <1>2, <1>4, OpensKeeps DEF Ordered, KernelGrows
  <2>3. Moving /\ work' = work /\ stage' = "put" /\ Job' = Job
    BY <1>1, <1>4, <2>2 DEF Moving, Step, Job, Place
  <2>4. ASSUME NEW x \in owed' PROVE (x \in Pairs(x[2]) /\ Accounted(x))'
    <3>1. x \in Pairs(x[2]) /\ Accounted(x)
      BY <1>2, <1>4, <2>4
    <3>2. AtHand(x) /\ x[2] \in files => AtHand(x)'
      BY <1>1, <1>4, <2>3 DEF AtHand
    <3>3. Due(x) => x[2] \in files
      <4> SUFFICES ASSUME Due(x) PROVE x[2] \in files
        OBVIOUS
      <4>1. Whole /\ x[1] = Job /\ host[x[2]] # Gone
        BY DEF Due, Resyncing, AtHand, Whole
      <4>2. x[2] \in Watches[Job] /\ x[2] \notin Skipped[Job]
        BY <3>1, <4>1, PairsOf
      <4> QED
        BY <1>4, <4>1, <4>2 DEF Files
    <3>4. Dispatching(x) /\ AtHand(x) => x[2] \in files
      BY <1>4 DEF Dispatching, Files, Whole
    <3>5. Due(x) => Recovering(x)'
      BY <1>1, <3>2, <3>3 DEF Due, Recovering, Resyncing, Underway
    <3> QED
      BY <1>1, <1>2, <1>4, <2>2, <2>3, <3>1, <3>2, <3>4, <3>5, AccountMoves DEF Ordered
  <2>5. ReadFresh'
    BY <1>1, <1>4, <2>3 DEF ReadFresh
  <2> QED
    BY <1>1, <1>2, <2>4, <2>5, JobAccounted
<1> QED
  BY <1>3, <1>4 DEF Pack

LEMMA PutAccounted ==
  ASSUME IInv, Put
  PROVE  ReadFresh' /\ OwedAccounted'
<1>1. /\ work # {} /\ stage = "put" /\ Job \in SyncRules /\ UNCHANGED <<pc, batch, turn>>
      /\ UNCHANGED <<host, cb, cbEvent, queue, flag>>
      /\ \A p \in DOMAIN sent : p \in Paths /\ <<Job, p>> \in Pairs(p)
  BY TypesParts DEF Put, At, Outside, Fail, Step, Done, IInv, JobsInOrder, LoopOK
<1>2. Watching /\ Ordered /\ Ordered' /\ \A x \in owed : x \in Pairs(x[2]) /\ Accounted(x)
  BY <1>1, JobWatches, PutOrdered
<1>3. PICK ps \in Extracted :
       /\ Land(ps) /\ WriteBack(ps)
       /\ \/ /\ ps = DOMAIN sent /\ Container[Job] \in up /\ dir[Job]
             /\ Done /\ Promise(ps)
          \/ Fail
          \/ Step("verify") /\ UNCHANGED <<owed, sent>>
  BY DEF Put
<1>4. ps \in SUBSET DOMAIN sent
  BY <1>3 DEF Extracted
<1>5. ToSet(kernel) \subseteq ToSet(kernel')
  <2>1. CASE ps \cap Shared[Job] = {}
    BY <1>3, <2>1 DEF WriteBack
  <2>2. CASE ps \cap Shared[Job] # {}
    <3> DEFINE q == CHOOSE p \in ps \cap Shared[Job] : TRUE
    <3>1. q \in Paths
      BY <1>1, <1>4, <2>2
    <3>2. Queue(q) /\ q \in KernelEvents
      BY <1>3, <2>2, <3>1 DEF WriteBack, KernelEvents, Events
    <3> HIDE DEF q
    <3> QED
      BY <1>2, <3>2, QueueKeeps DEF Ordered, KernelGrows
  <2> QED
    BY <2>1, <2>2
<1>6. Moving
  <2>1. CASE Over
    BY <1>1, <1>3, <1>5, <2>1 DEF Moving, Done, Fail, Step
  <2>2. CASE ~Over
    BY <1>1, <1>3, <1>5, <2>2 DEF Moving, Done, Fail, Step, Job, Place
  <2> QED
    BY <2>1, <2>2
\* What happens to the copies.
<1>7. ASSUME NEW x, x \in Pairs(x[2])
      PROVE  /\ x[1] = Job /\ x[2] \in ps => copy'[x[1]][x[2]] = sent[x[2]]
             /\ x[1] # Job \/ x[2] \notin ps =>
                  /\ copy'[x[1]][x[2]] = copy[x[1]][x[2]]
                  /\ x \in presumed => x \in presumed'
                  /\ x \in rebuilt => x \in rebuilt'
                  /\ x \in dropped => x \in dropped'
             /\ x[1] = Job /\ x[2] \in ps /\ sent[x[2]] # host[x[2]] /\ x \in dropped => x \in dropped'
  <2>1. x[1] \in SyncRules /\ x[2] \in Paths /\ x = <<x[1], x[2]>>
    BY <1>7, PairsOf
  <2> DEFINE new == [p \in Paths |-> IF p \in ps THEN sent[p] ELSE copy[Job][p]]
  <2>2. copy \in [SyncRules -> [Paths -> Contents \cup {Gone}]]
    BY <1>2, TypesParts DEF Ordered, CopiesOK
  <2>3. copy' = [copy EXCEPT ![Job] = new]
    BY <1>1, <1>3, <2>2 DEF Land
  <2>4. new[x[2]] = IF x[2] \in ps THEN sent[x[2]] ELSE copy[Job][x[2]]
    BY <2>1
  <2> HIDE DEF new
  <2>5. /\ x[1] = Job /\ x[2] \in ps => copy'[x[1]][x[2]] = sent[x[2]]
        /\ x[1] # Job \/ x[2] \notin ps => copy'[x[1]][x[2]] = copy[x[1]][x[2]]
    BY <2>1, <2>2, <2>3, <2>4
  <2>6. /\ x[1] # Job \/ x[2] \notin ps => (x \in presumed => x \in presumed')
        /\ x[1] # Job \/ x[2] \notin ps => (x \in rebuilt => x \in rebuilt')
        /\ x[1] # Job \/ x[2] \notin ps \/ sent[x[2]] # host[x[2]] => (x \in dropped => x \in dropped')
    BY <1>3, <2>1 DEF Land, Current
  <2> QED
    BY <2>5, <2>6
\* The files that were extracted.
<1>8. ASSUME NEW x, x \in Pairs(x[2]), x[1] = Job, x[2] \in ps
      PROVE  (x \in Pairs(x[2]) /\ Accounted(x))'
  <2>1. x = <<Job, x[2]>> /\ x[2] \in DOMAIN sent
    BY <1>4, <1>8, PairsOf
  <2>2. sent[x[2]] = host[x[2]] \/ Newer(x)
    BY <1>1, <1>2, <2>1 DEF IInv, ReadFresh
  <2> QED
    BY <1>1, <1>2, <1>6, <1>7, <1>8, <2>2, LandAccounts DEF Ordered
<1>9. CASE Done /\ ps = DOMAIN sent /\ Promise(ps)
  <2>1. stage' \in {"none", "act"}
    BY <1>9 DEF Done, Over
  <2>2. ASSUME NEW x \in owed' PROVE (x \in Pairs(x[2]) /\ Accounted(x))'
    <3>1. CASE x[1] = Job /\ x[2] \in ps /\ x \in Pairs(x[2])
      BY <1>8, <3>1
    <3>2. CASE ~(x[1] = Job /\ x[2] \in ps)
      <4>1. x \in owed
        BY <1>9, <2>2, <3>2 DEF Promise
      <4>2. ~AtHand(x)
        BY <1>1, <1>9, <3>2 DEF AtHand
      <4>3. ~Due(x)
        BY <4>2 DEF Due
      <4> QED
        BY <1>2, <1>6, <1>7, <3>2, <4>1, <4>2, <4>3, AccountMoves DEF Ordered
    <3>3. x \in owed \/ x \in Pairs(x[2])
      BY <1>1, <1>9, <2>2 DEF Promise
    <3> QED
      BY <1>2, <3>1, <3>2, <3>3
  <2> QED
    BY <1>1, <1>2, <2>1, <2>2, FreshQuiet, JobAccounted
<1>10. CASE Fail
  <2>1. stage' = "none" /\ owed' \subseteq owed
    BY <1>10, FailOwes DEF Fail, Over
  <2>2. ASSUME NEW x \in owed' PROVE (x \in Pairs(x[2]) /\ Accounted(x))'
    <3>1. x \in Pairs(x[2]) /\ Accounted(x)
      BY <1>2, <2>1, <2>2
    <3>2. CASE x[1] = Job /\ x[2] \in ps
      BY <1>8, <3>1, <3>2
    <3>3. CASE ~(x[1] = Job /\ x[2] \in ps)
      BY <1>6, <1>7, <1>10, <2>2, <3>1, <3>3, FailAccounts
    <3> QED
      BY <3>2, <3>3
  <2> QED
    BY <1>1, <1>2, <2>1, <2>2, FreshQuiet, JobAccounted
<1>11. CASE Step("verify") /\ UNCHANGED <<owed, sent>>
  <2>1. stage' = "verify" /\ work' = work /\ Job' = Job /\ sent' = sent /\ owed' = owed /\ host' = host
    BY <1>1, <1>11 DEF Step, Job, Place
  <2>0. ASSUME NEW x, AtHand(x) PROVE AtHand(x)'
    BY <1>1, <2>0, <2>1 DEF AtHand
  <2>2. ASSUME NEW x, Due(x) PROVE Recovering(x)'
    BY <1>1, <2>0, <2>1, <2>2 DEF Due, Recovering, Resyncing, Underway
  <2>3. ASSUME NEW x \in owed' PROVE (x \in Pairs(x[2]) /\ Accounted(x))'
    <3>1. x \in Pairs(x[2]) /\ Accounted(x)
      BY <1>2, <2>1, <2>3
    <3>2. CASE x[1] = Job /\ x[2] \in ps
      BY <1>8, <3>1, <3>2
    <3>3. CASE ~(x[1] = Job /\ x[2] \in ps)
      BY <1>2, <1>6, <1>7, <2>0, <2>2, <3>1, <3>3, AccountMoves DEF Ordered
    <3> QED
      BY <3>2, <3>3
  <2>4. ASSUME NEW r \in SyncRules, NEW q \in Paths, <<r, q>> \in Pairs(q)
        PROVE  FreshAt(r, q)'
    <3>1. ASSUME Job = r, q \in DOMAIN sent, sent[q] # host[q] PROVE Newer(<<r, q>>)'
      <4> DEFINE x == <<r, q>>
      <4>1. x \in Pairs(x[2]) /\ x[1] = Job /\ x[2] = q
        BY <2>4, <3>1
      <4>2. Newer(x)
        BY <1>1, <1>2, <3>1 DEF IInv, ReadFresh
      <4>3. x \in dropped => x \in dropped'
        BY <1>7, <3>1, <4>1
      <4> HIDE DEF x
      <4>4. Newer(x)'
        BY <1>2, <1>6, <2>2, <4>2, <4>3, NewerMoves DEF Ordered
      <4> QED
        BY <4>4 DEF x
    <3> QED
      BY <2>1, <3>1 DEF FreshAt
  <2>5. ReadFresh'
    BY <1>2, <2>4, FreshNext DEF FreshAll
  <2> QED
    BY <1>1, <1>2, <2>3, <2>5, JobAccounted
<1> QED
  BY <1>3, <1>9, <1>10, <1>11

LEMMA VerifyAccounted ==
  ASSUME IInv, Verify
  PROVE  ReadFresh' /\ OwedAccounted'
<1>1. /\ work # {} /\ stage = "verify" /\ Job \in SyncRules /\ UNCHANGED <<pc, batch, turn>>
      /\ UNCHANGED <<kernel, copy, rebuilt, host, cb, cbEvent, queue, flag>>
      /\ \A p \in DOMAIN sent : p \in Paths /\ <<Job, p>> \in Pairs(p)
  BY TypesParts DEF Verify, At, Outside, there, Fail, Done, IInv, JobsInOrder, LoopOK
<1>2. Watching /\ Ordered /\ Ordered' /\ \A x \in owed : x \in Pairs(x[2]) /\ Accounted(x)
  BY <1>1, JobWatches, VerifyOrdered
<1>3. CASE Fail /\ UNCHANGED <<presumed, dropped>>
  <2>1. Moving /\ stage' = "none" /\ owed' \subseteq owed
    BY <1>1, <1>3, FailOwes DEF Moving, Fail, Over
  <2>2. \A x \in owed' : (x \in Pairs(x[2]) /\ Accounted(x))'
    BY <1>1, <1>2, <1>3, <2>1, FailAccounts
  <2> QED
    BY <1>1, <1>2, <2>1, <2>2, FreshQuiet, JobAccounted
<1>4. CASE /\ sent # <<>> /\ \A p \in DOMAIN sent : entry_landed(p)
           /\ presumed' = presumed \cup Alike(DOMAIN sent)
           /\ dropped' = dropped \ Current(DOMAIN sent)
           /\ Done /\ Promise(DOMAIN sent)
  <2>1. Moving /\ stage' \in {"none", "act"}
    <3>1. CASE Over
      BY <1>1, <1>4, <3>1 DEF Moving, Done, Over
    <3>2. CASE stage' = "act" /\ work' = work
      BY <1>1, <1>4, <3>2 DEF Moving, Done, Job, Place
    <3> QED
      BY <1>4, <3>1, <3>2 DEF Done
  <2>2. ASSUME NEW x \in owed', x[1] = Job, x[2] \in DOMAIN sent, x \in Pairs(x[2])
        PROVE (x \in Pairs(x[2]) /\ Accounted(x))'
    <3>1. x = <<Job, x[2]>>
      BY <2>2, PairsOf
    <3>2. CASE copy[Job][x[2]] # sent[x[2]]
      <4>0. entry_landed(x[2])
        BY <1>4, <2>2
      <4>1. x \in presumed'
        BY <1>4, <2>2, <3>1, <3>2, <4>0 DEF Alike, entry_landed
      <4> QED
        BY <2>2, <4>1 DEF Accounted, Pairs
    <3>3. CASE copy[Job][x[2]] = sent[x[2]]
      <4>1. sent[x[2]] = host[x[2]] \/ Newer(x)
        BY <1>1, <1>2, <2>2, <3>1 DEF IInv, ReadFresh
      <4>2. sent[x[2]] # host[x[2]] /\ x \in dropped => x \in dropped'
        BY <1>4, <3>1 DEF Current
      <4> QED
        BY <1>1, <1>2, <2>1, <2>2, <3>3, <4>1, <4>2, LandAccounts DEF Ordered
    <3> QED
      BY <3>2, <3>3
  <2>3. ASSUME NEW x \in owed', ~(x[1] = Job /\ x[2] \in DOMAIN sent)
        PROVE (x \in Pairs(x[2]) /\ Accounted(x))'
    <3>1. x \in owed
      BY <1>4, <2>3 DEF Promise
    <3>2. x \in dropped => x \in dropped'
      BY <1>4, <2>3 DEF Current
    <3>3. ~AtHand(x) /\ ~Due(x)
      BY <1>1, <2>3 DEF AtHand, Due
    <3> QED
      BY <1>1, <1>2, <1>4, <2>1, <3>1, <3>2, <3>3, AccountMoves DEF Ordered
  <2>4. \A x \in owed' : x \in owed \/ x \in Pairs(x[2])
    BY <1>1, <1>4 DEF Promise
  <2>5. \A x \in owed' : (x \in Pairs(x[2]) /\ Accounted(x))'
    BY <1>2, <2>2, <2>3, <2>4
  <2> QED
    BY <1>1, <1>2, <2>1, <2>5, FreshQuiet, JobAccounted
<1> QED
  BY <1>3, <1>4 DEF Verify

LEMMA RemoveAccounted ==
  ASSUME IInv, RemoveCopy
  PROVE  ReadFresh' /\ OwedAccounted'
<1>1. /\ work # {} /\ stage = "remove" /\ Job \in SyncRules /\ UNCHANGED <<pc, batch, turn>>
      /\ UNCHANGED <<kernel, host, cb, cbEvent, queue, flag>> /\ pc = "dispatch"
  BY DEF RemoveCopy, At, Outside, Fail, Done, IInv, JobsInOrder
<1>2. Watching /\ Ordered /\ Ordered' /\ \A x \in owed : x \in Pairs(x[2]) /\ Accounted(x)
  BY <1>1, JobWatches, RemoveOrdered
<1>3. Path \in Paths
  BY <1>1, <1>2, JobOf
<1>4. ASSUME NEW x PROVE ~Due(x)
  BY <1>1 DEF Due, Resyncing
<1>5. CASE Fail /\ UNCHANGED <<there, dropped, presumed, rebuilt>>
  <2>1. Moving /\ stage' = "none" /\ owed' \subseteq owed /\ copy' = copy
    BY <1>1, <1>5, FailOwes DEF Moving, Fail, Over, there
  <2>2. \A x \in owed' : (x \in Pairs(x[2]) /\ Accounted(x))'
    BY <1>1, <1>2, <1>5, <2>1, FailAccounts
  <2> QED
    BY <1>1, <1>2, <2>1, <2>2, FreshQuiet, JobAccounted
<1>6. CASE /\ copy' = [copy EXCEPT ![Job][Path] = Gone]
           /\ dropped' = IF host[Path] = Gone THEN dropped \ {<<Job, Path>>} ELSE dropped
           /\ presumed' = presumed \ {<<Job, Path>>} /\ rebuilt' = rebuilt \ {<<Job, Path>>}
           /\ UNCHANGED <<dir, up>>
           /\ (Done /\ UNCHANGED owed) \/ Fail
  <2>1. Moving /\ stage' \in {"none", "act"} /\ owed' \subseteq owed
    <3>1. CASE Fail
      BY <1>1, <3>1, FailOwes DEF Moving, Fail, Over
    <3>2. CASE Over /\ Done /\ UNCHANGED owed
      BY <1>1, <3>2 DEF Moving, Done, Over
    <3>3. CASE stage' = "act" /\ work' = work /\ Done /\ UNCHANGED owed
      BY <1>1, <3>3 DEF Moving, Done, Job, Place
    <3> QED
      BY <1>6, <3>1, <3>2, <3>3 DEF Done
  <2>2. copy \in [SyncRules -> [Paths -> Contents \cup {Gone}]]
    BY <1>2, TypesParts DEF Ordered, CopiesOK
  <2> DEFINE new == [copy[Job] EXCEPT ![Path] = Gone]
  <2>3. copy' = [copy EXCEPT ![Job] = new]
    BY <1>1, <1>6, <2>2
  <2>4. new[Path] = Gone /\ \A q \in Paths : q # Path => new[q] = copy[Job][q]
    BY <1>1, <1>3, <2>2
  <2> HIDE DEF new
  <2>5. copy'[Job] = new /\ \A r \in SyncRules : r # Job => copy'[r] = copy[r]
    BY <1>1, <2>2, <2>3
  <2>6. ASSUME NEW x \in owed', x[1] = Job, x[2] = Path
        PROVE  (x \in Pairs(x[2]) /\ Accounted(x))'
    <3>1. x \in Pairs(x[2]) /\ x = <<Job, Path>>
      BY <1>2, <2>1, <2>6, PairsOf
    <3>2. copy'[x[1]][x[2]] = Gone /\ host' = host
      BY <1>1, <2>4, <2>5, <2>6
    <3>3. CASE host[Path] = Gone
      BY <2>6, <3>1, <3>2, <3>3 DEF Accounted, Pairs
    <3>4. CASE host[Path] # Gone
      <4>1. Newer(x) /\ dropped' = dropped
        BY <1>1, <1>2, <1>6, <3>1, <3>4 DEF IInv, ReadFresh
      <4>2. Newer(x)'
        BY <1>2, <1>4, <2>1, <4>1, NewerMoves DEF Ordered
      <4> QED
        BY <3>1, <4>2 DEF Accounted, Pairs
    <3> QED
      BY <3>3, <3>4
  <2>7. ASSUME NEW x \in owed', ~(x[1] = Job /\ x[2] = Path)
        PROVE  (x \in Pairs(x[2]) /\ Accounted(x))'
    <3>1. x \in Pairs(x[2]) /\ Accounted(x)
      BY <1>2, <2>1, <2>7
    <3>2. x[1] \in SyncRules /\ x[2] \in Paths
      BY <3>1, PairsOf
    <3>3. copy'[x[1]][x[2]] = copy[x[1]][x[2]]
      BY <1>1, <2>4, <2>5, <2>7, <3>2
    <3>4. /\ (x \in dropped => x \in dropped') /\ (x \in presumed => x \in presumed')
          /\ (x \in rebuilt => x \in rebuilt')
      BY <1>6, <2>7
    <3>5. ~(Dispatching(x) /\ AtHand(x))
      BY <2>7 DEF Dispatching, AtHand
    <3> QED
      BY <1>2, <1>4, <2>1, <3>1, <3>3, <3>4, <3>5, AccountMoves DEF Ordered
  <2>8. \A x \in owed' : (x \in Pairs(x[2]) /\ Accounted(x))'
    BY <2>6, <2>7
  <2> QED
    BY <1>1, <1>2, <2>1, <2>8, FreshQuiet, JobAccounted
<1>7. CASE /\ presumed' = presumed \cup {<<Job, Path>>}
           /\ Done /\ UNCHANGED <<there, owed, dropped, rebuilt>>
  <2>1. Moving /\ stage' \in {"none", "act"} /\ copy' = copy
    <3>1. CASE Over
      BY <1>1, <1>7, <3>1 DEF Moving, Done, Over, there
    <3>2. CASE stage' = "act" /\ work' = work
      BY <1>1, <1>7, <3>2 DEF Moving, Done, Job, Place, there
    <3> QED
      BY <1>7, <3>1, <3>2 DEF Done
  <2>2. ASSUME NEW x \in owed' PROVE (x \in Pairs(x[2]) /\ Accounted(x))'
    <3>1. x \in Pairs(x[2]) /\ Accounted(x)
      BY <1>2, <1>7, <2>2
    <3>2. CASE x = <<Job, Path>>
      BY <1>7, <3>1, <3>2 DEF Accounted, Pairs
    <3>3. CASE x # <<Job, Path>>
      <4>1. x = <<x[1], x[2]>>
        BY <3>1, PairsOf
      <4>2. ~(Dispatching(x) /\ AtHand(x))
        BY <3>3, <4>1 DEF Dispatching, AtHand
      <4> QED
        BY <1>2, <1>4, <1>7, <2>1, <3>1, <4>2, AccountMoves DEF Ordered
    <3> QED
      BY <3>2, <3>3
  <2> QED
    BY <1>1, <1>2, <2>1, <2>2, FreshQuiet, JobAccounted
<1> QED
  BY <1>5, <1>6, <1>7 DEF RemoveCopy

\* A restart, a command and a build see to no file.
LEMMA ActAccounted ==
  ASSUME IInv, Act \/ Build
  PROVE  ReadFresh' /\ OwedAccounted'
<1>1. /\ work # {} /\ UNCHANGED <<pc, batch, turn, failed>>
      /\ UNCHANGED <<copy, owed, presumed, rebuilt, host, cb, cbEvent, queue, flag>>
      /\ Over \/ (stage' = "recreate" /\ sent' = host /\ work' = work)
      /\ UNCHANGED <<kernel, dropped>> \/ Opens(Job \in Large)
  BY DEF Act, Build, At, Outside, Step, there, history
<1>2. Watching /\ Ordered /\ \A x \in owed : x \in Pairs(x[2]) /\ Accounted(x)
  BY <1>1, JobWatches
<1>0. ToSet(kernel) \subseteq ToSet(kernel') /\ dropped' = dropped
  BY <1>1, <1>2, OpensKeeps DEF Ordered, KernelGrows
<1>3. Moving
  BY <1>0, <1>1 DEF Moving, Job, Place
<1>4. ASSUME NEW x \in owed' PROVE (x \in Pairs(x[2]) /\ Accounted(x))'
  <2>1. x \in Pairs(x[2]) /\ Accounted(x)
    BY <1>1, <1>2
  <2>2. x[1] \in SyncRules
    BY <2>1, PairsOf
  <2>3. ~AtHand(x) /\ ~Due(x)
    BY <2>2 DEF AtHand, Due, Act, Build, At, SyncRules, Syncing
  <2> QED
    BY <1>0, <1>1, <1>2, <1>3, <2>1, <2>3, AccountMoves DEF Ordered
<1>5. ReadFresh'
  <2>1. CASE Over
    BY <2>1, FreshQuiet DEF Over
  <2>2. CASE stage' = "recreate" /\ sent' = host
    BY <1>1, <2>2 DEF ReadFresh
  <2> QED
    BY <1>1, <2>1, <2>2
<1> QED
  BY <1>1, <1>2, <1>4, <1>5, JobAccounted

\* The copies of a container.
LEMMA CopiesHave ==
  ASSUME NEW c, NEW of, NEW r, NEW p \in Paths
  PROVE  <<r, p>> \in Copies(c, of) <=> r \in RulesIn(c) /\ p \in of[r]
  BY DEF Copies

LEMMA RecreateAccounted ==
  ASSUME IInv, Recreate
  PROVE  ReadFresh' /\ OwedAccounted'
<1>1. /\ work # {} /\ stage = "recreate" /\ Over /\ UNCHANGED <<pc, batch, turn, failed, kernel>>
      /\ UNCHANGED <<host, cb, cbEvent, queue, flag>>
      /\ sent \in [Paths -> Contents \cup {Gone}]
  BY DEF Recreate, At, Outside, IInv, JobsInOrder
<1>2. Watching /\ Ordered /\ \A x \in owed : x \in Pairs(x[2]) /\ Accounted(x)
  BY <1>1, JobWatches
<1>3. Moving /\ stage' = "none"
  BY <1>1 DEF Moving, Over
<1>4. ASSUME NEW x PROVE ~AtHand(x) /\ ~Due(x)
  BY <1>1 DEF AtHand, Due
<1> DEFINE c == Container[Job]
<1>5. ASSUME NEW x \in owed, x \in owed',
             copy'[x[1]][x[2]] = copy[x[1]][x[2]], x \in presumed => x \in presumed',
             x \in rebuilt => x \in rebuilt', x \in dropped => x \in dropped'
      PROVE  (x \in Pairs(x[2]) /\ Accounted(x))'
  BY <1>2, <1>3, <1>4, <1>5, AccountMoves DEF Ordered
<1>6. CASE UNCHANGED <<there, history>>
  BY <1>5, <1>6, <1>1, <1>2, <1>3, FreshQuiet, JobAccounted DEF there, history
<1> DEFINE gone == Copies(c, [r \in Rules |-> Paths \ Kept[r]])
\* A copy that the container does not hold, or keeps.
<1>7. ASSUME NEW x \in owed, owed' = owed, dropped' = dropped,
             x[1] \in RulesIn(c) => x[2] \in Kept[x[1]],
             copy'[x[1]][x[2]] = copy[x[1]][x[2]],
             presumed \ Copies(c, Built) \subseteq presumed', rebuilt \ Copies(c, Built) \subseteq rebuilt'
      PROVE  (x \in Pairs(x[2]) /\ Accounted(x))'
  <2>1. x \in Pairs(x[2]) /\ x[1] \in Rules /\ x[2] \in Paths /\ x = <<x[1], x[2]>>
    BY <1>2, <1>7, PairsOf
  <2>2. x \notin Copies(c, Built)
    <3>1. x[2] \in Kept[x[1]] => x[2] \notin Built[x[1]]
      BY <2>1 DEF Kept, Built
    <3> QED
      BY <1>7, <2>1, <3>1, CopiesHave
  <2> QED
    BY <1>5, <1>7, <2>2
\* One that went with it.
<1>8. ASSUME NEW x \in owed, x[1] \in RulesIn(c), x[2] \notin Kept[x[1]],
             gone \ Copies(c, Built) \subseteq rebuilt',
             x[2] \in Built[x[1]] => gone \subseteq rebuilt'
      PROVE  (x \in Pairs(x[2]) /\ Accounted(x))'
  <2>1. x \in Pairs(x[2]) /\ x[1] \in Rules /\ x[2] \in Paths /\ x = <<x[1], x[2]>>
    BY <1>2, <1>8, PairsOf
  <2>2. x \in gone /\ (x \in Copies(c, Built) => x[2] \in Built[x[1]])
    BY <1>8, <2>1, CopiesHave
  <2>3. x \in rebuilt'
    BY <1>8, <2>2
  <2> QED
    BY <2>1, <2>3 DEF Accounted, Pairs
<1>9. CASE Removed(c)
  <2>1. /\ copy' = [r \in SyncRules |-> [p \in Paths |->
             IF r \notin RulesIn(c) \/ p \in Kept[r] THEN copy[r][p] ELSE Gone]]
        /\ rebuilt' = rebuilt \cup gone /\ UNCHANGED <<owed, dropped, presumed>>
    BY <1>9 DEF Removed
  <2>2. ASSUME NEW x \in owed' PROVE (x \in Pairs(x[2]) /\ Accounted(x))'
    <3>1. x[1] \in SyncRules /\ x[2] \in Paths /\ x \in owed
      BY <1>2, <2>1, <2>2, PairsOf
    <3>2. CASE x[1] \in RulesIn(c) => x[2] \in Kept[x[1]]
      <4>1. copy'[x[1]][x[2]] = copy[x[1]][x[2]]
        BY <2>1, <3>1, <3>2
      <4> QED
        BY <1>7, <2>1, <3>1, <3>2, <4>1
    <3>3. CASE ~(x[1] \in RulesIn(c) => x[2] \in Kept[x[1]])
      BY <1>8, <2>1, <3>1, <3>3
    <3> QED
      BY <3>2, <3>3
  <2> QED
    BY <1>1, <1>2, <1>3, <2>2, FreshQuiet, JobAccounted
<1>10. CASE Recreated(c)
  <2>1. /\ copy' = [r \in SyncRules |-> [p \in Paths |->
             IF r \notin RulesIn(c) \/ p \in Kept[r] THEN copy[r][p]
             ELSE IF p \in Built[r] THEN sent[p] ELSE Gone]]
        /\ presumed' = presumed \ Copies(c, Built)
        /\ rebuilt' = (rebuilt \cup gone) \ Copies(c, Built)
        /\ UNCHANGED <<owed, dropped>>
    BY <1>10 DEF Recreated
  <2>2. ASSUME NEW x \in owed' PROVE (x \in Pairs(x[2]) /\ Accounted(x))'
    <3>1. x \in Pairs(x[2]) /\ x[1] \in SyncRules /\ x[2] \in Paths /\ x \in owed /\ x = <<x[1], x[2]>>
      BY <1>2, <2>1, <2>2, PairsOf
    <3>2. CASE x[1] \in RulesIn(c) => x[2] \in Kept[x[1]]
      <4>1. copy'[x[1]][x[2]] = copy[x[1]][x[2]]
        BY <2>1, <3>1, <3>2
      <4> QED
        BY <1>7, <2>1, <3>1, <3>2, <4>1
    <3>3. CASE x[1] \in RulesIn(c) /\ x[2] \notin Kept[x[1]] /\ x[2] \in Built[x[1]]
      <4>1. copy'[x[1]][x[2]] = sent[x[2]]
        BY <2>1, <3>1, <3>3
      <4>2. sent[x[2]] = host[x[2]] \/ Newer(x)
        BY <1>1, <1>2, <3>1, <3>3 DEF IInv, ReadFresh
      <4> QED
        BY <1>1, <1>2, <1>3, <2>1, <3>1, <4>1, <4>2, LandAccounts DEF Ordered
    <3>4. CASE x[1] \in RulesIn(c) /\ x[2] \notin Kept[x[1]] /\ x[2] \notin Built[x[1]]
      BY <1>8, <2>1, <3>1, <3>4
    <3> QED
      BY <3>2, <3>3, <3>4
  <2> QED
    BY <1>1, <1>2, <1>3, <2>2, FreshQuiet, JobAccounted
<1> QED
  BY <1>6, <1>9, <1>10 DEF Recreate

(***************************************************************************)
(* The theorems.                                                           *)
(***************************************************************************)

LEMMA DispatchAccounted ==
  ASSUME IInv, Dispatch
  PROVE  ReadFresh' /\ OwedAccounted'
  BY StartAccounted, MkdirAccounted, PackAccounted, PutAccounted, VerifyAccounted, RemoveAccounted,
     ActAccounted, RecreateAccounted DEF Dispatch

LEMMA LoopAccounted ==
  ASSUME IInv, Loop
  PROVE  ReadFresh' /\ OwedAccounted'
<1>1. CASE Refused \/ Register
  BY <1>1, SetupAccounted
<1>2. CASE RecoverFromOverflow \/ SyncedAll
  BY <1>2, RecoverAccounted, SyncedAccounted
<1>3. CASE Receive \/ Woken \/ Coalesce
  BY <1>3, ReceiveAccounted
<1>4. CASE CloseBatch \/ NextPath
  BY <1>4, CloseAccounted, TurnAccounted
<1>5. CASE Dispatch
  BY <1>5, DispatchAccounted
<1> QED
  BY <1>1, <1>2, <1>3, <1>4, <1>5 DEF Loop

\* Whatever the rules, the paths, the caps and the mounts are: the session has
\* the types it should, its jobs are in order, and every copy it owes is what
\* the host has, or something newer is known about, or being done about it; or it
\* is one of two that nothing will be done about: taken for done on what Podman
\* said of it, or gone with a container that a rebuild replaced or lost.
THEOREM Invariant == Spec => []IInv
<1>1. Init => IInv
  <2> SUFFICES ASSUME Init PROVE IInv
    OBVIOUS
  <2>1. ReadFresh /\ OwedAccounted
    BY DEF Init, ReadFresh, OwedAccounted, Watching
  <2> QED
    BY <2>1, BeginOrdered DEF IInv, Ordered
<1>2. IInv /\ [Next]_vars => IInv'
  <2> SUFFICES ASSUME IInv, [Next]_vars PROVE IInv'
    OBVIOUS
  <2>0. Ordered'
    BY NextOrdered DEF IInv, Ordered
  <2> SUFFICES ReadFresh' /\ OwedAccounted'
    BY <2>0 DEF IInv, Ordered
  <2>1. ASSUME NEW p \in Paths, NEW c \in Contents \cup {Gone}, Edit(p, c)
        PROVE  ReadFresh' /\ OwedAccounted'
    BY <2>1, EditAccounted
  <2>2. CASE Callback
    BY <2>2, CallbackAccounted
  <2>3. CASE Loop
    BY <2>3, LoopAccounted
  <2>4. CASE Interrupt
    BY <2>4, SetupAccounted
  <2>5. CASE UNCHANGED vars
    <3>1. UNCHANGED <<loop, copy, host, presumed, rebuilt, owed, dropped, kernel, cb, cbEvent, queue, flag>>
      BY <2>5 DEF vars, there, history, events
    <3>2. CASE Watching
      <4>1. \A p \in Paths : \A x \in Pairs(p) : Newer(x) \/ host'[p] # host[p] => Newer(x)'
        <5> SUFFICES ASSUME NEW p \in Paths, NEW x \in Pairs(p), Newer(x) PROVE Newer(x)'
          BY <3>1
        <5>1. Recovering(x)' <=> Recovering(x)
          BY <3>1, LoopStays
        <5>2. UNCHANGED <<pc, batch, turn>>
          BY <3>1 DEF loop
        <5> QED
          BY <3>1, <5>1, <5>2 DEF Newer, Lost, Queued, Overflowed, FirstSeen
      <4> QED
        BY <2>0, <3>1, <3>2, <4>1, NewsKeep DEF IInv, Ordered
    <3>3. CASE ~Watching
      BY <3>1, <3>3 DEF Watching, loop, ReadFresh, OwedAccounted
    <3> QED
      BY <3>2, <3>3
  <2> QED
    BY <2>1, <2>2, <2>3, <2>4, <2>5 DEF Next
<1> QED
  BY <1>1, <1>2, PTL DEF Spec

\* A session with nothing left to do has every copy it owes as the host has it,
\* but for those CaughtUp excepts: one confirmed by its size over something else, or
\* whose removal was taken for done; one whose removal was dropped; and one that
\* went with a container a rebuild replaced or lost, which nothing syncs again.
\* What failed, or a warning named, is not owed.
THEOREM CaughtUpHolds == Spec => []CaughtUp
<1>1. IInv => CaughtUp
  <2> SUFFICES ASSUME IInv, Idle, NEW x \in owed
               PROVE  \/ copy[x[1]][x[2]] = host[x[2]]
                      \/ x \in presumed
                      \/ x \in dropped /\ host[x[2]] = Gone
                      \/ x \in rebuilt
    BY DEF CaughtUp
  <2>1. pc = "wait" /\ queue = <<>> /\ kernel = <<>> /\ cb = "idle" /\ ~flag
    BY DEF Idle
  <2>2. Accounted(x)
    BY <2>1 DEF IInv, OwedAccounted, Watching
  <2>3. ~Queued(x[2]) /\ ~Overflowed
    BY <2>1 DEF Queued, Overflowed, ToSet
  <2>4. ~Recovering(x) /\ ~Dispatching(x)
    BY <2>1 DEF Recovering, Resyncing, Dispatching
  <2> QED
    BY <2>2, <2>3, <2>4 DEF Accounted, Newer, Lost
<1> QED
  BY <1>1, Invariant, PTL
=============================================================================

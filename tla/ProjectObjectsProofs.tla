------------------------ MODULE ProjectObjectsProofs ------------------------
(***************************************************************************)
(* What holds of the objects of any number of projects, whatever their     *)
(* files name and whoever else uses Podman.                                *)
(***************************************************************************)
EXTENDS ProjectObjects, TLAPS

USE DEF Ups, Downs, ByLabel, Removing, Quiet

\* The loops that follow one another.
LEMMA UpOrder ==
  ASSUME NEW v \in Ups
  PROVE  /\ Following(v, "start") = "check" /\ Following(v, "check") = "build"
         /\ Following(v, "build") = "networks" /\ Following(v, "networks") = "volumes"
         /\ Following(v, "volumes") = "secrets" /\ Following(v, "secrets") = "pod"
         /\ Following(v, "pod") = "walk"
  BY DEF Following, UpLoops

LEMMA DownOrder ==
  ASSUME NEW v \in Downs \ ByLabel
  PROVE  /\ Following(v, "start") = "members" /\ Following(v, "members") = "rmPod"
         /\ Following(v, "rmPod") = "rmNetworks" /\ Following(v, "rmNetworks") = "listNetworks"
         /\ Following(v, "listNetworks") = IF v \in Removing THEN "rmVolumes" ELSE "listSecrets"
         /\ Following(v, "sweepNetworks") = IF v \in Removing THEN "rmVolumes" ELSE "listSecrets"
         /\ Following(v, "rmVolumes") = "listSecrets"
         /\ Following(v, "listSecrets") = "end" /\ Following(v, "sweepSecrets") = "end"
         /\ Following(v, "rmSecrets") = "end"
<1>1. CASE v = "down"
  BY <1>1 DEF Following, DownLoops
<1>2. CASE v = "down -v"
  BY <1>2 DEF Following, DownLoops
<1>3. QED
  BY <1>1, <1>2

LEMMA LabelOrder ==
  ASSUME NEW v \in ByLabel
  PROVE  /\ Following(v, "start") = "members" /\ Following(v, "members") = "listPods"
         /\ Following(v, "listPods") = "listNetworks" /\ Following(v, "sweepPods") = "listNetworks"
         /\ Following(v, "listNetworks") = IF v \in Removing THEN "listVolumes" ELSE "listSecrets"
         /\ Following(v, "sweepNetworks") = IF v \in Removing THEN "listVolumes" ELSE "listSecrets"
         /\ Following(v, "listVolumes") = "listSecrets" /\ Following(v, "sweepVolumes") = "listSecrets"
         /\ Following(v, "listSecrets") = "end" /\ Following(v, "sweepSecrets") = "end"
         /\ Following(v, "rmSecrets") = "end"
<1>1. CASE v = "label"
  BY <1>1 DEF Following, LabelLoops
<1>2. CASE v = "label -v"
  BY <1>2 DEF Following, LabelLoops
<1>3. QED
  BY <1>1, <1>2

LEMMA LoopKinds ==
  /\ DOMAIN Loops = {"networks", "volumes", "secrets", "pod",
                     "rmPod", "rmNetworks", "rmVolumes", "rmSecrets"}
  /\ Loops["networks"] = "network" /\ Loops["volumes"] = "volume"
  /\ Loops["secrets"] = "secret" /\ Loops["pod"] = "pod"
  /\ Loops["rmPod"] = "pod" /\ Loops["rmNetworks"] = "network"
  /\ Loops["rmVolumes"] = "volume" /\ Loops["rmSecrets"] = "secret"
  BY DEF Loops

LEMMA DownDomains ==
  ASSUME NEW v
  PROVE  /\ DOMAIN DownLoops(v) = {"start", "members", "rmPod", "rmNetworks", "listNetworks",
              "sweepNetworks", "rmVolumes", "listSecrets", "sweepSecrets", "rmSecrets"}
         /\ DOMAIN LabelLoops(v) = {"start", "members", "listPods", "sweepPods", "listNetworks",
              "sweepNetworks", "listVolumes", "sweepVolumes", "listSecrets", "sweepSecrets", "rmSecrets"}
  BY DEF DownLoops, LabelLoops

\* The loop after one of a command on the way up.
LEMMA UpNext ==
  ASSUME NEW v \in Ups, NEW s \in {"check", "build", "networks", "volumes", "secrets", "pod"}
  PROVE  Following(v, s) \in {"build", "networks", "volumes", "secrets", "pod", "walk"}
  BY UpOrder

\* The loop after one of a command on the way down.
LEMMA DownNext ==
  ASSUME NEW v \in Downs, NEW s \in DownStages,
         s \in {"rmPod", "rmNetworks", "rmVolumes"} => v \notin ByLabel,
         s \in {"listPods", "sweepPods", "listVolumes", "sweepVolumes"} => v \in ByLabel
  PROVE  /\ Following(v, s) \in {"rmPod", "rmNetworks", "rmVolumes", "listNetworks",
                                 "listSecrets", "listPods", "listVolumes", "end"}
         /\ Following(v, s) \in {"rmPod", "rmNetworks", "rmVolumes"} => v \notin ByLabel
         /\ Following(v, s) \in {"listPods", "listVolumes"} => v \in ByLabel
         /\ Following(v, s) \in {"rmVolumes", "listVolumes"} => v \in Removing
<1>1. CASE v \in ByLabel
  <2>1. s \in {"members", "listPods", "sweepPods", "listNetworks", "sweepNetworks",
               "listVolumes", "sweepVolumes", "listSecrets", "sweepSecrets", "rmSecrets"}
    BY <1>1 DEF DownStages
  <2>2. CASE s \in {"members", "listPods", "sweepPods", "listVolumes", "sweepVolumes",
                    "listSecrets", "sweepSecrets", "rmSecrets"}
    <3>1. Following(v, s) \in {"listPods", "listNetworks", "listSecrets", "end"}
      <4>1. /\ Following(v, "members") = "listPods" /\ Following(v, "listPods") = "listNetworks"
            /\ Following(v, "sweepPods") = "listNetworks" /\ Following(v, "listVolumes") = "listSecrets"
            /\ Following(v, "sweepVolumes") = "listSecrets" /\ Following(v, "listSecrets") = "end"
            /\ Following(v, "sweepSecrets") = "end" /\ Following(v, "rmSecrets") = "end"
        BY <1>1, LabelOrder
      <4> QED
        BY <2>2, <4>1
    <3> QED
      BY <1>1, <3>1
  <2>3. CASE s \in {"listNetworks", "sweepNetworks"}
    <3>1. Following(v, s) = IF v \in Removing THEN "listVolumes" ELSE "listSecrets"
      <4>1. CASE s = "listNetworks"
        BY <1>1, <4>1, LabelOrder
      <4>2. CASE s = "sweepNetworks"
        BY <1>1, <4>2, LabelOrder
      <4> QED
        BY <2>3, <4>1, <4>2
    <3> QED
      BY <1>1, <3>1
  <2> QED
    BY <2>1, <2>2, <2>3
<1>2. CASE v \notin ByLabel
  <2>1. s \in {"members", "rmPod", "rmNetworks", "listNetworks", "sweepNetworks",
               "rmVolumes", "listSecrets", "sweepSecrets", "rmSecrets"}
    BY <1>2 DEF DownStages
  <2>2. CASE s \in {"members", "rmPod", "rmNetworks", "rmVolumes", "listSecrets", "sweepSecrets", "rmSecrets"}
    <3>1. Following(v, s) \in {"rmPod", "rmNetworks", "listNetworks", "listSecrets", "end"}
      <4>1. /\ Following(v, "members") = "rmPod" /\ Following(v, "rmPod") = "rmNetworks"
            /\ Following(v, "rmNetworks") = "listNetworks" /\ Following(v, "rmVolumes") = "listSecrets"
            /\ Following(v, "listSecrets") = "end" /\ Following(v, "sweepSecrets") = "end"
            /\ Following(v, "rmSecrets") = "end"
        BY <1>2, DownOrder
      <4> QED
        BY <2>2, <4>1
    <3> QED
      BY <1>2, <3>1
  <2>3. CASE s \in {"listNetworks", "sweepNetworks"}
    <3>1. Following(v, s) = IF v \in Removing THEN "rmVolumes" ELSE "listSecrets"
      <4>1. CASE s = "listNetworks"
        BY <1>2, <4>1, DownOrder
      <4>2. CASE s = "sweepNetworks"
        BY <1>2, <4>2, DownOrder
      <4> QED
        BY <2>3, <4>1, <4>2
    <3> QED
      BY <1>2, <3>1
  <2> QED
    BY <2>1, <2>2, <2>3
<1> QED
  BY <1>1, <1>2

(***************************************************************************)
(* Where the commands are.                                                 *)
(***************************************************************************)

\* The part of the invariant about the loops.
LoopsOK ==
  /\ verb \in [Projects -> Ups \cup Downs]
  /\ pc \in [Projects -> Stages]
  /\ at \in [Projects -> [Objects -> Steps]]
  /\ err \in [Projects -> BOOLEAN]
  /\ Placed

LEMMA QueueSteps ==
  ASSUME NEW f, NEW s
  PROVE  /\ Queue(f, s) \in [Objects -> Steps]
         /\ \A o \in Objects :
              /\ Queue(f, s)[o] \in {"none", "todo"}
              /\ (Queue(f, s)[o] # "none" /\ s \in DOMAIN Loops) => Kind[o] = Loops[s]
         /\ s \notin DOMAIN Loops => Queue(f, s) = Nothing
<1>1. \A o \in Objects : Queue(f, s)[o] = IF o \in Declared(f, s) THEN "todo" ELSE "none"
  BY DEF Queue
<1>2. \A o \in Declared(f, s) : s \in DOMAIN Loops => Kind[o] = Loops[s]
  BY DEF Declared
<1>3. s \notin DOMAIN Loops => Queue(f, s) = Nothing
  BY DEF Queue, Declared, Nothing
<1>4. Queue(f, s) \in [Objects -> Steps]
  BY DEF Queue, Steps
<1> QED
  BY <1>1, <1>2, <1>3, <1>4

LEMMA NothingSteps == Nothing \in [Objects -> Steps] /\ \A o \in Objects : Nothing[o] = "none"
  BY DEF Nothing, Steps

\* What the loop of a command says of it.
LEMMA LoopFacts ==
  ASSUME LoopsOK, NEW p \in Projects
  PROVE  /\ verb[p] \in Ups \cup Downs
         /\ pc[p] \in UpStages => verb[p] \in Ups
         /\ pc[p] \in DownStages => verb[p] \in Downs
         /\ pc[p] \in DOMAIN Loops \cup Sweeping => pc[p] \in Working
         /\ \A o \in Objects : at[p][o] \in Steps
         /\ \A o \in Objects : at[p][o] # "none" /\ pc[p] \in DOMAIN Loops => Kind[o] = Loops[pc[p]]
<1>1. InOwnLoop(p) /\ \A o \in Objects : AtOwnStep(p, o)
  BY DEF LoopsOK, Placed
<1>2. verb[p] \in Ups \cup Downs /\ at[p] \in [Objects -> Steps]
  BY DEF LoopsOK
<1>3. pc[p] \in UpStages => verb[p] \in Ups
  BY <1>1, <1>2 DEF InOwnLoop, UpStages, DownStages
<1>4. pc[p] \in DownStages => verb[p] \in Downs
  BY <1>1, <1>2 DEF InOwnLoop, UpStages, DownStages
<1> QED
  BY <1>1, <1>2, <1>3, <1>4 DEF AtOwnStep, Working

\* A step of one command leaves the others where they are.
LEMMA OneMoves ==
  ASSUME LoopsOK, NEW p \in Projects,
         verb' \in [Projects -> Ups \cup Downs], pc' \in [Projects -> Stages],
         at' \in [Projects -> [Objects -> Steps]], err' \in [Projects -> BOOLEAN],
         \A q \in Projects \ {p} : /\ verb'[q] = verb[q] /\ pc'[q] = pc[q]
                                   /\ at'[q] = at[q] /\ err'[q] = err[q],
         InOwnLoop(p)', \A o \in Objects : AtOwnStep(p, o)'
  PROVE  LoopsOK'
<1>1. ASSUME NEW q \in Projects \ {p} PROVE InOwnLoop(q)'
  <2>1. InOwnLoop(q)
    BY DEF LoopsOK, Placed
  <2> QED
    BY <2>1 DEF InOwnLoop, Nothing
<1>2. ASSUME NEW q \in Projects \ {p}, NEW o \in Objects PROVE AtOwnStep(q, o)'
  <2>1. AtOwnStep(q, o)
    BY DEF LoopsOK, Placed
  <2> QED
    BY <2>1 DEF AtOwnStep
<1> QED
  BY <1>1, <1>2 DEF LoopsOK, Placed

\* What a step may do to the record of failures.
Recorded(p) == err' = err \/ err' = [err EXCEPT ![p] = TRUE]

\* A command that ends keeps the loops in order.
LEMMA EndKeeps ==
  ASSUME LoopsOK, NEW p \in Projects, NEW r \in {"killed", "ok", "failed"}, End(p, r),
         UNCHANGED verb, Recorded(p), r = "ok" => ~err'[p]
  PROVE  LoopsOK'
<1>1. /\ pc' \in [Projects -> Stages] /\ at' \in [Projects -> [Objects -> Steps]]
      /\ err' \in [Projects -> BOOLEAN] /\ verb' \in [Projects -> Ups \cup Downs]
  BY NothingSteps DEF LoopsOK, End, Recorded, Stages
<1>2. pc'[p] = r /\ at'[p] = Nothing
  BY DEF LoopsOK, End
<1>3. \A q \in Projects \ {p} : /\ verb'[q] = verb[q] /\ pc'[q] = pc[q]
                                /\ at'[q] = at[q] /\ err'[q] = err[q]
  BY DEF LoopsOK, End, Recorded
<1>4. InOwnLoop(p)'
  BY <1>2 DEF InOwnLoop, UpStages, Nothing
<1>5. \A o \in Objects : AtOwnStep(p, o)'
  BY <1>2, NothingSteps DEF AtOwnStep
<1> QED
  BY <1>1, <1>3, <1>4, <1>5, OneMoves

\* The loop a command goes on to is one of its own.
LEMMA NextLoop ==
  ASSUME LoopsOK, NEW p \in Projects, pc[p] \notin Quiet, pc[p] # "walk",
         NEW next, next = Following(verb[p], pc[p]), next # "end"
  PROVE  /\ next \in Stages /\ next \notin Quiet /\ next \notin Sweeping /\ next # "rmSecrets"
         /\ verb[p] \in Ups => next \in UpStages
         /\ verb[p] \in Downs => next \in DownStages
         /\ next \in {"rmPod", "rmNetworks", "rmVolumes"} => verb[p] \notin ByLabel
         /\ next \in {"listPods", "listVolumes"} => verb[p] \in ByLabel
         /\ next \in {"rmVolumes", "listVolumes"} => verb[p] \in Removing
<1>1. verb[p] \in Ups \cup Downs /\ InOwnLoop(p)
  BY DEF LoopsOK, Placed
<1>2. CASE verb[p] \in Ups
  <2>1. pc[p] \in {"check", "build", "networks", "volumes", "secrets", "pod"}
    BY <1>1, <1>2 DEF InOwnLoop, UpStages
  <2>2. next \in {"build", "networks", "volumes", "secrets", "pod", "walk"}
    BY <1>2, <2>1, UpNext
  <2> QED
    BY <1>2, <2>2, LoopKinds DEF Stages, UpStages, Sweeping
<1>3. CASE verb[p] \in Downs
  <2>1. pc[p] \in DownStages
    BY <1>1, <1>3 DEF InOwnLoop
  <2>2. /\ pc[p] \in {"rmPod", "rmNetworks", "rmVolumes"} => verb[p] \notin ByLabel
        /\ pc[p] \in {"listPods", "sweepPods", "listVolumes", "sweepVolumes"} => verb[p] \in ByLabel
    BY <1>1 DEF InOwnLoop
  <2>3. /\ next \in {"rmPod", "rmNetworks", "rmVolumes", "listNetworks",
                     "listSecrets", "listPods", "listVolumes"}
        /\ next \in {"rmPod", "rmNetworks", "rmVolumes"} => verb[p] \notin ByLabel
        /\ next \in {"listPods", "listVolumes"} => verb[p] \in ByLabel
        /\ next \in {"rmVolumes", "listVolumes"} => verb[p] \in Removing
    BY <1>3, <2>1, <2>2, DownNext
  <2> QED
    BY <1>3, <2>3, LoopKinds DEF Stages, DownStages, Sweeping, Listing
<1> QED
  BY <1>1, <1>2, <1>3

\* So does one that goes on to its next loop.
LEMMA ProceedKeeps ==
  ASSUME LoopsOK, NEW p \in Projects, NEW failed \in BOOLEAN, Proceed(p, pc[p], failed),
         UNCHANGED verb, Recorded(p), pc[p] \notin Quiet, pc[p] # "walk",
         Following(verb[p], pc[p]) = "end" => failed = err'[p],
         verb[p] \in Ups => ~err'[p]
  PROVE  LoopsOK'
<1>1. PICK next : next = Following(verb[p], pc[p])
  OBVIOUS
<1>2. CASE next = "end"
  <2>1. End(p, IF failed THEN "failed" ELSE "ok")
    BY <1>1, <1>2 DEF Proceed
  <2> QED
    BY <1>1, <1>2, <2>1, EndKeeps
<1>3. CASE next # "end"
  <2>1. pc' = [pc EXCEPT ![p] = next] /\ at' = [at EXCEPT ![p] = Queue(file[p], next)]
    BY <1>1, <1>3 DEF Proceed
  <2>2. pc'[p] = next /\ at'[p] = Queue(file[p], next)
    BY <2>1 DEF LoopsOK
  <2>3. /\ next \in Stages /\ next \notin Quiet /\ next \notin Sweeping /\ next # "rmSecrets"
        /\ verb[p] \in Ups => next \in UpStages
        /\ verb[p] \in Downs => next \in DownStages
        /\ next \in {"rmPod", "rmNetworks", "rmVolumes"} => verb[p] \notin ByLabel
        /\ next \in {"listPods", "listVolumes"} => verb[p] \in ByLabel
        /\ next \in {"rmVolumes", "listVolumes"} => verb[p] \in Removing
    BY <1>1, <1>3, NextLoop
  <2>4. /\ pc' \in [Projects -> Stages] /\ at' \in [Projects -> [Objects -> Steps]]
        /\ err' \in [Projects -> BOOLEAN] /\ verb' \in [Projects -> Ups \cup Downs]
    BY <2>1, <2>3, QueueSteps DEF LoopsOK, Recorded
  <2>5. \A q \in Projects \ {p} : /\ verb'[q] = verb[q] /\ pc'[q] = pc[q]
                                  /\ at'[q] = at[q] /\ err'[q] = err[q]
    BY <2>1 DEF LoopsOK, Recorded
  <2>6. InOwnLoop(p)'
    <3>1. next \notin Working => at'[p] = Nothing
      BY <2>2, QueueSteps DEF Working
    <3>2. next \in UpStages => verb[p] \in Ups
      BY <2>3, LoopFacts DEF UpStages, DownStages
    <3> QED
      BY <2>2, <2>3, <3>1, <3>2 DEF InOwnLoop, Nothing, Sweeping
  <2>7. \A o \in Objects : AtOwnStep(p, o)'
    BY <2>2, QueueSteps DEF AtOwnStep
  <2> QED
    BY <2>4, <2>5, <2>6, <2>7, OneMoves
<1> QED
  BY <1>2, <1>3

\* And one that takes an object of its loop to another step.
LEMMA MoveKeeps ==
  ASSUME LoopsOK, NEW p \in Projects, NEW o \in Objects, NEW s \in Steps, Move(p, o, s),
         UNCHANGED <<verb, pc>>, Recorded(p), pc[p] \in Working,
         pc[p] \in UpStages \ {"secrets"} => UNCHANGED err,
         s # "none" => Kind[o] = Loops[pc[p]],
         s \in {"conflict", "create", "recreate"} => verb[p] \in Ups,
         s = "conflict" => pc[p] \in {"networks", "volumes"},
         s \in {"create", "recreate"} => pc[p] \in {"secrets", "pod"},
         s = "delete" => pc[p] \notin {"networks", "volumes"}
  PROVE  LoopsOK'
<1>1. /\ pc' \in [Projects -> Stages] /\ at' \in [Projects -> [Objects -> Steps]]
      /\ err' \in [Projects -> BOOLEAN] /\ verb' \in [Projects -> Ups \cup Downs]
  BY DEF LoopsOK, Move, Recorded
<1>2. /\ pc'[p] = pc[p] /\ verb'[p] = verb[p] /\ at'[p][o] = s /\ pc[p] # "ok"
      /\ \A x \in Objects \ {o} : at'[p][x] = at[p][x]
      /\ err'[p] = err[p] \/ (err'[p] /\ pc[p] \notin UpStages \ {"secrets"})
  BY LoopKinds DEF LoopsOK, Move, Recorded, Working, Sweeping
<1>3. \A q \in Projects \ {p} : /\ verb'[q] = verb[q] /\ pc'[q] = pc[q]
                                /\ at'[q] = at[q] /\ err'[q] = err[q]
  BY DEF LoopsOK, Move, Recorded
<1>4. InOwnLoop(p) /\ \A x \in Objects : AtOwnStep(p, x)
  BY DEF LoopsOK, Placed
<1>5. InOwnLoop(p)'
  BY <1>2, <1>4 DEF InOwnLoop, Working
<1>6. \A x \in Objects : AtOwnStep(p, x)'
  BY <1>2, <1>4 DEF AtOwnStep
<1> QED
  BY <1>1, <1>3, <1>5, <1>6, OneMoves

LEMMA FailedKeeps ==
  ASSUME LoopsOK, NEW p \in Projects, NEW o \in Objects, Failed(p, o), UNCHANGED verb,
         pc[p] \in Working
  PROVE  LoopsOK'
<1>1. Recorded(p)
  BY DEF Failed, Recorded
<1>2. CASE End(p, "failed")
  BY <1>1, <1>2, EndKeeps
<1>3. CASE Move(p, o, "none") /\ UNCHANGED pc /\ (verb[p] \notin Ups \/ pc[p] = "secrets")
  <2>1. pc[p] \notin UpStages \ {"secrets"}
    BY <1>3, LoopFacts
  <2> QED
    BY <1>1, <1>3, <2>1, MoveKeeps DEF Steps
<1> QED
  BY <1>2, <1>3 DEF Failed

LEMMA FineKeeps ==
  ASSUME LoopsOK, NEW p \in Projects, NEW o \in Objects, NEW s \in Steps, Fine(p, o, s),
         UNCHANGED verb, pc[p] \in Working,
         s # "none" => Kind[o] = Loops[pc[p]],
         s \in {"conflict", "create", "recreate"} => verb[p] \in Ups,
         s = "conflict" => pc[p] \in {"networks", "volumes"},
         s \in {"create", "recreate"} => pc[p] \in {"secrets", "pod"},
         s = "delete" => pc[p] \notin {"networks", "volumes"}
  PROVE  LoopsOK'
  BY MoveKeeps DEF Fine, Recorded

\* Where the loops are after each step: on the way up,
LEMMA UpKeepsLoops ==
  ASSUME LoopsOK, NEW p \in Projects, NEW o \in Objects, Up(p, o)
  PROVE  LoopsOK'
<1>a. /\ verb[p] \in Ups \cup Downs
      /\ pc[p] \in UpStages => verb[p] \in Ups
      /\ pc[p] \in DownStages => verb[p] \in Downs
      /\ at[p][o] # "none" /\ pc[p] \in DOMAIN Loops => Kind[o] = Loops[pc[p]]
  BY LoopFacts
<1>b. DOMAIN Loops \cup Sweeping \subseteq Working
  BY DEF Working
<1> USE <1>a, <1>b, LoopKinds DEF UpStages, Steps
<1>1. CASE EnsureExternal(p, o)
  BY <1>1, FineKeeps, FailedKeeps DEF EnsureExternal, input
<1>2. CASE CreateNetwork(p, o)
  <2>1. pc[p] = "networks" /\ at[p][o] = "todo" /\ UNCHANGED verb /\ verb[p] \in Ups
    BY <1>2 DEF CreateNetwork, Create, MayStart, input
  <2>2. Fine(p, o, "none") \/ Failed(p, o) \/ Fine(p, o, "conflict")
    BY <1>2 DEF CreateNetwork, Create, Created
  <2>3. pc[p] \in Working /\ Kind[o] = Loops[pc[p]]
    BY <2>1
  <2>4. CASE Failed(p, o)
    BY <2>1, <2>3, <2>4, FailedKeeps
  <2>5. CASE Fine(p, o, "none")
    BY <2>1, <2>3, <2>5, FineKeeps
  <2>6. CASE Fine(p, o, "conflict")
    BY <2>1, <2>3, <2>6, FineKeeps
  <2> QED
    BY <2>2, <2>4, <2>5, <2>6
<1>3. CASE CreateVolume(p, o)
  <2>1. pc[p] = "volumes" /\ at[p][o] = "todo" /\ UNCHANGED verb /\ verb[p] \in Ups
    BY <1>3 DEF CreateVolume, Create, MayStart, input
  <2>2. Fine(p, o, "none") \/ Failed(p, o) \/ Fine(p, o, "conflict")
    BY <1>3 DEF CreateVolume, Create, Created
  <2>3. pc[p] \in Working /\ Kind[o] = Loops[pc[p]]
    BY <2>1
  <2>4. CASE Failed(p, o)
    BY <2>1, <2>3, <2>4, FailedKeeps
  <2>5. CASE Fine(p, o, "none")
    BY <2>1, <2>3, <2>5, FineKeeps
  <2>6. CASE Fine(p, o, "conflict")
    BY <2>1, <2>3, <2>6, FineKeeps
  <2> QED
    BY <2>2, <2>4, <2>5, <2>6
<1>4. CASE NetworkConflict(p, o) \/ VolumeConflict(p, o)
  <2>1. pc[p] \in {"networks", "volumes"} /\ at[p][o] = "conflict" /\ UNCHANGED verb
    BY <1>4 DEF NetworkConflict, VolumeConflict, Conflict, input
  <2>2. Fine(p, o, "none") \/ Failed(p, o)
    BY <1>4 DEF NetworkConflict, VolumeConflict, Conflict
  <2>3. pc[p] \in Working /\ Kind[o] = Loops[pc[p]]
    BY <2>1
  <2>4. CASE Failed(p, o)
    BY <2>1, <2>3, <2>4, FailedKeeps
  <2>5. CASE Fine(p, o, "none")
    BY <2>1, <2>3, <2>5, FineKeeps
  <2> QED
    BY <2>2, <2>4, <2>5
<1>5. CASE InspectSecret(p, o)
  <2>1. pc[p] = "secrets" /\ at[p][o] = "todo" /\ UNCHANGED verb /\ verb[p] \in Ups
    BY <1>5 DEF InspectSecret, MayStart, input
  <2>2. Fine(p, o, "delete") \/ Fine(p, o, "create") \/ Failed(p, o)
    BY <1>5 DEF InspectSecret
  <2>3. pc[p] \in Working /\ Kind[o] = Loops[pc[p]]
    BY <2>1
  <2>4. CASE Failed(p, o)
    BY <2>1, <2>3, <2>4, FailedKeeps
  <2>5. CASE Fine(p, o, "delete")
    BY <2>1, <2>3, <2>5, FineKeeps
  <2>6. CASE Fine(p, o, "create")
    BY <2>1, <2>3, <2>6, FineKeeps
  <2> QED
    BY <2>2, <2>4, <2>5, <2>6
<1>6. CASE InspectPod(p, o)
  <2>1. pc[p] = "pod" /\ at[p][o] = "todo" /\ UNCHANGED verb /\ verb[p] \in Ups
    BY <1>6 DEF InspectPod, MayStart, input
  <2>2. Fine(p, o, "none") \/ Fine(p, o, "delete") \/ Fine(p, o, "create") \/ Failed(p, o)
    BY <1>6 DEF InspectPod
  <2>3. pc[p] \in Working /\ Kind[o] = Loops[pc[p]]
    BY <2>1
  <2>4. CASE Failed(p, o)
    BY <2>1, <2>3, <2>4, FailedKeeps
  <2>5. CASE Fine(p, o, "none")
    BY <2>1, <2>3, <2>5, FineKeeps
  <2>6. CASE Fine(p, o, "delete")
    BY <2>1, <2>3, <2>6, FineKeeps
  <2>7. CASE Fine(p, o, "create")
    BY <2>1, <2>3, <2>7, FineKeeps
  <2> QED
    BY <2>2, <2>4, <2>5, <2>6, <2>7
<1>7. CASE CreateAfterLook(p, o)
  <2>1. at[p][o] \in {"create", "recreate"} /\ UNCHANGED verb
    BY <1>7 DEF CreateAfterLook, input
  <2>2. pc[p] \in {"secrets", "pod"}
    BY <2>1 DEF LoopsOK, Placed, AtOwnStep
  <2>3. Fine(p, o, "none") \/ Failed(p, o)
    BY <1>7 DEF CreateAfterLook, Created
  <2> QED
    BY <2>1, <2>2, <2>3, FineKeeps, FailedKeeps
<1>8. CASE DeleteStaleSecret(p, o) \/ DeleteStalePod(p, o)
  <2>1. pc[p] \in {"secrets", "pod"} /\ at[p][o] = "delete" /\ UNCHANGED verb /\ verb[p] \in Ups
    BY <1>8 DEF DeleteStaleSecret, DeleteStalePod, Delete, input
  <2>2. Fine(p, o, "recreate") \/ Failed(p, o)
    BY <1>8, <2>1 DEF DeleteStaleSecret, DeleteStalePod, Delete, AfterDelete
  <2>3. Kind[o] = Loops[pc[p]]
    BY <2>1 DEF LoopsOK, Placed, AtOwnStep
  <2>4. CASE Failed(p, o)
    BY <2>1, <2>3, <2>4, FailedKeeps
  <2>5. CASE Fine(p, o, "recreate")
    BY <2>1, <2>3, <2>5, FineKeeps
  <2> QED
    BY <2>2, <2>4, <2>5
<1> QED
  BY <1>1, <1>2, <1>3, <1>4, <1>5, <1>6, <1>7, <1>8 DEF Up

\* on the way down,
LEMMA DownKeepsLoops ==
  ASSUME LoopsOK, NEW p \in Projects, NEW o \in Objects, Down(p, o)
  PROVE  LoopsOK'
<1>a. /\ verb[p] \in Ups \cup Downs
      /\ pc[p] \in UpStages => verb[p] \in Ups
      /\ pc[p] \in DownStages => verb[p] \in Downs
      /\ at[p][o] # "none" /\ pc[p] \in DOMAIN Loops => Kind[o] = Loops[pc[p]]
  BY LoopFacts
<1>b. DOMAIN Loops \cup Sweeping \subseteq Working
  BY DEF Working
<1> USE <1>a, <1>b, LoopKinds DEF DownStages, Steps, Sweeping
<1>1. CASE CheckPod(p, o) \/ CheckNetwork(p, o) \/ CheckVolume(p, o) \/ CheckSecret(p, o)
  <2>1. pc[p] \in {"rmPod", "rmNetworks", "rmVolumes", "rmSecrets"} /\ at[p][o] = "todo" /\ UNCHANGED verb
    BY <1>1 DEF CheckPod, CheckNetwork, CheckVolume, CheckSecret, Check, MayStart, input
  <2>2. Fine(p, o, "none") \/ Fine(p, o, "delete") \/ Failed(p, o)
    BY <1>1 DEF CheckPod, CheckNetwork, CheckVolume, CheckSecret, Check
  <2>3. pc[p] \in Working /\ Kind[o] = Loops[pc[p]]
    BY <2>1
  <2>4. CASE Failed(p, o)
    BY <2>1, <2>3, <2>4, FailedKeeps
  <2>5. CASE Fine(p, o, "none")
    BY <2>1, <2>3, <2>5, FineKeeps
  <2>6. CASE Fine(p, o, "delete")
    BY <2>1, <2>3, <2>6, FineKeeps
  <2> QED
    BY <2>2, <2>4, <2>5, <2>6
<1>2. CASE \/ DeletePod(p, o) \/ DeleteNetwork(p, o) \/ DeleteVolume(p, o) \/ DeleteSecret(p, o)
           \/ SweepPod(p, o) \/ SweepNetwork(p, o) \/ SweepVolume(p, o) \/ SweepSecret(p, o)
  <2>1. /\ pc[p] \in {"rmPod", "rmNetworks", "rmVolumes", "rmSecrets", "sweepPods", "sweepNetworks",
                      "sweepVolumes", "sweepSecrets"}
        /\ Delete(p, o)
    BY <1>2 DEF DeletePod, DeleteNetwork, DeleteVolume, DeleteSecret,
                SweepPod, SweepNetwork, SweepVolume, SweepSecret
  <2>2. verb[p] \in Downs /\ UNCHANGED verb
    BY <2>1 DEF Delete, input
  <2>3. Fine(p, o, "none") \/ Failed(p, o)
    BY <2>1, <2>2 DEF Delete, AfterDelete
  <2> QED
    BY <2>1, <2>2, <2>3, FineKeeps, FailedKeeps
<1> QED
  BY <1>1, <1>2 DEF Down

\* and in the steps that are not about one object.
LEMMA BeginKeepsLoops ==
  ASSUME LoopsOK, NEW p \in Projects, NEW v \in VerbsOf[p], NEW f, Begin(p, v, f)
  PROVE  LoopsOK'
<1>1. v \in Ups \cup Downs
  BY FileAssumption
<1>2. PICK next : next = Following(v, "start")
  OBVIOUS
<1>3. /\ next \in {"check", "members"}
      /\ v \in Ups => next = "check"
      /\ v \in Downs => next = "members"
  <2>1. v \in Ups => next = "check"
    BY <1>2, UpOrder
  <2>2. v \in ByLabel => next = "members"
    BY <1>2, LabelOrder
  <2>3. v \in Downs \ ByLabel => next = "members"
    BY <1>2, DownOrder
  <2>4. v \in Downs => next = "members"
    <3>1. v \in Downs => v \in ByLabel \/ v \in Downs \ ByLabel
      OBVIOUS
    <3> QED
      BY <2>2, <2>3, <3>1
  <2> QED
    BY <1>1, <2>1, <2>4
<1>4. Queue(f, next) = Nothing
  <2>1. next \notin DOMAIN Loops
    BY <1>3, LoopKinds
  <2> QED
    BY <2>1, QueueSteps
<1>5. /\ verb' = [verb EXCEPT ![p] = v] /\ pc' = [pc EXCEPT ![p] = next]
      /\ at' = [at EXCEPT ![p] = Nothing] /\ err' = [err EXCEPT ![p] = FALSE]
  BY <1>2, <1>4 DEF Begin
<1>6. /\ verb' \in [Projects -> Ups \cup Downs] /\ pc' \in [Projects -> Stages]
      /\ at' \in [Projects -> [Objects -> Steps]] /\ err' \in [Projects -> BOOLEAN]
  <2>1. next \in Stages
    BY <1>3 DEF Stages
  <2> QED
    BY <1>1, <1>5, <2>1, NothingSteps DEF LoopsOK
<1>7. \A q \in Projects \ {p} : /\ verb'[q] = verb[q] /\ pc'[q] = pc[q]
                                /\ at'[q] = at[q] /\ err'[q] = err[q]
  BY <1>5 DEF LoopsOK
<1>8. verb'[p] = v /\ pc'[p] = next /\ at'[p] = Nothing /\ err'[p] = FALSE
  BY <1>5 DEF LoopsOK
<1>9. InOwnLoop(p)'
  BY <1>3, <1>8 DEF InOwnLoop, UpStages, DownStages, Nothing
<1>10. \A o \in Objects : AtOwnStep(p, o)'
  BY <1>8, NothingSteps DEF AtOwnStep
<1> QED
  BY <1>6, <1>7, <1>9, <1>10, OneMoves

LEMMA ListedKeeps ==
  ASSUME LoopsOK, NEW p \in Projects, NEW kind, NEW sweep \in Sweeping,
         UNCHANGED verb, Listed(p, kind, sweep), verb[p] \in Downs,
         sweep \in {"sweepPods", "sweepVolumes"} => verb[p] \in ByLabel,
         sweep = "sweepVolumes" => verb[p] \in Removing
  PROVE  LoopsOK'
<1> DEFINE mine == {o \in Objects : Kind[o] = kind /\ host[o] = p}
           todo == [o \in Objects |-> IF o \in mine THEN "delete" ELSE "none"]
<1>1. pc' = [pc EXCEPT ![p] = sweep] /\ at' = [at EXCEPT ![p] = todo] /\ err' = err
  BY DEF Listed
<1>2. todo \in [Objects -> Steps] /\ \A o \in Objects : todo[o] \in {"delete", "none"}
  BY DEF Steps
<1>3. sweep \in Stages
  BY DEF Stages
<1> HIDE DEF todo
<1>4. /\ verb' \in [Projects -> Ups \cup Downs] /\ pc' \in [Projects -> Stages]
      /\ at' \in [Projects -> [Objects -> Steps]] /\ err' \in [Projects -> BOOLEAN]
  BY <1>1, <1>2, <1>3 DEF LoopsOK
<1>5. \A q \in Projects \ {p} : /\ verb'[q] = verb[q] /\ pc'[q] = pc[q]
                                /\ at'[q] = at[q] /\ err'[q] = err[q]
  BY <1>1 DEF LoopsOK
<1>6. verb'[p] = verb[p] /\ pc'[p] = sweep /\ at'[p] = todo
  BY <1>1 DEF LoopsOK
<1>7. InOwnLoop(p)'
  BY <1>6 DEF InOwnLoop, Sweeping, UpStages, DownStages, Working, Nothing
<1>8. \A o \in Objects : AtOwnStep(p, o)'
  BY <1>2, <1>6, LoopKinds DEF AtOwnStep, Sweeping
<1> QED
  BY <1>4, <1>5, <1>7, <1>8, OneMoves

LEMMA ListKeepsLoops ==
  ASSUME LoopsOK, NEW p \in Projects, List(p)
  PROVE  LoopsOK'
<1>1. /\ UNCHANGED verb /\ InOwnLoop(p)
      /\ pc[p] \in Listing /\ pc[p] \notin Quiet /\ pc[p] # "walk"
  BY DEF List, input, ListPods, ListNetworks, ListVolumes, ListSecrets, LoopsOK, Placed, Listing
<1>2. verb[p] \in Downs /\ verb[p] \notin Ups
  <2>1. verb[p] \in Downs
    BY <1>1, LoopFacts DEF Listing, DownStages
  <2> QED
    BY <2>1
<1>3. CASE NotListed(p)
  <2>1. Recorded(p) /\ Proceed(p, pc[p], TRUE)
    BY <1>3 DEF NotListed, Recorded
  <2>2. err'[p] = TRUE
    BY <1>3 DEF NotListed, LoopsOK
  <2> QED
    BY <1>1, <1>2, <2>1, <2>2, ProceedKeeps
<1>4. CASE pc[p] = "listPods" /\ Listed(p, "pod", "sweepPods")
  <2>1. verb[p] \in ByLabel
    BY <1>1, <1>4 DEF InOwnLoop
  <2> QED
    BY <1>1, <1>2, <1>4, <2>1, ListedKeeps DEF Sweeping
<1>5. CASE pc[p] = "listNetworks" /\ Listed(p, "network", "sweepNetworks")
  BY <1>1, <1>2, <1>5, ListedKeeps DEF Sweeping
<1>6. CASE pc[p] = "listVolumes" /\ Listed(p, "volume", "sweepVolumes")
  <2>1. verb[p] \in ByLabel /\ verb[p] \in Removing
    BY <1>1, <1>6 DEF InOwnLoop
  <2> QED
    BY <1>1, <1>2, <1>6, <2>1, ListedKeeps DEF Sweeping
<1>7. CASE pc[p] = "listSecrets" /\ Listed(p, "secret", "sweepSecrets")
  BY <1>1, <1>2, <1>7, ListedKeeps DEF Sweeping
<1>8. CASE /\ err' = [err EXCEPT ![p] = TRUE]
           /\ pc' = [pc EXCEPT ![p] = "rmSecrets"]
           /\ at' = [at EXCEPT ![p] = Queue(file[p], "rmSecrets")]
  <2>1. "rmSecrets" \in Stages
    BY LoopKinds DEF Stages
  <2>2. /\ verb' \in [Projects -> Ups \cup Downs] /\ pc' \in [Projects -> Stages]
        /\ at' \in [Projects -> [Objects -> Steps]] /\ err' \in [Projects -> BOOLEAN]
    BY <1>1, <1>8, <2>1, QueueSteps DEF LoopsOK
  <2>3. \A q \in Projects \ {p} : /\ verb'[q] = verb[q] /\ pc'[q] = pc[q]
                                  /\ at'[q] = at[q] /\ err'[q] = err[q]
    BY <1>1, <1>8 DEF LoopsOK
  <2>4. /\ verb'[p] = verb[p] /\ pc'[p] = "rmSecrets" /\ err'[p]
        /\ at'[p] = Queue(file[p], "rmSecrets")
    BY <1>1, <1>8 DEF LoopsOK
  <2>5. InOwnLoop(p)'
    BY <1>2, <2>4, LoopKinds DEF InOwnLoop, UpStages, DownStages, Working
  <2>6. \A o \in Objects : AtOwnStep(p, o)'
    BY <2>4, QueueSteps DEF AtOwnStep
  <2> QED
    BY <2>2, <2>3, <2>5, <2>6, OneMoves
<1> QED
  BY <1>3, <1>4, <1>5, <1>6, <1>7, <1>8 DEF List, ListPods, ListNetworks, ListVolumes, ListSecrets

LEMMA CommandKeepsLoops ==
  ASSUME LoopsOK, NEW p \in Projects, Command(p)
  PROVE  LoopsOK'
<1>1. CASE \E v \in VerbsOf[p], f \in FilesOf[p] \cup {NoFile} : Begin(p, v, f)
  BY <1>1, BeginKeepsLoops
<1>2. CASE \E o \in Objects : Up(p, o) \/ Down(p, o)
  BY <1>2, UpKeepsLoops, DownKeepsLoops
<1>3. CASE Reject(p) \/ UnreadableSecret(p)
  <2>1. End(p, "failed") /\ UNCHANGED verb /\ Recorded(p)
    BY <1>3 DEF Reject, UnreadableSecret, Recorded, input
  <2> QED
    BY <2>1, EndKeeps
<1>4. CASE Snapshot(p) \/ Build(p)
  <2>1. pc[p] \in {"check", "build"} /\ UNCHANGED verb /\ Recorded(p)
    BY <1>4 DEF Snapshot, Build, Recorded, input
  <2>2. CASE End(p, "failed")
    BY <2>1, <2>2, EndKeeps
  <2>3. CASE Proceed(p, pc[p], FALSE) /\ UNCHANGED err
    <3>1. verb[p] \in Ups
      BY <2>1, LoopFacts DEF UpStages
    <3>2. Following(verb[p], pc[p]) # "end"
      BY <2>1, <3>1, UpOrder
    <3>3. ~err[p]
      BY <2>1 DEF LoopsOK, Placed, InOwnLoop, UpStages
    <3> QED
      BY <2>1, <2>3, <3>2, <3>3, ProceedKeeps
  <2> QED
    BY <1>4, <2>2, <2>3 DEF Snapshot, Build
<1>5. CASE Advance(p)
  <2>1. pc[p] \in Working /\ UNCHANGED <<verb, err>> /\ Recorded(p)
    BY <1>5 DEF Advance, Recorded, input
  <2>2. CASE End(p, "failed")
    BY <2>1, <2>2, EndKeeps
  <2>3. CASE Proceed(p, pc[p], err[p]) /\ ~(verb[p] \in Ups /\ err[p])
    <3>1. pc[p] \notin Quiet /\ pc[p] # "walk"
      BY <2>1, LoopKinds DEF Working, Sweeping
    <3>2. err[p] \in BOOLEAN
      BY DEF LoopsOK
    <3> QED
      BY <2>1, <2>3, <3>1, <3>2, ProceedKeeps
  <2> QED
    BY <1>5, <2>2, <2>3 DEF Advance
<1>6. CASE Walk(p)
  <2>1. pc[p] = "walk" /\ UNCHANGED verb /\ Recorded(p)
    BY <1>6 DEF Walk, Recorded, input
  <2>2. CASE End(p, "failed")
    BY <2>1, <2>2, EndKeeps
  <2>3. CASE End(p, "ok") /\ UNCHANGED err
    <3>1. ~err[p]
      BY <2>1 DEF LoopsOK, Placed, InOwnLoop, UpStages
    <3> QED
      BY <2>1, <2>3, <3>1, EndKeeps
  <2> QED
    BY <1>6, <2>2, <2>3 DEF Walk
<1>7. CASE RemoveMembers(p)
  <2>1. /\ pc[p] = "members" /\ UNCHANGED verb /\ Recorded(p)
        /\ Proceed(p, pc[p], err'[p]) /\ err'[p] \in BOOLEAN
    BY <1>7 DEF RemoveMembers, Recorded, input, LoopsOK
  <2>2. verb[p] \notin Ups
    BY <2>1, LoopFacts DEF DownStages
  <2> QED
    BY <2>1, <2>2, ProceedKeeps
<1>8. CASE List(p)
  BY <1>8, ListKeepsLoops
<1>9. CASE Kill(p)
  <2>1. End(p, "killed") /\ UNCHANGED verb /\ Recorded(p)
    BY <1>9 DEF Kill, Recorded, input
  <2> QED
    BY <2>1, EndKeeps
<1> QED
  BY <1>1, <1>2, <1>3, <1>4, <1>5, <1>6, <1>7, <1>8, <1>9
  DEF Command, InvalidName, PodRefused, UnknownService, SpecRefused, NameShared

(***************************************************************************)
(* The types of the rest of the state.                                     *)
(***************************************************************************)

DataOK ==
  /\ host \in [Objects -> Owners]
  /\ members \in [Projects -> BOOLEAN]
  /\ file \in [Projects -> Files]
  /\ existing \in [Projects -> BOOLEAN]
  /\ saw \in [Projects -> [Objects -> Owners \cup {Unseen, Taken}]]
  /\ lost \in [Projects -> SUBSET Objects]
  /\ hit \in [Projects -> SUBSET (Owners \cup {Unseen, Taken})]
  /\ runs \in [Projects -> Nat]
  /\ hands \in [Objects -> Nat]

LEMMA TypeSplit == TypeOK /\ Placed <=> LoopsOK /\ DataOK
  BY DEF TypeOK, LoopsOK, DataOK

\* A step of a command begins it, looks something up, lists, has something
\* created or deleted, lists the containers, or changes the containers.
LEMMA DeleteData ==
  ASSUME DataOK, NEW p \in Projects, NEW o \in Objects, Delete(p, o)
  PROVE  DataOK'
<1>1. CASE UNCHANGED <<host, members, hit, lost, saw>>
  BY <1>1 DEF Delete, DataOK, input
<1>2. CASE
        /\ host' = [host EXCEPT ![o] = Absent]
        /\ members' = [q \in Projects |-> members[q] /\ ~(Kind[o] = "pod" /\ host[o] = q)]
        /\ hit' = [hit EXCEPT ![p] = IF host[o] \in {p, Absent} THEN @ ELSE @ \cup {saw[p][o]}]
        /\ lost' = [q \in Projects |-> IF host[o] = q /\ q # p THEN lost[q] \cup {o} ELSE lost[q]]
        /\ saw' = [q \in Projects |-> IF host[o] = q /\ q # p THEN [saw[q] EXCEPT ![o] = Taken] ELSE saw[q]]
  <2>1. /\ host' \in [Objects -> Owners]
        /\ members' \in [Projects -> BOOLEAN]
    BY <1>2 DEF DataOK, Owners
  <2>2. /\ lost' \in [Projects -> SUBSET Objects]
        /\ saw' \in [Projects -> [Objects -> Owners \cup {Unseen, Taken}]]
    BY <1>2 DEF DataOK
  <2>3. hit' \in [Projects -> SUBSET (Owners \cup {Unseen, Taken})]
    BY <1>2 DEF DataOK
  <2> QED
    BY <2>1, <2>2, <2>3 DEF Delete, DataOK, input
<1> QED
  BY <1>1, <1>2 DEF Delete

LEMMA LookData ==
  ASSUME DataOK, NEW p \in Projects, NEW o \in Objects, Look(p, o),
         UNCHANGED <<host, members, input, existing, lost, hit>>
  PROVE  DataOK'
<1>1. host[o] \in Owners /\ saw \in [Projects -> [Objects -> Owners \cup {Unseen, Taken}]]
  BY DEF DataOK
<1>2. saw' \in [Projects -> [Objects -> Owners \cup {Unseen, Taken}]]
  BY <1>1 DEF Look
<1> QED
  BY <1>2 DEF DataOK, input

LEMMA BeginData ==
  ASSUME DataOK, NEW p \in Projects, NEW v \in VerbsOf[p], NEW f \in FilesOf[p] \cup {NoFile},
         Begin(p, v, f)
  PROVE  DataOK'
<1>1. /\ UNCHANGED <<host, members, hands>>
      /\ existing' = [existing EXCEPT ![p] = FALSE]
      /\ lost' = [lost EXCEPT ![p] = {}]
      /\ hit' = [hit EXCEPT ![p] = {}]
  BY DEF Begin
<1>2. file' \in [Projects -> Files]
  <2>1. f \in Files
    BY DEF Files
  <2>2. file' = [file EXCEPT ![p] = f] /\ file \in [Projects -> Files]
    BY DEF Begin, DataOK
  <2> QED
    BY <2>1, <2>2
<1>3. saw' \in [Projects -> [Objects -> Owners \cup {Unseen, Taken}]]
  BY DEF Begin, DataOK
<1>4. runs' \in [Projects -> Nat]
  <2>1. runs' = [runs EXCEPT ![p] = @ + 1] /\ runs \in [Projects -> Nat]
    BY DEF Begin, DataOK
  <2> QED
    BY <2>1
<1> QED
  BY <1>1, <1>2, <1>3, <1>4 DEF DataOK

LEMMA CommandData ==
  ASSUME DataOK, NEW p \in Projects, Command(p)
  PROVE  DataOK'
<1>1. CASE \E v \in VerbsOf[p], f \in FilesOf[p] \cup {NoFile} : Begin(p, v, f)
  BY <1>1, BeginData
<1>2. ASSUME NEW o \in Objects, Up(p, o) PROVE DataOK'
  <2>1. CASE EnsureExternal(p, o)
    BY <2>1 DEF EnsureExternal, DataOK, input
  <2>2. CASE CreateNetwork(p, o) \/ CreateVolume(p, o)
    <3>1. Create(p, o)
      BY <2>2 DEF CreateNetwork, CreateVolume
    <3>2. host' = [host EXCEPT ![o] = p] \/ UNCHANGED host
      BY <3>1 DEF Create, Created
    <3> QED
      BY <3>1, <3>2 DEF Create, DataOK, input, Owners
  <2>3. CASE NetworkConflict(p, o) \/ VolumeConflict(p, o)
    BY <2>3, LookData DEF NetworkConflict, VolumeConflict, Conflict
  <2>4. CASE InspectSecret(p, o) \/ InspectPod(p, o)
    BY <2>4, LookData DEF InspectSecret, InspectPod
  <2>5. CASE CreateAfterLook(p, o)
    <3>1. ListAfter(p, o) \in BOOLEAN
      BY DEF ListAfter, DataOK
    <3> QED
      BY <2>5, <3>1 DEF CreateAfterLook, Created, DataOK, input, Owners
  <2>6. CASE DeleteStaleSecret(p, o) \/ DeleteStalePod(p, o)
    BY <2>6, DeleteData DEF DeleteStaleSecret, DeleteStalePod
  <2> QED
    BY <1>2, <2>1, <2>2, <2>3, <2>4, <2>5, <2>6 DEF Up
<1>3. ASSUME NEW o \in Objects, Down(p, o) PROVE DataOK'
  <2>1. CASE CheckPod(p, o) \/ CheckNetwork(p, o) \/ CheckVolume(p, o) \/ CheckSecret(p, o)
    BY <2>1, LookData DEF CheckPod, CheckNetwork, CheckVolume, CheckSecret, Check
  <2>2. CASE Delete(p, o)
    BY <2>2, DeleteData
  <2> QED
    BY <1>3, <2>1, <2>2 DEF Down, DeletePod, DeleteNetwork, DeleteVolume, DeleteSecret,
       SweepPod, SweepNetwork, SweepVolume, SweepSecret
<1>4. CASE Reject(p) \/ UnreadableSecret(p) \/ Build(p) \/ Advance(p) \/ Kill(p)
  BY <1>4 DEF Reject, UnreadableSecret, Build, Advance, Kill, DataOK, input
<1>5. CASE Snapshot(p)
  BY <1>5 DEF Snapshot, DataOK, input
<1>6. CASE Walk(p) \/ RemoveMembers(p)
  BY <1>6 DEF Walk, RemoveMembers, DataOK, input
<1>7. CASE List(p)
  <2>1. CASE UNCHANGED saw
    BY <1>7, <2>1 DEF List, DataOK, input
  <2>2. ASSUME NEW kind, NEW sweep, Listed(p, kind, sweep) PROVE DataOK'
    BY <1>7, <2>2 DEF List, Listed, DataOK, input, Owners
  <2> QED
    BY <1>7, <2>1, <2>2 DEF List, ListPods, ListNetworks, ListVolumes, ListSecrets, NotListed
<1> QED
  BY <1>1, <1>2, <1>3, <1>4, <1>5, <1>6, <1>7
  DEF Command, InvalidName, PodRefused, UnknownService, SpecRefused, NameShared

LEMMA ByHandData ==
  ASSUME DataOK, NEW o \in Objects, MakeByHand(o) \/ RemoveByHand(o)
  PROVE  DataOK'
<1>1. CASE MakeByHand(o)
  BY <1>1 DEF MakeByHand, DataOK, Owners
<1>2. CASE RemoveByHand(o)
  BY <1>2 DEF RemoveByHand, DataOK, Owners
<1> QED
  BY <1>1, <1>2

LEMMA SameLoops ==
  ASSUME LoopsOK, UNCHANGED <<verb, pc, at, err>>
  PROVE  LoopsOK'
<1>1. ASSUME NEW p \in Projects PROVE InOwnLoop(p)'
  <2>1. InOwnLoop(p)
    BY DEF LoopsOK, Placed
  <2> QED
    BY <2>1 DEF InOwnLoop, Nothing
<1>2. ASSUME NEW p \in Projects, NEW o \in Objects PROVE AtOwnStep(p, o)'
  <2>1. AtOwnStep(p, o)
    BY DEF LoopsOK, Placed
  <2> QED
    BY <2>1 DEF AtOwnStep
<1> QED
  BY <1>1, <1>2 DEF LoopsOK, Placed

LEMMA TypesKept ==
  ASSUME LoopsOK, DataOK, [Next]_vars
  PROVE  LoopsOK' /\ DataOK'
<1>1. CASE UNCHANGED vars
  BY <1>1, SameLoops DEF vars, DataOK
<1>2. ASSUME NEW p \in Projects, Command(p) PROVE LoopsOK' /\ DataOK'
  BY <1>2, CommandKeepsLoops, CommandData
<1>3. ASSUME NEW o \in Objects, MakeByHand(o) \/ RemoveByHand(o) PROVE LoopsOK' /\ DataOK'
  <2>1. UNCHANGED <<verb, pc, at, err>>
    BY <1>3 DEF MakeByHand, RemoveByHand
  <2>2. LoopsOK'
    BY <2>1, SameLoops
  <2> QED
    BY <1>3, <2>2, ByHandData
<1> QED
  BY <1>1, <1>2, <1>3 DEF Next

LEMMA TypesBegin == Init => LoopsOK /\ DataOK
<1> SUFFICES ASSUME Init PROVE LoopsOK /\ DataOK
  OBVIOUS
<1>1. LoopsOK
  <2>1. /\ verb \in [Projects -> Ups \cup Downs] /\ pc \in [Projects -> Stages]
        /\ at \in [Projects -> [Objects -> Steps]] /\ err \in [Projects -> BOOLEAN]
    BY NothingSteps DEF Init, Stages
  <2>2. ASSUME NEW p \in Projects PROVE pc[p] = "idle" /\ at[p] = Nothing
    BY DEF Init
  <2>3. ASSUME NEW p \in Projects PROVE InOwnLoop(p)
    BY <2>2 DEF InOwnLoop, UpStages
  <2>4. ASSUME NEW p \in Projects, NEW o \in Objects PROVE AtOwnStep(p, o)
    BY <2>2, NothingSteps DEF AtOwnStep
  <2> QED
    BY <2>1, <2>3, <2>4 DEF LoopsOK, Placed
<1>2. /\ host \in [Objects -> Owners] /\ members \in [Projects -> BOOLEAN]
      /\ existing \in [Projects -> BOOLEAN]
      /\ saw \in [Projects -> [Objects -> Owners \cup {Unseen, Taken}]]
      /\ lost \in [Projects -> SUBSET Objects]
      /\ hit \in [Projects -> SUBSET (Owners \cup {Unseen, Taken})]
      /\ runs \in [Projects -> Nat] /\ hands \in [Objects -> Nat]
  BY DEF Init, Owners
<1>3. file \in [Projects -> Files]
  BY DEF Init, Files
<1> QED
  BY <1>1, <1>2, <1>3 DEF DataOK

(***************************************************************************)
(* Nothing is removed that was not vouched for.                            *)
(***************************************************************************)

Vouch(p, o) ==
  at[p][o] = "delete" => saw[p][o] \in {Absent, Taken} \/ (saw[p][o] = p /\ host[o] = p)

\* What a step of one command, or of somebody else, may do to what another
\* command has seen of an object.
KeptFor(q, o) ==
  \/ saw'[q][o] = saw[q][o] /\ (host'[o] = host[o] \/ host[o] # q)
  \/ saw'[q][o] = Taken

LEMMA OthersVouched ==
  ASSUME Vouched, NEW q \in Projects, NEW o \in Objects,
         at'[q][o] = "delete" => at[q][o] = "delete", KeptFor(q, o)
  PROVE  Vouch(q, o)'
  BY DEF Vouched, Vouch, KeptFor

\* A command that is now with object o.
LEMMA OneVouched ==
  ASSUME LoopsOK, Vouched, NEW p \in Projects, NEW o \in Objects, NEW s \in Steps,
         Fine(p, o, s) \/ Failed(p, o),
         \A q \in Projects, x \in Objects : q # p \/ x # o => KeptFor(q, x),
         s = "delete" => Vouch(p, o)'
  PROVE  Vouched'
<1>1. \/ at' = [at EXCEPT ![p][o] = s]
      \/ at' = [at EXCEPT ![p][o] = "none"]
      \/ at' = [at EXCEPT ![p] = Nothing]
  BY DEF Fine, Failed, Move, End
<1>2. at \in [Projects -> [Objects -> Steps]]
  BY DEF LoopsOK
<1>3. ASSUME NEW q \in Projects, NEW x \in Objects, q # p \/ x # o PROVE Vouch(q, x)'
  <2>1. at'[q][x] = "delete" => at[q][x] = "delete"
    BY <1>1, <1>2, <1>3, NothingSteps
  <2> QED
    BY <1>3, <2>1, OthersVouched
<1>4. Vouch(p, o)'
  <2>1. at'[p][o] \in {s, "none"}
    BY <1>1, <1>2, NothingSteps
  <2> QED
    BY <2>1 DEF Vouch
<1> QED
  BY <1>3, <1>4 DEF Vouched, Vouch

\* A command that moves on or ends, or anybody else.
LEMMA MovedVouched ==
  ASSUME Vouched,
         \A q \in Projects, x \in Objects : at'[q][x] = "delete" => at[q][x] = "delete",
         \A q \in Projects, x \in Objects : KeptFor(q, x)
  PROVE  Vouched'
  BY OthersVouched DEF Vouched, Vouch

\* The loops hold no delete when they begin.
LEMMA ProceedDeletes ==
  ASSUME LoopsOK, NEW p \in Projects,
         \/ \E r : End(p, r)
         \/ \E s, failed : Proceed(p, s, failed)
         \/ \E f, s : at' = [at EXCEPT ![p] = Queue(f, s)]
  PROVE  \A q \in Projects, x \in Objects : at'[q][x] = "delete" => at[q][x] = "delete"
<1>1. at' = [at EXCEPT ![p] = Nothing] \/ \E f, s : at' = [at EXCEPT ![p] = Queue(f, s)]
  BY DEF End, Proceed
<1>2. at \in [Projects -> [Objects -> Steps]]
  BY DEF LoopsOK
<1>3. CASE at' = [at EXCEPT ![p] = Nothing]
  BY <1>2, <1>3, NothingSteps
<1>4. ASSUME NEW f, NEW s, at' = [at EXCEPT ![p] = Queue(f, s)]
      PROVE  \A q \in Projects, x \in Objects : at'[q][x] = "delete" => at[q][x] = "delete"
  BY <1>2, <1>4, QueueSteps
<1> QED
  BY <1>1, <1>3, <1>4

\* What each kind of request does to what the others have seen.
LEMMA LookKeeps ==
  ASSUME DataOK, NEW p \in Projects, NEW o \in Objects, Look(p, o), UNCHANGED host
  PROVE  \A q \in Projects, x \in Objects : q # p \/ x # o => KeptFor(q, x)
  BY DEF Look, KeptFor, DataOK

LEMMA CreatedKeeps ==
  ASSUME DataOK, NEW p \in Projects, NEW o \in Objects, UNCHANGED saw,
         Created(p, o) \/ UNCHANGED host
  PROVE  \A q \in Projects, x \in Objects : KeptFor(q, x)
<1>1. ASSUME NEW q \in Projects, NEW x \in Objects PROVE KeptFor(q, x)
  <2>1. host'[x] = host[x] \/ host[x] = Absent
    BY DEF Created, DataOK
  <2>2. q # Absent
    BY OwnerAssumption
  <2> QED
    BY <2>1, <2>2 DEF KeptFor
<1> QED
  BY <1>1

LEMMA DeletedKeeps ==
  ASSUME DataOK, NEW p \in Projects, NEW o \in Objects, Delete(p, o)
  PROVE  \A q \in Projects, x \in Objects : q # p \/ x # o => KeptFor(q, x)
<1>1. CASE UNCHANGED <<host, saw>>
  BY <1>1 DEF KeptFor
<1>2. CASE /\ host' = [host EXCEPT ![o] = Absent]
           /\ saw' = [q \in Projects |-> IF host[o] = q /\ q # p THEN [saw[q] EXCEPT ![o] = Taken] ELSE saw[q]]
  <2>1. ASSUME NEW q \in Projects, NEW x \in Objects, q # p \/ x # o PROVE KeptFor(q, x)
    <3>1. CASE x # o
      BY <1>2, <3>1 DEF KeptFor, DataOK
    <3>2. CASE x = o /\ q # p /\ host[o] = q
      BY <1>2, <3>2 DEF KeptFor, DataOK
    <3>3. CASE x = o /\ q # p /\ host[o] # q
      BY <1>2, <3>3 DEF KeptFor, DataOK
    <3> QED
      BY <2>1, <3>1, <3>2, <3>3
  <2> QED
    BY <2>1
<1> QED
  BY <1>1, <1>2 DEF Delete

LEMMA DeleteVouched ==
  ASSUME LoopsOK, DataOK, Vouched, OnlyIfSeenAbsent, NEW p \in Projects, NEW o \in Objects, Delete(p, o)
  PROVE  Vouched' /\ OnlyIfSeenAbsent'
<1>1. PICK s \in {"recreate", "none"} : Fine(p, o, s) \/ Failed(p, o)
  BY DEF Delete, AfterDelete
<1>2. Vouched'
  <2>1. s \in Steps
    BY <1>1 DEF Steps
  <2> QED
    BY <1>1, <2>1, DeletedKeeps, OneVouched
<1>3. OnlyIfSeenAbsent'
  <2>1. CASE UNCHANGED hit
    BY <2>1 DEF OnlyIfSeenAbsent
  <2>2. CASE hit' = [hit EXCEPT ![p] = IF host[o] \in {p, Absent} THEN @ ELSE @ \cup {saw[p][o]}]
    <3>1. saw[p][o] \in {Absent, Taken} \/ host[o] = p
      BY DEF Vouched, Delete
    <3> QED
      BY <2>2, <3>1 DEF OnlyIfSeenAbsent, DataOK
  <2> QED
    BY <2>1, <2>2 DEF Delete
<1> QED
  BY <1>2, <1>3

LEMMA UpVouched ==
  ASSUME LoopsOK, DataOK, Vouched, OnlyIfSeenAbsent, NEW p \in Projects, NEW o \in Objects, Up(p, o)
  PROVE  Vouched' /\ OnlyIfSeenAbsent'
<1> USE DEF Steps
<1>1. CASE EnsureExternal(p, o)
  <2>1. Fine(p, o, "none") \/ Failed(p, o)
    BY <1>1 DEF EnsureExternal
  <2>2. \A q \in Projects, x \in Objects : KeptFor(q, x)
    BY <1>1 DEF EnsureExternal, KeptFor
  <2> QED
    BY <1>1, <2>1, <2>2, OneVouched DEF EnsureExternal, OnlyIfSeenAbsent
<1>2. CASE CreateNetwork(p, o) \/ CreateVolume(p, o)
  <2>1. Create(p, o)
    BY <1>2 DEF CreateNetwork, CreateVolume
  <2>2. Fine(p, o, "none") \/ Fine(p, o, "conflict") \/ Failed(p, o)
    BY <2>1 DEF Create, Created
  <2>3. \A q \in Projects, x \in Objects : KeptFor(q, x)
    BY <2>1, CreatedKeeps DEF Create
  <2> QED
    BY <2>1, <2>2, <2>3, OneVouched DEF Create, OnlyIfSeenAbsent
<1>3. CASE NetworkConflict(p, o) \/ VolumeConflict(p, o)
  <2>1. Look(p, o) /\ UNCHANGED <<host, hit>> /\ (Fine(p, o, "none") \/ Failed(p, o))
    BY <1>3 DEF NetworkConflict, VolumeConflict, Conflict
  <2> QED
    BY <2>1, LookKeeps, OneVouched DEF OnlyIfSeenAbsent
<1>4. CASE InspectSecret(p, o) \/ InspectPod(p, o)
  <2>1. /\ Look(p, o) /\ UNCHANGED <<host, hit>>
        /\ \/ host[o] = p /\ Fine(p, o, "delete")
           \/ Fine(p, o, "none") \/ Fine(p, o, "create") \/ Failed(p, o)
    BY <1>4 DEF InspectSecret, InspectPod
  <2>2. host[o] = p => Vouch(p, o)'
    BY <2>1 DEF Look, Vouch, DataOK
  <2>3. CASE host[o] = p /\ Fine(p, o, "delete")
    BY <2>1, <2>2, <2>3, LookKeeps, OneVouched DEF OnlyIfSeenAbsent
  <2>4. CASE Fine(p, o, "none") \/ Fine(p, o, "create") \/ Failed(p, o)
    BY <2>1, <2>4, LookKeeps, OneVouched DEF OnlyIfSeenAbsent
  <2> QED
    BY <2>1, <2>3, <2>4
<1>5. CASE CreateAfterLook(p, o)
  <2>1. Fine(p, o, "none") \/ Failed(p, o)
    BY <1>5 DEF CreateAfterLook, Created
  <2>2. \A q \in Projects, x \in Objects : KeptFor(q, x)
    BY <1>5, CreatedKeeps DEF CreateAfterLook
  <2> QED
    BY <1>5, <2>1, <2>2, OneVouched DEF CreateAfterLook, OnlyIfSeenAbsent
<1>6. CASE DeleteStaleSecret(p, o) \/ DeleteStalePod(p, o)
  BY <1>6, DeleteVouched DEF DeleteStaleSecret, DeleteStalePod
<1> QED
  BY <1>1, <1>2, <1>3, <1>4, <1>5, <1>6 DEF Up

LEMMA DownVouched ==
  ASSUME LoopsOK, DataOK, Vouched, OnlyIfSeenAbsent, NEW p \in Projects, NEW o \in Objects, Down(p, o)
  PROVE  Vouched' /\ OnlyIfSeenAbsent'
<1> USE DEF Steps
<1>1. CASE CheckPod(p, o) \/ CheckNetwork(p, o) \/ CheckVolume(p, o) \/ CheckSecret(p, o)
  <2>1. /\ Look(p, o) /\ UNCHANGED <<host, hit>>
        /\ \/ host[o] \in {p, Absent} /\ Fine(p, o, "delete")
           \/ Fine(p, o, "none") \/ Failed(p, o)
    BY <1>1 DEF CheckPod, CheckNetwork, CheckVolume, CheckSecret, Check, require_owned
  <2>2. host[o] \in {p, Absent} => Vouch(p, o)'
    BY <2>1 DEF Look, Vouch, DataOK
  <2>3. CASE host[o] \in {p, Absent} /\ Fine(p, o, "delete")
    BY <2>1, <2>2, <2>3, LookKeeps, OneVouched DEF OnlyIfSeenAbsent
  <2>4. CASE Fine(p, o, "none") \/ Failed(p, o)
    BY <2>1, <2>4, LookKeeps, OneVouched DEF OnlyIfSeenAbsent
  <2> QED
    BY <2>1, <2>3, <2>4
<1>2. CASE Delete(p, o)
  BY <1>2, DeleteVouched
<1> QED
  BY <1>1, <1>2 DEF Down, DeletePod, DeleteNetwork, DeleteVolume, DeleteSecret,
     SweepPod, SweepNetwork, SweepVolume, SweepSecret

LEMMA ListVouched ==
  ASSUME LoopsOK, DataOK, Vouched, OnlyIfSeenAbsent, NEW p \in Projects, List(p)
  PROVE  Vouched' /\ OnlyIfSeenAbsent'
<1>1. UNCHANGED <<host, hit>>
  BY DEF List
<1>2. OnlyIfSeenAbsent'
  BY <1>1 DEF OnlyIfSeenAbsent
<1>3. ASSUME NEW kind, NEW sweep, Listed(p, kind, sweep) PROVE Vouched'
  <2>1. /\ at' = [at EXCEPT ![p] = [o \in Objects |-> IF Kind[o] = kind /\ host[o] = p THEN "delete" ELSE "none"]]
        /\ saw' = [saw EXCEPT ![p] = [o \in Objects |-> IF Kind[o] = kind /\ host[o] = p THEN p ELSE @[o]]]
    BY <1>3 DEF Listed
  <2>2. ASSUME NEW o \in Objects PROVE Vouch(p, o)'
    BY <1>1, <2>1 DEF Vouch, DataOK, LoopsOK
  <2>3. ASSUME NEW q \in Projects \ {p}, NEW o \in Objects PROVE Vouch(q, o)'
    BY <1>1, <2>1 DEF Vouched, Vouch, DataOK, LoopsOK
  <2> QED
    BY <2>2, <2>3 DEF Vouched, Vouch
<1>4. CASE UNCHANGED saw /\ ((\E s, failed : Proceed(p, s, failed)) \/ \E f, s : at' = [at EXCEPT ![p] = Queue(f, s)])
  <2>1. \A q \in Projects, x \in Objects : KeptFor(q, x)
    BY <1>1, <1>4 DEF KeptFor
  <2> QED
    BY <1>2, <1>4, <2>1, ProceedDeletes, MovedVouched
<1> QED
  BY <1>2, <1>3, <1>4 DEF List, ListPods, ListNetworks, ListVolumes, ListSecrets, NotListed

LEMMA GuardKept ==
  ASSUME LoopsOK, DataOK, Vouched, OnlyIfSeenAbsent, [Next]_vars
  PROVE  Vouched' /\ OnlyIfSeenAbsent'
<1>1. CASE UNCHANGED vars
  BY <1>1 DEF vars, Vouched, OnlyIfSeenAbsent
<1>2. ASSUME NEW p \in Projects, NEW v \in VerbsOf[p], NEW f, Begin(p, v, f)
      PROVE  Vouched' /\ OnlyIfSeenAbsent'
  <2>1. at' = [at EXCEPT ![p] = Queue(f, Following(v, "start"))] /\ UNCHANGED host
    BY <1>2 DEF Begin
  <2>2. \A o \in Objects : at'[p][o] # "delete"
    BY <2>1, QueueSteps DEF LoopsOK
  <2>3. \A q \in Projects \ {p} : at'[q] = at[q] /\ saw'[q] = saw[q]
    BY <1>2, <2>1 DEF Begin, LoopsOK, DataOK
  <2>4. hit' = [hit EXCEPT ![p] = {}]
    BY <1>2 DEF Begin
  <2>5. Vouched'
    BY <2>1, <2>2, <2>3 DEF Vouched
  <2> QED
    BY <2>4, <2>5 DEF OnlyIfSeenAbsent, DataOK
<1>3. ASSUME NEW p \in Projects, NEW o \in Objects, Up(p, o) \/ Down(p, o)
      PROVE  Vouched' /\ OnlyIfSeenAbsent'
  BY <1>3, UpVouched, DownVouched
<1>4. ASSUME NEW p \in Projects, List(p) PROVE Vouched' /\ OnlyIfSeenAbsent'
  BY <1>4, ListVouched
<1>5. ASSUME NEW p \in Projects,
             \/ Reject(p) \/ UnreadableSecret(p) \/ Snapshot(p) \/ Build(p)
             \/ Advance(p) \/ Walk(p) \/ RemoveMembers(p) \/ Kill(p)
      PROVE  Vouched' /\ OnlyIfSeenAbsent'
  <2>1. UNCHANGED <<host, saw, hit>>
    BY <1>5 DEF Reject, UnreadableSecret, Snapshot, Build, Advance, Walk, RemoveMembers, Kill
  <2>2. (\E r : End(p, r)) \/ (\E s, failed : Proceed(p, s, failed))
    BY <1>5 DEF Reject, UnreadableSecret, Snapshot, Build, Advance, Walk, RemoveMembers, Kill
  <2>3. \A q \in Projects, x \in Objects : KeptFor(q, x)
    BY <2>1 DEF KeptFor
  <2> QED
    BY <2>1, <2>2, <2>3, ProceedDeletes, MovedVouched DEF OnlyIfSeenAbsent
<1>6. ASSUME NEW o \in Objects, MakeByHand(o) \/ RemoveByHand(o)
      PROVE  Vouched' /\ OnlyIfSeenAbsent'
  <2>1. UNCHANGED <<at, hit>>
    BY <1>6 DEF MakeByHand, RemoveByHand
  <2>2. CASE MakeByHand(o)
    <3>1. UNCHANGED saw /\ \A x \in Objects : host'[x] = host[x] \/ host[x] = Absent
      BY <2>2 DEF MakeByHand, DataOK
    <3>2. \A q \in Projects, x \in Objects : KeptFor(q, x)
      BY <3>1, OwnerAssumption DEF KeptFor
    <3> QED
      BY <2>1, <3>2, MovedVouched DEF OnlyIfSeenAbsent
  <2>3. CASE RemoveByHand(o)
    <3>1. \A q \in Projects, x \in Objects : KeptFor(q, x)
      BY <2>3 DEF RemoveByHand, KeptFor, DataOK
    <3> QED
      BY <2>1, <3>1, MovedVouched DEF OnlyIfSeenAbsent
  <2> QED
    BY <1>6, <2>2, <2>3
<1>7. ASSUME NEW p \in Projects, Command(p) PROVE Vouched' /\ OnlyIfSeenAbsent'
  BY <1>2, <1>3, <1>4, <1>5, <1>7
  DEF Command, InvalidName, PodRefused, UnknownService, SpecRefused, NameShared
<1> QED
  BY <1>1, <1>6, <1>7 DEF Next

\* The state always has its types, and every command is in one of its own loops,
\* with each object at a step that loop has.
THEOREM ObjectsTyped == Spec => [](TypeOK /\ Placed)
<1>1. Init => LoopsOK /\ DataOK
  BY TypesBegin
<1>2. (LoopsOK /\ DataOK) /\ [Next]_vars => (LoopsOK /\ DataOK)'
  BY TypesKept
<1>3. LoopsOK /\ DataOK => TypeOK /\ Placed
  BY TypeSplit
<1> QED
  BY <1>1, <1>2, <1>3, PTL DEF Spec

\* Whatever the files of however many projects name, a command removes an object
\* of somebody else only if it looked its name up while it was free, or if its
\* own object of that name was removed by somebody after it looked
\* (require_owned, the label of what a sweep lists).
THEOREM OnlyIfSeenAbsentHolds == Spec => []OnlyIfSeenAbsent
<1> DEFINE I == LoopsOK /\ DataOK /\ Vouched /\ OnlyIfSeenAbsent
<1>1. Init => I
  <2>1. Init => Vouched /\ OnlyIfSeenAbsent
    BY DEF Init, Vouched, OnlyIfSeenAbsent, Nothing
  <2> QED
    BY <2>1, TypesBegin
<1>2. I /\ [Next]_vars => I'
  BY TypesKept, GuardKept
<1> QED
  BY <1>1, <1>2, PTL DEF Spec

(***************************************************************************)
(* What a command has done so far is not undone behind its back, or it is  *)
(* known to be.                                                            *)
(***************************************************************************)

\* A step of somebody else, as command p may notice it.
Bystander(p) ==
  /\ verb'[p] = verb[p] /\ file'[p] = file[p] /\ pc'[p] = pc[p] /\ at'[p] = at[p]
  /\ err'[p] = err[p] /\ existing'[p] = existing[p]
  /\ \A o \in Objects : host'[o] = p => host[o] = p
  /\ \A o \in Objects : host[o] = p => host'[o] = p \/ o \in lost'[p]
  /\ lost[p] \subseteq lost'[p]
  /\ members[p] => members'[p] \/ \E o \in lost'[p] : Kind[o] = "pod"

LEMMA DeleteBystander ==
  ASSUME DataOK, NEW p \in Projects, NEW q \in Projects \ {p}, NEW o \in Objects, Delete(q, o)
  PROVE  /\ \A x \in Objects : host'[x] = p => host[x] = p
         /\ \A x \in Objects : host[x] = p => host'[x] = p \/ x \in lost'[p]
         /\ lost[p] \subseteq lost'[p]
         /\ members[p] => members'[p] \/ \E x \in lost'[p] : Kind[x] = "pod"
<1>1. CASE UNCHANGED <<host, members, lost>>
  BY <1>1
<1>2. CASE
        /\ host' = [host EXCEPT ![o] = Absent]
        /\ members' = [r \in Projects |-> members[r] /\ ~(Kind[o] = "pod" /\ host[o] = r)]
        /\ lost' = [r \in Projects |-> IF host[o] = r /\ r # q THEN lost[r] \cup {o} ELSE lost[r]]
  <2>1. \A x \in Objects : host'[x] = IF x = o THEN Absent ELSE host[x]
    BY <1>2 DEF DataOK
  <2>2. p # Absent
    BY OwnerAssumption
  <2>3. lost'[p] = IF host[o] = p THEN lost[p] \cup {o} ELSE lost[p]
    BY <1>2
  <2>4. members'[p] = (members[p] /\ ~(Kind[o] = "pod" /\ host[o] = p))
    BY <1>2
  <2>5. \A x \in Objects : host'[x] = p => host[x] = p
    BY <2>1, <2>2
  <2>6. \A x \in Objects : host[x] = p => host'[x] = p \/ x \in lost'[p]
    BY <2>1, <2>3
  <2>7. lost[p] \subseteq lost'[p]
    BY <2>3
  <2>8. CASE members[p] /\ Kind[o] = "pod" /\ host[o] = p
    <3>1. o \in lost'[p]
      BY <2>3, <2>8
    <3> QED
      BY <2>5, <2>6, <2>7, <2>8, <3>1
  <2>9. CASE ~(members[p] /\ Kind[o] = "pod" /\ host[o] = p)
    <3>1. members[p] => members'[p]
      BY <2>4, <2>9
    <3> QED
      BY <2>5, <2>6, <2>7, <3>1
  <2> QED
    BY <2>8, <2>9
<1> QED
  BY <1>1, <1>2 DEF Delete

LEMMA CreatedBystander ==
  ASSUME DataOK, NEW p \in Projects, NEW q \in Projects \ {p}, NEW o \in Objects, Created(q, o)
  PROVE  \A x \in Objects : (host'[x] = p) <=> (host[x] = p)
<1>1. \A x \in Objects : host'[x] = IF x = o THEN q ELSE host[x]
  BY DEF Created, DataOK
<1>2. host[o] # p
  BY OwnerAssumption DEF Created
<1> QED
  BY <1>1, <1>2

\* A command changes nothing of where another one is,
LEMMA OwnPlace ==
  ASSUME LoopsOK, DataOK, NEW p \in Projects, NEW q \in Projects \ {p}, Command(q)
  PROVE  /\ verb'[p] = verb[p] /\ file'[p] = file[p] /\ pc'[p] = pc[p] /\ at'[p] = at[p]
         /\ err'[p] = err[p] /\ existing'[p] = existing[p]
<1> DEFINE Same ==
      /\ verb'[p] = verb[p] /\ file'[p] = file[p] /\ pc'[p] = pc[p] /\ at'[p] = at[p]
      /\ err'[p] = err[p] /\ existing'[p] = existing[p]
<1>0. /\ verb \in [Projects -> Ups \cup Downs] /\ pc \in [Projects -> Stages]
      /\ at \in [Projects -> [Objects -> Steps]] /\ err \in [Projects -> BOOLEAN]
      /\ existing \in [Projects -> BOOLEAN] /\ file \in [Projects -> Files]
  BY DEF LoopsOK, DataOK
<1>1. ASSUME NEW o \in Objects, Up(q, o) \/ Down(q, o) PROVE Same
  <2>1. UNCHANGED <<verb, file>>
    BY <1>1 DEF Up, Down, EnsureExternal, CreateNetwork, CreateVolume, Create, NetworkConflict,
       VolumeConflict, Conflict, InspectSecret, InspectPod, CreateAfterLook, DeleteStaleSecret,
       DeleteStalePod, Delete, CheckPod, CheckNetwork, CheckVolume, CheckSecret, Check, DeletePod,
       DeleteNetwork, DeleteVolume, DeleteSecret, SweepPod, SweepNetwork, SweepVolume, SweepSecret, input
  <2>2. (\E s \in Steps : Fine(q, o, s)) \/ Failed(q, o)
    BY <1>1 DEF Up, Down, EnsureExternal, CreateNetwork, CreateVolume, Create, Created, NetworkConflict,
       VolumeConflict, Conflict, InspectSecret, InspectPod, CreateAfterLook, DeleteStaleSecret,
       DeleteStalePod, Delete, AfterDelete, CheckPod, CheckNetwork, CheckVolume, CheckSecret, Check, DeletePod,
       DeleteNetwork, DeleteVolume, DeleteSecret, SweepPod, SweepNetwork, SweepVolume, SweepSecret, Steps
  <2>3. pc'[p] = pc[p] /\ at'[p] = at[p] /\ err'[p] = err[p]
    BY <1>0, <2>2 DEF Fine, Failed, Move, End
  <2>4. existing' = existing \/ existing' = [existing EXCEPT ![q] = ListAfter(q, o)]
    BY <1>1 DEF Up, Down, EnsureExternal, CreateNetwork, CreateVolume, Create, NetworkConflict,
       VolumeConflict, Conflict, InspectSecret, InspectPod, CreateAfterLook, DeleteStaleSecret,
       DeleteStalePod, Delete, CheckPod, CheckNetwork, CheckVolume, CheckSecret, Check, DeletePod,
       DeleteNetwork, DeleteVolume, DeleteSecret, SweepPod, SweepNetwork, SweepVolume, SweepSecret
  <2> QED
    BY <1>0, <2>1, <2>3, <2>4
<1>2. ASSUME NEW v, NEW f, Begin(q, v, f) PROVE Same
  BY <1>0, <1>2 DEF Begin
<1>3. CASE Reject(q) \/ UnreadableSecret(q) \/ Kill(q)
  BY <1>0, <1>3 DEF Reject, UnreadableSecret, Kill, End, input
<1>4. CASE Snapshot(q) \/ Build(q) \/ Advance(q) \/ Walk(q) \/ RemoveMembers(q)
  <2>1. UNCHANGED <<verb, file>>
    BY <1>4 DEF Snapshot, Build, Advance, Walk, RemoveMembers, input
  <2>2. (\E r : End(q, r)) \/ \E s, failed : Proceed(q, s, failed)
    BY <1>4 DEF Snapshot, Build, Advance, Walk, RemoveMembers
  <2>3. pc'[p] = pc[p] /\ at'[p] = at[p]
    BY <1>0, <2>2 DEF Proceed, End
  <2>4. /\ err' = err \/ err' = [err EXCEPT ![q] = TRUE]
        /\ existing' = existing \/ existing' = [existing EXCEPT ![q] = members[q]]
    BY <1>4 DEF Snapshot, Build, Advance, Walk, RemoveMembers
  <2> QED
    BY <1>0, <2>1, <2>3, <2>4
<1>5. CASE List(q)
  <2>1. UNCHANGED <<verb, file, existing>>
    BY <1>5 DEF List, input
  <2>2. /\ err' = err \/ err' = [err EXCEPT ![q] = TRUE]
        /\ \/ \E sweep, todo : pc' = [pc EXCEPT ![q] = sweep] /\ at' = [at EXCEPT ![q] = todo]
           \/ Proceed(q, pc[q], TRUE)
    BY <1>5 DEF List, ListPods, ListNetworks, ListVolumes, ListSecrets, Listed, NotListed
  <2>3. pc'[p] = pc[p] /\ at'[p] = at[p]
    BY <1>0, <2>2 DEF Proceed, End
  <2> QED
    BY <1>0, <2>1, <2>2, <2>3
<1> QED
  BY <1>1, <1>2, <1>3, <1>4, <1>5
  DEF Command, InvalidName, PodRefused, UnknownService, SpecRefused, NameShared

\* nor, unnoticed, what the other one owns.
LEMMA CommandBystander ==
  ASSUME LoopsOK, DataOK, NEW p \in Projects, NEW q \in Projects \ {p}, Command(q)
  PROVE  Bystander(p)
<1>1. CASE UNCHANGED <<host, lost>> /\ members'[p] = members[p]
  BY <1>1, OwnPlace DEF Bystander
<1>2. ASSUME NEW o \in Objects, Delete(q, o) PROVE Bystander(p)
  BY <1>2, OwnPlace, DeleteBystander DEF Bystander
<1>3. ASSUME NEW o \in Objects, Created(q, o), UNCHANGED <<members, lost>> PROVE Bystander(p)
  BY <1>3, OwnPlace, CreatedBystander DEF Bystander
<1>4. ASSUME NEW o \in Objects, Up(q, o) PROVE Bystander(p)
  BY <1>1, <1>2, <1>3, <1>4 DEF Up, EnsureExternal, CreateNetwork, CreateVolume, Create, NetworkConflict,
     VolumeConflict, Conflict, InspectSecret, InspectPod, CreateAfterLook, DeleteStaleSecret, DeleteStalePod
<1>5. ASSUME NEW o \in Objects, Down(q, o) PROVE Bystander(p)
  BY <1>1, <1>2, <1>5 DEF Down, CheckPod, CheckNetwork, CheckVolume, CheckSecret, Check, DeletePod,
     DeleteNetwork, DeleteVolume, DeleteSecret, SweepPod, SweepNetwork, SweepVolume, SweepSecret
<1>6. ASSUME NEW v \in VerbsOf[q], NEW f, Begin(q, v, f) PROVE Bystander(p)
  <2>1. UNCHANGED <<host, members>> /\ lost'[p] = lost[p]
    BY <1>6 DEF Begin, DataOK
  <2> QED
    BY <2>1, OwnPlace DEF Bystander
<1>7. CASE Walk(q) \/ RemoveMembers(q)
  <2>1. UNCHANGED <<host, lost>>
    BY <1>7 DEF Walk, RemoveMembers
  <2>2. \E b : members' \in {members, [members EXCEPT ![q] = b]}
    BY <1>7 DEF Walk, RemoveMembers
  <2>3. members'[p] = members[p]
    BY <2>2 DEF DataOK
  <2> QED
    BY <1>1, <2>1, <2>3
<1>8. CASE Reject(q) \/ UnreadableSecret(q) \/ Kill(q) \/ Snapshot(q) \/ Build(q) \/ Advance(q) \/ List(q)
  BY <1>1, <1>8 DEF Reject, UnreadableSecret, Kill, Snapshot, Build, Advance, List
<1> QED
  BY <1>4, <1>5, <1>6, <1>7, <1>8
  DEF Command, InvalidName, PodRefused, UnknownService, SpecRefused, NameShared

LEMMA ByHandBystander ==
  ASSUME LoopsOK, DataOK, NEW p \in Projects, NEW o \in Objects, MakeByHand(o) \/ RemoveByHand(o)
  PROVE  Bystander(p)
<1>1. UNCHANGED <<verb, file, pc, at, err, existing>>
  BY DEF MakeByHand, RemoveByHand
<1>2. p \notin {Absent, Unlabelled}
  BY OwnerAssumption
<1>3. CASE MakeByHand(o)
  <2>1. \A x \in Objects : host'[x] = IF x = o THEN Unlabelled ELSE host[x]
    BY <1>3 DEF MakeByHand, DataOK
  <2>2. host[o] = Absent /\ UNCHANGED <<members, lost>>
    BY <1>3 DEF MakeByHand
  <2> QED
    BY <1>1, <1>2, <2>1, <2>2 DEF Bystander
<1>4. CASE RemoveByHand(o)
  <2>1. \A x \in Objects : host'[x] = IF x = o THEN Absent ELSE host[x]
    BY <1>4 DEF RemoveByHand, DataOK
  <2>2. /\ lost'[p] = IF host[o] = p THEN lost[p] \cup {o} ELSE lost[p]
        /\ members'[p] = (members[p] /\ ~(Kind[o] = "pod" /\ host[o] = p))
    BY <1>4 DEF RemoveByHand
  <2> QED
    BY <1>1, <1>2, <2>1, <2>2 DEF Bystander
<1> QED
  BY <1>3, <1>4
\* A step of somebody else leaves a command that clears where it was.
LEMMA BystanderClears ==
  ASSUME NEW p \in Projects, Bystander(p), ClearedFor(p)
  PROVE  ClearedFor(p)'
  BY DEF Bystander, ClearedFor, Promised

\* What a loop is the last one for, and what it comes after.
LEMMA Tables ==
  /\ Past["pod"] = {"rmNetworks", "listNetworks", "sweepNetworks", "rmVolumes", "listVolumes",
                    "sweepVolumes", "listSecrets", "sweepSecrets", "ok"}
  /\ Past["network"] = {"rmVolumes", "listVolumes", "sweepVolumes", "listSecrets", "sweepSecrets", "ok"}
  /\ Past["volume"] = {"listSecrets", "sweepSecrets", "ok"}
  /\ Past["secret"] = {"ok"}
  /\ Last["pod"] = {"rmPod", "sweepPods"} /\ Last["network"] = {"sweepNetworks"}
  /\ Last["volume"] = {"rmVolumes", "sweepVolumes"} /\ Last["secret"] = {"sweepSecrets"}
  BY DEF Past, Last, AfterNetworks

\* The loop a way down goes on to is past a kind only if the one it leaves is,
\* or was the last one for it.
LEMMA AdvancePast ==
  ASSUME NEW v \in Downs, NEW k \in Kinds, k = "volume" => v \in Removing,
         NEW s \in {"rmPod", "rmNetworks", "rmVolumes", "sweepNetworks", "sweepSecrets",
                    "sweepPods", "sweepVolumes"},
         s \in {"rmPod", "rmNetworks", "rmVolumes"} => v \notin ByLabel,
         s \in {"sweepPods", "sweepVolumes"} => v \in ByLabel
  PROVE  /\ (Following(v, s) = "end" \/ Following(v, s) \in Past[k]) => s \in Past[k] \cup Last[k]
         /\ Following(v, s) \in Last[k] =>
              Following(v, s) = "rmVolumes" /\ k = "volume" /\ v \notin ByLabel
<1> PICK next : next = Following(v, s)
  OBVIOUS
<1> SUFFICES /\ (next = "end" \/ next \in Past[k]) => s \in Past[k] \cup Last[k]
             /\ next \in Last[k] => next = "rmVolumes" /\ k = "volume" /\ v \notin ByLabel
  OBVIOUS
<1>0. k \in {"network", "volume", "secret", "pod"}
  BY DEF Kinds
<1>1. CASE s = "rmPod"
  <2>1. next = "rmNetworks"
    BY <1>1, DownOrder
  <2> QED
    BY <1>0, <1>1, <2>1, Tables
<1>2. CASE s = "rmNetworks"
  <2>1. next = "listNetworks"
    BY <1>2, DownOrder
  <2> QED
    BY <1>0, <1>2, <2>1, Tables
<1>3. CASE s = "rmVolumes"
  <2>1. next = "listSecrets"
    BY <1>3, DownOrder
  <2> QED
    BY <1>0, <1>3, <2>1, Tables
<1>4. CASE s = "sweepPods"
  <2>1. next = "listNetworks"
    BY <1>4, LabelOrder
  <2> QED
    BY <1>0, <1>4, <2>1, Tables
<1>5. CASE s = "sweepVolumes"
  <2>1. next = "listSecrets"
    BY <1>5, LabelOrder
  <2> QED
    BY <1>0, <1>5, <2>1, Tables
<1>6. CASE s = "sweepSecrets"
  <2>1. next = "end"
    <3>1. CASE v \in ByLabel
      BY <1>6, <3>1, LabelOrder
    <3>2. CASE v \notin ByLabel
      BY <1>6, <3>2, DownOrder
    <3> QED
      BY <3>1, <3>2
  <2> QED
    BY <1>0, <1>6, <2>1, Tables
<1>7. CASE s = "sweepNetworks" /\ v \in ByLabel
  <2>1. next = IF v \in Removing THEN "listVolumes" ELSE "listSecrets"
    BY <1>7, LabelOrder
  <2> QED
    BY <1>0, <1>7, <2>1, Tables
<1>8. CASE s = "sweepNetworks" /\ v \notin ByLabel
  <2>1. next = IF v \in Removing THEN "rmVolumes" ELSE "listSecrets"
    BY <1>8, DownOrder
  <2> QED
    BY <1>0, <1>8, <2>1, Tables
<1> QED
  BY <1>1, <1>2, <1>3, <1>4, <1>5, <1>6, <1>7, <1>8

\* A step about one object clears it, or is a failure.
LEMMA MoveClears ==
  ASSUME LoopsOK, DataOK, NEW p \in Projects, ClearedFor(p), NEW o \in Objects, NEW s \in Steps,
         Fine(p, o, s) \/ Failed(p, o), UNCHANGED <<verb, file>>,
         \A x \in Objects : host'[x] = p => host[x] = p,
         s = "none" => host'[o] # p
  PROVE  ClearedFor(p)'
<1>1. CASE Failed(p, o)
  <2>1. err'[p]
    BY <1>1 DEF Failed, LoopsOK
  <2> QED
    BY <2>1 DEF ClearedFor
<1>2. CASE Fine(p, o, s)
  <2>1. /\ at'[p][o] = s /\ \A x \in Objects \ {o} : at'[p][x] = at[p][x]
        /\ pc'[p] = pc[p] /\ err'[p] = err[p]
    BY <1>2 DEF Fine, Move, LoopsOK
  <2>2. Promised(p)' = Promised(p) /\ Promised(p) \subseteq Objects
    BY DEF Promised
  <2>3. ASSUME verb[p] \in Downs, ~err[p], NEW x \in Promised(p), host'[x] = p
        PROVE  pc[p] \notin Past[Kind[x]] /\ (pc[p] \in Last[Kind[x]] => at'[p][x] # "none")
    <3>1. host[x] = p /\ x \in Objects
      BY <2>2, <2>3
    <3>2. pc[p] \notin Past[Kind[x]] /\ (pc[p] \in Last[Kind[x]] => at[p][x] # "none")
      BY <2>3, <3>1 DEF ClearedFor
    <3>3. CASE x = o
      BY <2>1, <2>3, <3>2, <3>3
    <3>4. CASE x # o
      BY <2>1, <3>1, <3>2, <3>4
    <3> QED
      BY <3>3, <3>4
  <2> QED
    BY <2>1, <2>2, <2>3 DEF ClearedFor
<1> QED
  BY <1>1, <1>2
\* A way down that goes on to its next loop has cleared what it is past.
LEMMA AdvanceClears ==
  ASSUME LoopsOK, DataOK, NEW p \in Projects, ClearedFor(p), Advance(p), verb[p] \in Downs
  PROVE  ClearedFor(p)'
<1> DEFINE next == Following(verb[p], pc[p])
<1>1. /\ UNCHANGED <<host, verb, file, err>> /\ pc[p] \in Working /\ at[p] = Nothing
      /\ Proceed(p, pc[p], err[p])
  BY DEF Advance, input
<1>2. InOwnLoop(p)
  BY DEF LoopsOK, Placed
<1>3. pc[p] \in {"rmPod", "rmNetworks", "rmVolumes", "rmSecrets", "sweepNetworks", "sweepSecrets",
                 "sweepPods", "sweepVolumes"}
  BY <1>1, <1>2, LoopKinds DEF InOwnLoop, Working, Sweeping, DownStages
<1>4. SUFFICES ASSUME ~err[p], NEW o \in Objects, o \in Promised(p), host[o] = p
               PROVE  /\ pc'[p] \notin Past[Kind[o]]
                      /\ pc'[p] \in Last[Kind[o]] => at'[p][o] # "none"
  BY <1>1 DEF ClearedFor, Promised
<1>5. Kind[o] \in Kinds /\ (Kind[o] = "volume" => verb[p] \in Removing)
  BY <1>4, FileAssumption DEF Promised
<1>6. pc[p] \notin Past[Kind[o]] \cup Last[Kind[o]]
  BY <1>1, <1>4, NothingSteps DEF ClearedFor
<1>7. pc[p] # "rmSecrets"
  BY <1>2, <1>4 DEF InOwnLoop
<1>8. /\ next # "end" /\ next \notin Past[Kind[o]]
      /\ next \in Last[Kind[o]] => next = "rmVolumes" /\ Kind[o] = "volume" /\ verb[p] \notin ByLabel
  <2>1. /\ pc[p] \in {"rmPod", "rmNetworks", "rmVolumes", "sweepNetworks", "sweepSecrets",
                      "sweepPods", "sweepVolumes"}
        /\ pc[p] \in {"rmPod", "rmNetworks", "rmVolumes"} => verb[p] \notin ByLabel
        /\ pc[p] \in {"sweepPods", "sweepVolumes"} => verb[p] \in ByLabel
    BY <1>2, <1>3, <1>7 DEF InOwnLoop
  <2>2. /\ (next = "end" \/ next \in Past[Kind[o]]) => pc[p] \in Past[Kind[o]] \cup Last[Kind[o]]
        /\ next \in Last[Kind[o]] => next = "rmVolumes" /\ Kind[o] = "volume" /\ verb[p] \notin ByLabel
    <3>1. verb[p] \in Downs
      OBVIOUS
    <3> HIDE DEF Ups, Downs, ByLabel, Removing, Quiet
    <3> QED
      BY <1>5, <2>1, <3>1, AdvancePast
  <2> QED
    BY <1>6, <2>2
<1>9. pc'[p] = next /\ at'[p] = Queue(file[p], next)
  BY <1>1, <1>8 DEF Proceed, LoopsOK
<1>10. CASE next \in Last[Kind[o]]
  <2>1. next = "rmVolumes" /\ Kind[o] = "volume" /\ o \in file[p].own
    BY <1>4, <1>8, <1>10 DEF Promised
  <2>2. o \in Declared(file[p], next)
    BY <2>1, LoopKinds DEF Declared
  <2>3. at'[p][o] = "todo"
    BY <1>9, <2>2 DEF Queue
  <2> QED
    BY <1>8, <1>9, <2>3
<1> QED
  BY <1>8, <1>9, <1>10

\* Its containers removed, it goes on to the pods.
LEMMA MembersClear ==
  ASSUME LoopsOK, DataOK, NEW p \in Projects, ClearedFor(p), RemoveMembers(p)
  PROVE  ClearedFor(p)'
<1> DEFINE next == Following(verb[p], "members")
<1>1. /\ UNCHANGED <<host, verb, file>> /\ pc[p] = "members" /\ Proceed(p, "members", err'[p])
  BY DEF RemoveMembers, input
<1>2. verb[p] \in Downs
  BY <1>1, LoopFacts DEF DownStages
<1>3. next = IF verb[p] \in ByLabel THEN "listPods" ELSE "rmPod"
  <2>1. CASE verb[p] \in ByLabel
    BY <2>1, LabelOrder
  <2>2. CASE verb[p] \notin ByLabel
    <3>1. verb[p] \in Downs \ ByLabel
      BY <1>2, <2>2
    <3> QED
      BY <2>2, <3>1, DownOrder
  <2> QED
    BY <2>1, <2>2
<1>4. pc'[p] = next /\ at'[p] = Queue(file[p], next)
  BY <1>1, <1>3 DEF Proceed, LoopsOK
<1>5. SUFFICES ASSUME NEW o \in Objects, o \in Promised(p), host[o] = p
               PROVE  /\ pc'[p] \notin Past[Kind[o]]
                      /\ pc'[p] \in Last[Kind[o]] => at'[p][o] # "none"
  BY <1>1 DEF ClearedFor, Promised
<1>6. Kind[o] \in {"network", "volume", "secret", "pod"}
  BY FileAssumption DEF Kinds
<1>7. next \notin Past[Kind[o]] /\ (next \in Last[Kind[o]] => next = "rmPod" /\ Kind[o] = "pod")
  <2> HIDE DEF next
  <2>1. next \in {"listPods", "rmPod"}
    BY <1>3
  <2> QED
    BY <1>6, <2>1, Tables
<1>8. CASE next = "rmPod" /\ Kind[o] = "pod"
  <2>1. o \in file[p].own
    BY <1>3, <1>5, <1>8 DEF Promised
  <2>2. o \in Declared(file[p], next)
    BY <1>8, <2>1, LoopKinds DEF Declared
  <2>3. at'[p][o] = "todo"
    BY <1>4, <2>2 DEF Queue
  <2> QED
    BY <1>4, <1>7, <2>3
<1> QED
  BY <1>4, <1>7, <1>8

\* A list names everything of its kind that is the project's.
LEMMA ListClears ==
  ASSUME LoopsOK, DataOK, NEW p \in Projects, ClearedFor(p), List(p)
  PROVE  ClearedFor(p)'
<1>1. UNCHANGED <<host, verb, file>>
  BY DEF List, input
<1>2. CASE err'[p]
  BY <1>2 DEF ClearedFor
<1>3. ASSUME NEW kind \in Kinds, NEW sweep, Listed(p, kind, sweep),
             \A k \in Kinds : sweep \in Past[k] => pc[p] \in Past[k],
             \A k \in Kinds : sweep \in Last[k] => k = kind
      PROVE  ClearedFor(p)'
  <2>1. pc'[p] = sweep /\ err'[p] = err[p]
    BY <1>3 DEF Listed, LoopsOK
  <2>2. \A o \in Objects : at'[p][o] = IF Kind[o] = kind /\ host[o] = p THEN "delete" ELSE "none"
    BY <1>3 DEF Listed, LoopsOK
  <2>3. SUFFICES ASSUME verb[p] \in Downs, ~err[p], NEW o \in Objects, o \in Promised(p), host[o] = p
                 PROVE  /\ pc'[p] \notin Past[Kind[o]]
                        /\ pc'[p] \in Last[Kind[o]] => at'[p][o] # "none"
    BY <1>1, <2>1 DEF ClearedFor, Promised
  <2>4. Kind[o] \in Kinds
    BY FileAssumption
  <2>5. pc[p] \notin Past[Kind[o]]
    BY <2>3 DEF ClearedFor
  <2> QED
    BY <1>3, <2>1, <2>2, <2>3, <2>4, <2>5
<1>4. NotListed(p) => err'[p]
  BY DEF NotListed, LoopsOK
<1>5. CASE pc[p] = "listPods" /\ Listed(p, "pod", "sweepPods")
  <2>1. \A k \in Kinds : "sweepPods" \notin Past[k] /\ ("sweepPods" \in Last[k] => k = "pod")
    BY Tables DEF Kinds
  <2> QED
    BY <1>3, <1>5, <2>1 DEF Kinds
<1>6. CASE pc[p] = "listNetworks" /\ Listed(p, "network", "sweepNetworks")
  <2>1. \A k \in Kinds : /\ "sweepNetworks" \in Past[k] => "listNetworks" \in Past[k]
                         /\ "sweepNetworks" \in Last[k] => k = "network"
    BY Tables DEF Kinds
  <2> QED
    BY <1>3, <1>6, <2>1 DEF Kinds
<1>7. CASE pc[p] = "listVolumes" /\ Listed(p, "volume", "sweepVolumes")
  <2>1. \A k \in Kinds : /\ "sweepVolumes" \in Past[k] => "listVolumes" \in Past[k]
                         /\ "sweepVolumes" \in Last[k] => k = "volume"
    BY Tables DEF Kinds
  <2> QED
    BY <1>3, <1>7, <2>1 DEF Kinds
<1>8. CASE pc[p] = "listSecrets" /\ Listed(p, "secret", "sweepSecrets")
  <2>1. \A k \in Kinds : /\ "sweepSecrets" \in Past[k] => "listSecrets" \in Past[k]
                         /\ "sweepSecrets" \in Last[k] => k = "secret"
    BY Tables DEF Kinds
  <2> QED
    BY <1>3, <1>8, <2>1 DEF Kinds
<1>9. err' = [err EXCEPT ![p] = TRUE] => err'[p]
  BY DEF LoopsOK
<1> QED
  BY <1>2, <1>4, <1>5, <1>6, <1>7, <1>8, <1>9
  DEF List, ListPods, ListNetworks, ListVolumes, ListSecrets

\* What a command on the way up does is none of a way down.
LEMMA UpVerb ==
  ASSUME LoopsOK, NEW p \in Projects, NEW o \in Objects, Up(p, o)
  PROVE  verb[p] \in Ups /\ UNCHANGED <<verb, file>>
<1>1. AtOwnStep(p, o)
  BY DEF LoopsOK, Placed
<1>2. pc[p] \in UpStages \/ at[p][o] \in {"create", "recreate"}
  BY DEF Up, EnsureExternal, CreateNetwork, NetworkConflict, CreateVolume, VolumeConflict,
     InspectSecret, InspectPod, CreateAfterLook, DeleteStaleSecret, DeleteStalePod, UpStages
<1>3. verb[p] \in Ups
  BY <1>1, <1>2, LoopFacts DEF AtOwnStep
<1>4. UNCHANGED input
  BY DEF Up, EnsureExternal, CreateNetwork, CreateVolume, Create, NetworkConflict, VolumeConflict,
     Conflict, InspectSecret, InspectPod, CreateAfterLook, DeleteStaleSecret, DeleteStalePod, Delete
<1> QED
  BY <1>3, <1>4 DEF input

LEMMA DownClears ==
  ASSUME LoopsOK, DataOK, NEW p \in Projects, ClearedFor(p), NEW o \in Objects, Down(p, o)
  PROVE  ClearedFor(p)'
<1>0. pc[p] \in DownStages /\ verb[p] \in Downs /\ verb[p] \notin Ups
  <2>1. pc[p] \in DownStages
    BY DEF Down, CheckPod, CheckNetwork, CheckVolume, CheckSecret, DeletePod, DeleteNetwork,
       DeleteVolume, DeleteSecret, SweepPod, SweepNetwork, SweepVolume, SweepSecret, DownStages
  <2> QED
    BY <2>1, LoopFacts
<1>1. UNCHANGED <<verb, file>>
  BY DEF Down, CheckPod, CheckNetwork, CheckVolume, CheckSecret, Check, DeletePod, DeleteNetwork,
     DeleteVolume, DeleteSecret, SweepPod, SweepNetwork, SweepVolume, SweepSecret, Delete, input
<1>2. p # Absent
  BY OwnerAssumption
<1>3. CASE Delete(p, o)
  <2>1. CASE host' = [host EXCEPT ![o] = Absent] /\ (Fine(p, o, "none") \/ Failed(p, o))
    <3>1. \A x \in Objects : host'[x] = IF x = o THEN Absent ELSE host[x]
      BY <2>1 DEF DataOK
    <3>2. "none" \in Steps
      BY DEF Steps
    <3> QED
      BY <1>1, <1>2, <2>1, <3>1, <3>2, MoveClears
  <2>2. CASE UNCHANGED host /\ Failed(p, o)
    BY <1>1, <2>2, MoveClears DEF Steps
  <2> QED
    BY <1>0, <1>3, <2>1, <2>2 DEF Delete, AfterDelete
<1>4. CASE CheckSecret(p, o)
  <2>1. err[p]
    BY <1>4 DEF CheckSecret, LoopsOK, Placed, InOwnLoop
  <2>2. err'[p]
    BY <1>4, <2>1 DEF CheckSecret, Check, Fine, Failed, LoopsOK
  <2> QED
    BY <2>2 DEF ClearedFor
<1>5. CASE CheckPod(p, o) \/ CheckNetwork(p, o) \/ CheckVolume(p, o)
  <2>1. UNCHANGED host
    BY <1>5 DEF CheckPod, CheckNetwork, CheckVolume, Check
  <2>2. (host[o] = Absent /\ Fine(p, o, "none")) \/ Fine(p, o, "delete") \/ Failed(p, o)
    BY <1>5 DEF CheckPod, CheckNetwork, CheckVolume, Check
  <2> QED
    BY <1>1, <1>2, <2>1, <2>2, MoveClears DEF Steps
<1> QED
  BY <1>3, <1>4, <1>5 DEF Down, DeletePod, DeleteNetwork, DeleteVolume, DeleteSecret,
     SweepPod, SweepNetwork, SweepVolume, SweepSecret

LEMMA ClearedKept ==
  ASSUME LoopsOK, DataOK, Cleared, [Next]_vars
  PROVE  Cleared'
<1> SUFFICES ASSUME NEW p \in Projects PROVE ClearedFor(p)'
  BY DEF Cleared
<1>0. ClearedFor(p)
  BY DEF Cleared
<1>1. CASE UNCHANGED vars
  BY <1>0, <1>1 DEF vars, ClearedFor, Promised
<1>2. ASSUME NEW q \in Projects \ {p}, Command(q) PROVE ClearedFor(p)'
  BY <1>0, <1>2, CommandBystander, BystanderClears
<1>3. ASSUME NEW o \in Objects, MakeByHand(o) \/ RemoveByHand(o) PROVE ClearedFor(p)'
  BY <1>0, <1>3, ByHandBystander, BystanderClears
<1>4. CASE Command(p)
  <2>0. \A o \in Objects : Kind[o] \in {"network", "volume", "secret", "pod"}
    BY FileAssumption DEF Kinds
  <2>1. ASSUME NEW v \in VerbsOf[p], NEW f, Begin(p, v, f) PROVE ClearedFor(p)'
    <3>1. v \in Ups \cup Downs /\ pc'[p] = Following(v, "start") /\ verb'[p] = v
      BY <2>1, FileAssumption DEF Begin, LoopsOK
    <3>2. v \in Downs => pc'[p] = "members"
      <4>1. CASE v \in ByLabel
        BY <3>1, <4>1, LabelOrder
      <4>2. CASE v \in Downs \ ByLabel
        BY <3>1, <4>2, DownOrder
      <4> QED
        BY <4>1, <4>2
    <3> QED
      BY <2>0, <3>1, <3>2, Tables DEF ClearedFor, Promised
  <2>2. ASSUME NEW o \in Objects, Up(p, o) PROVE ClearedFor(p)'
    BY <2>2, UpVerb DEF ClearedFor
  <2>3. ASSUME NEW o \in Objects, Down(p, o) PROVE ClearedFor(p)'
    BY <1>0, <2>3, DownClears
  <2>4. CASE Reject(p) \/ Snapshot(p) \/ Build(p) \/ UnreadableSecret(p) \/ Walk(p)
    <3>1. pc[p] \in UpStages /\ UNCHANGED verb
      BY <2>4 DEF Reject, Snapshot, Build, UnreadableSecret, Walk, UpStages, input
    <3>2. verb'[p] \in Ups
      BY <3>1, LoopFacts
    <3> QED
      BY <3>2 DEF ClearedFor
  <2>5. CASE Advance(p)
    <3>1. CASE verb[p] \in Downs
      BY <1>0, <2>5, <3>1, AdvanceClears
    <3>2. CASE verb[p] \notin Downs
      BY <2>5, <3>2 DEF Advance, ClearedFor, input
    <3> QED
      BY <3>1, <3>2
  <2>6. CASE RemoveMembers(p) \/ List(p)
    BY <1>0, <2>6, MembersClear, ListClears
  <2>7. CASE Kill(p)
    <3>1. pc'[p] = "killed"
      BY <2>7 DEF Kill, End, LoopsOK
    <3> QED
      BY <2>0, <3>1, Tables DEF ClearedFor, Promised
  <2> QED
    BY <1>4, <2>1, <2>2, <2>3, <2>4, <2>5, <2>6, <2>7
    DEF Command, InvalidName, PodRefused, UnknownService, SpecRefused, NameShared
<1> QED
  BY <1>1, <1>2, <1>3, <1>4 DEF Next

\* A down that reports success has left nothing of the project that it promises
\* to remove, whoever else made, named or removed what meanwhile.
THEOREM DownLeavesNothingHolds == Spec => []DownLeavesNothing
<1> DEFINE I == LoopsOK /\ DataOK /\ Cleared
<1>1. Init => I
  <2>1. Init => Cleared
    BY DEF Init, Cleared, ClearedFor
  <2> QED
    BY <2>1, TypesBegin
<1>2. I /\ [Next]_vars => I'
  BY TypesKept, ClearedKept
<1>3. I => DownLeavesNothing
  <2> SUFFICES ASSUME I, NEW p \in Projects, pc[p] = "ok", verb[p] \in Downs
               PROVE  \A o \in Promised(p) : host[o] # p
    BY FileAssumption DEF DownLeavesNothing, Promised, Mine
  <2>1. ~err[p]
    BY DEF LoopsOK, Placed, InOwnLoop
  <2>2. \A o \in Objects : pc[p] \in Past[Kind[o]]
    <3>1. \A o \in Objects : Kind[o] \in {"network", "volume", "secret", "pod"}
      BY FileAssumption DEF Kinds
    <3>2. \A k \in {"network", "volume", "secret", "pod"} : "ok" \in Past[k]
      BY Tables
    <3> QED
      BY <3>1, <3>2
  <2> QED
    BY <2>1, <2>2 DEF Cleared, ClearedFor, Promised
<1> QED
  BY <1>1, <1>2, <1>3, PTL DEF Spec

(***************************************************************************)
(* The way up.                                                             *)
(***************************************************************************)

\* A step of somebody else leaves a way up where it was.
LEMMA BystanderMakes ==
  ASSUME NEW p \in Projects, Bystander(p), MadeFor(p), ListedFor(p)
  PROVE  MadeFor(p)' /\ ListedFor(p)'
<1>1. MadeFor(p)'
  BY DEF Bystander, MadeFor, Wanted
<1>2. Standing(p) => Standing(p)'
  BY DEF Bystander, Standing
<1>3. ListedFor(p)'
  BY <1>2 DEF Bystander, ListedFor
<1> QED
  BY <1>1, <1>3

\* Which loop makes what, and what comes after it.
LEMMA UpTables ==
  /\ UpLoop["network"] = "networks" /\ UpLoop["volume"] = "volumes"
  /\ UpLoop["secret"] = "secrets" /\ UpLoop["pod"] = "pod"
  /\ UpPast["network"] = {"volumes", "secrets", "pod", "walk", "ok"}
  /\ UpPast["secret"] = {"pod", "walk", "ok"} /\ UpPast["pod"] = {"walk", "ok"}
  BY DEF UpLoop, UpPast

LEMMA WantedKinds ==
  ASSUME NEW p, NEW o \in Wanted(p)
  PROVE  o \in Objects /\ Kind[o] \in {"network", "secret", "pod"}
  BY FileAssumption DEF Wanted, Kinds

\* The loop a way up goes on to is past a kind only if the one it leaves is, or
\* was the one for it.
LEMMA UpAdvancePast ==
  ASSUME NEW v \in Ups, NEW k \in {"network", "secret", "pod"},
         NEW s \in {"check", "build", "networks", "volumes", "secrets", "pod"}
  PROVE  Following(v, s) \in UpPast[k] => s \in UpPast[k] \/ s = UpLoop[k]
<1>1. CASE k = "network"
  BY <1>1, UpOrder, UpTables
<1>2. CASE k = "secret"
  BY <1>2, UpOrder, UpTables
<1>3. CASE k = "pod"
  BY <1>3, UpOrder, UpTables
<1> QED
  BY <1>1, <1>2, <1>3

\* A step of a loop with one object either ends with the object made, or leaves
\* it in the loop, or is a failure.
LEMMA MoveMakes ==
  ASSUME LoopsOK, NEW p \in Projects, verb[p] \in Ups, MadeFor(p),
         NEW o \in Objects, at[p][o] # "none", pc[p] \in {"networks", "volumes", "secrets", "pod"},
         UNCHANGED <<verb, file>>, lost[p] \subseteq lost'[p],
         \A x \in Objects \ {o} : host'[x] = host[x],
         \/ \E s \in Steps \ {"none"} : Fine(p, o, s)
         \/ Fine(p, o, "none") /\ (host'[o] = p \/ o \notin Wanted(p))
         \/ Failed(p, o)
  PROVE  MadeFor(p)'
<1>1. CASE Failed(p, o)
  <2>1. err'[p]
    BY <1>1 DEF Failed, LoopsOK
  <2> QED
    BY <2>1 DEF MadeFor
<1>2. ASSUME NEW s \in Steps, Fine(p, o, s), s # "none" \/ host'[o] = p \/ o \notin Wanted(p)
      PROVE  MadeFor(p)'
  <2>1. UNCHANGED <<pc, err>> /\ at'[p] = [at[p] EXCEPT ![o] = s]
    BY <1>2 DEF Fine, Move, LoopsOK
  <2>2. at'[p][o] = s /\ \A x \in Objects \ {o} : at'[p][x] = at[p][x]
    BY <2>1 DEF LoopsOK
  <2>3. Wanted(p)' = Wanted(p)
    BY DEF Wanted
  <2>4. SUFFICES ASSUME ~err[p], NEW x \in Wanted(p), host'[x] # p, x \notin lost'[p]
                 PROVE  /\ pc[p] \notin UpPast[Kind[x]]
                        /\ pc[p] = UpLoop[Kind[x]] => at'[p][x] # "none"
    BY <2>1, <2>3 DEF MadeFor
  <2>5. CASE x = o
    <3>1. Kind[o] = Loops[pc[p]]
      BY LoopFacts, LoopKinds
    <3>2. Kind[o] \in {"network", "secret", "pod"}
      BY <2>5, WantedKinds
    <3>3. pc[p] = UpLoop[Kind[o]]
      BY <3>1, <3>2, LoopKinds, UpTables
    <3>4. UpLoop[Kind[o]] \notin UpPast[Kind[o]]
      BY <3>2, UpTables
    <3> QED
      BY <1>2, <2>2, <2>4, <2>5, <3>3, <3>4
  <2>6. CASE x # o
    <3>1. x \in Objects \ {o}
      BY <2>6, WantedKinds
    <3>2. host[x] # p /\ x \notin lost[p]
      BY <2>4, <3>1
    <3> QED
      BY <2>2, <2>4, <3>1, <3>2 DEF MadeFor
  <2> QED
    BY <2>5, <2>6
<1> QED
  BY <1>1, <1>2 DEF Steps

\* The command's next loop has everything of its kind still to do.
LEMMA ProceedMakes ==
  ASSUME LoopsOK, NEW p \in Projects, verb[p] \in Ups, MadeFor(p), NEW failed,
         pc[p] \in {"check", "build", "networks", "volumes", "secrets", "pod"},
         at[p] = Nothing, Proceed(p, pc[p], failed), UNCHANGED <<host, verb, file, lost, err>>
  PROVE  MadeFor(p)'
<1> DEFINE next == Following(verb[p], pc[p])
<1>1. next \in {"build", "networks", "volumes", "secrets", "pod", "walk"}
  BY UpNext
<1>2. pc'[p] = next /\ at'[p] = Queue(file[p], next)
  BY <1>1 DEF Proceed, LoopsOK
<1>3. SUFFICES ASSUME ~err[p], NEW o \in Wanted(p), host[o] # p, o \notin lost[p]
               PROVE  /\ next \notin UpPast[Kind[o]]
                      /\ next = UpLoop[Kind[o]] => at'[p][o] # "none"
  BY <1>2 DEF MadeFor, Wanted
<1>4. o \in Objects /\ Kind[o] \in {"network", "secret", "pod"}
  BY WantedKinds
<1>5. pc[p] \notin UpPast[Kind[o]] /\ pc[p] # UpLoop[Kind[o]]
  BY <1>3, <1>4, NothingSteps DEF MadeFor
<1>6. next \notin UpPast[Kind[o]]
  <2>1. verb[p] \in Ups
    OBVIOUS
  <2> HIDE DEF Ups
  <2> QED
    BY <1>4, <1>5, <2>1, UpAdvancePast
<1>7. ASSUME next = UpLoop[Kind[o]] PROVE at'[p][o] # "none"
  <2>1. next \in DOMAIN Loops /\ Loops[next] = Kind[o]
    BY <1>4, <1>7, LoopKinds, UpTables
  <2>2. o \in Declared(file[p], next)
    BY <2>1 DEF Declared, Wanted
  <2> QED
    BY <1>2, <1>4, <2>2 DEF Queue
<1> QED
  BY <1>6, <1>7

\* An end that is no success promises nothing.
LEMMA EndMakes ==
  ASSUME LoopsOK, NEW p \in Projects, NEW r \in {"failed", "killed"}, End(p, r)
  PROVE  MadeFor(p)' /\ ListedFor(p)'
<1>1. pc'[p] = r
  BY DEF End, LoopsOK
<1>2. ASSUME NEW k \in {"network", "secret", "pod"} PROVE r \notin UpPast[k] /\ r # UpLoop[k]
  BY UpTables
<1>3. MadeFor(p)'
  <2>1. \A o \in Wanted(p)' : Kind[o] \in {"network", "secret", "pod"}
    BY FileAssumption DEF Wanted, Kinds
  <2> QED
    BY <1>1, <1>2, <2>1 DEF MadeFor
<1>4. ListedFor(p)'
  BY <1>1 DEF ListedFor
<1> QED
  BY <1>3, <1>4

\* Where a step of the way up with an object takes place.
LEMMA UpPlace ==
  ASSUME LoopsOK, NEW p \in Projects, NEW o \in Objects, Up(p, o)
  PROVE  /\ pc[p] \in {"networks", "volumes", "secrets", "pod"} /\ at[p][o] # "none"
         /\ Kind[o] = Loops[pc[p]]
<1>1. AtOwnStep(p, o)
  BY DEF LoopsOK, Placed
<1>2. pc[p] \in {"networks", "volumes", "secrets", "pod"} /\ at[p][o] # "none"
  BY <1>1 DEF AtOwnStep, Up, EnsureExternal, CreateNetwork, CreateVolume, Create, NetworkConflict,
     VolumeConflict, Conflict, InspectSecret, InspectPod, CreateAfterLook, DeleteStaleSecret,
     DeleteStalePod, Delete, MayStart
<1> QED
  BY <1>2, LoopFacts, LoopKinds

\* Every one of them either makes its object, or keeps it in the loop, or fails.
LEMMA UpMakes ==
  ASSUME LoopsOK, DataOK, NEW p \in Projects, MadeFor(p), NEW o \in Objects, Up(p, o)
  PROVE  MadeFor(p)'
<1>1. /\ pc[p] \in {"networks", "volumes", "secrets", "pod"} /\ at[p][o] # "none"
      /\ Kind[o] = Loops[pc[p]]
  BY UpPlace
<1>2. verb[p] \in Ups /\ UNCHANGED <<verb, file>>
  BY UpVerb
<1>3. CASE EnsureExternal(p, o)
  <2>1. UNCHANGED <<host, lost>> /\ o \notin Wanted(p)
    BY <1>3 DEF EnsureExternal, Wanted
  <2>2. Fine(p, o, "none") \/ Failed(p, o)
    BY <1>3 DEF EnsureExternal
  <2> QED
    BY <1>1, <1>2, <2>1, <2>2, MoveMakes
<1>4. CASE Created(p, o) /\ UNCHANGED lost
  <2>1. /\ host' = [host EXCEPT ![o] = p] /\ UNCHANGED lost
        /\ Fine(p, o, "none") \/ Failed(p, o)
    BY <1>4 DEF Created
  <2>2. host'[o] = p /\ \A x \in Objects \ {o} : host'[x] = host[x]
    BY <2>1 DEF DataOK
  <2> QED
    BY <1>1, <1>2, <2>1, <2>2, MoveMakes
<1>5. CASE /\ UNCHANGED <<host, lost>>
           /\ (\E s \in Steps \ {"none"} : Fine(p, o, s)) \/ Failed(p, o)
  BY <1>1, <1>2, <1>5, MoveMakes
<1>6. CASE /\ UNCHANGED <<host, lost>> /\ Fine(p, o, "none")
           /\ host[o] = p \/ Kind[o] = "volume"
  <2>1. host'[o] = p \/ o \notin Wanted(p)
    BY <1>6 DEF Wanted
  <2> QED
    BY <1>1, <1>2, <1>6, <2>1, MoveMakes
<1>7. CASE CreateNetwork(p, o) \/ CreateVolume(p, o) \/ CreateAfterLook(p, o)
  BY <1>4, <1>5, <1>7 DEF CreateNetwork, CreateVolume, Create, CreateAfterLook, Steps
<1>8. CASE NetworkConflict(p, o)
  BY <1>5, <1>6, <1>8 DEF NetworkConflict, Conflict
<1>9. CASE VolumeConflict(p, o)
  <2>1. Kind[o] = "volume"
    BY <1>1, <1>9, LoopKinds DEF VolumeConflict
  <2> QED
    BY <1>5, <1>6, <1>9, <2>1 DEF VolumeConflict, Conflict
<1>10. CASE InspectSecret(p, o) \/ InspectPod(p, o)
  BY <1>5, <1>6, <1>10 DEF InspectSecret, InspectPod, Steps
<1>11. CASE Delete(p, o)
  <2>1. CASE UNCHANGED <<host, lost>> /\ Failed(p, o)
    BY <1>5, <2>1
  <2>2. CASE /\ host' = [host EXCEPT ![o] = Absent]
             /\ lost' = [q \in Projects |-> IF host[o] = q /\ q # p THEN lost[q] \cup {o} ELSE lost[q]]
             /\ AfterDelete(p, o) \/ Failed(p, o)
    <3>1. lost'[p] = lost[p] /\ \A x \in Objects \ {o} : host'[x] = host[x]
      BY <2>2 DEF DataOK
    <3>2. Fine(p, o, "recreate") \/ Failed(p, o)
      BY <1>2, <2>2 DEF AfterDelete
    <3> QED
      BY <1>1, <1>2, <3>1, <3>2, MoveMakes DEF Steps
  <2> QED
    BY <1>11, <2>1, <2>2 DEF Delete
<1> QED
  BY <1>3, <1>7, <1>8, <1>9, <1>10, <1>11 DEF Up, DeleteStaleSecret, DeleteStalePod

\* A step that leaves a pod that is about to be recreated alone leaves the list
\* of containers true.
LEMMA MoveLists ==
  ASSUME LoopsOK, NEW p \in Projects, verb[p] \in Ups, ListedFor(p), NEW o \in Objects,
         pc[p] \in {"networks", "volumes", "secrets", "pod"},
         at[p][o] # "recreate" \/ Kind[o] # "pod",
         members[p] => members'[p], lost[p] \subseteq lost'[p], existing'[p] => existing[p],
         (\E s \in Steps : Fine(p, o, s)) \/ Failed(p, o)
  PROVE  ListedFor(p)'
<1>1. CASE End(p, "failed")
  BY <1>1, EndMakes
<1>2. ASSUME NEW s \in Steps, Move(p, o, s), UNCHANGED pc PROVE ListedFor(p)'
  <2>1. \A x \in Objects \ {o} : at'[p][x] = at[p][x]
    BY <1>2 DEF Move, LoopsOK
  <2>2. Standing(p) => Standing(p)'
    BY DEF Standing
  <2>3. (\E x \in Objects : Kind[x] = "pod" /\ at[p][x] = "recreate") =>
        \E x \in Objects : Kind[x] = "pod" /\ at'[p][x] = "recreate"
    BY <2>1
  <2> QED
    BY <1>2, <2>2, <2>3 DEF ListedFor
<1> QED
  BY <1>1, <1>2 DEF Fine, Failed, Steps

LEMMA UpLists ==
  ASSUME LoopsOK, DataOK, NEW p \in Projects, ListedFor(p), NEW o \in Objects, Up(p, o)
  PROVE  ListedFor(p)'
<1>1. pc[p] \in {"networks", "volumes", "secrets", "pod"} /\ Kind[o] = Loops[pc[p]]
  BY UpPlace
<1>2. verb[p] \in Ups /\ UNCHANGED <<verb, file>>
  BY UpVerb
<1>3. CASE /\ at[p][o] # "recreate" \/ Kind[o] # "pod"
           /\ UNCHANGED <<members, lost>> /\ (existing'[p] => existing[p])
           /\ (\E s \in Steps : Fine(p, o, s)) \/ Failed(p, o)
  BY <1>1, <1>2, <1>3, MoveLists
<1>4. CASE EnsureExternal(p, o) \/ CreateNetwork(p, o) \/ CreateVolume(p, o) \/ NetworkConflict(p, o)
           \/ VolumeConflict(p, o) \/ InspectSecret(p, o) \/ InspectPod(p, o)
  <2>1. UNCHANGED <<members, lost, existing>> /\ at[p][o] # "recreate"
    BY <1>4 DEF EnsureExternal, CreateNetwork, CreateVolume, Create, NetworkConflict,
       VolumeConflict, Conflict, InspectSecret, InspectPod, MayStart
  <2>2. (\E s \in Steps : Fine(p, o, s)) \/ Failed(p, o)
    BY <1>4 DEF EnsureExternal, CreateNetwork, CreateVolume, Create, Created, NetworkConflict,
       VolumeConflict, Conflict, InspectSecret, InspectPod, Steps
  <2> QED
    BY <1>3, <2>1, <2>2
<1>5. CASE CreateAfterLook(p, o)
  <2>1. UNCHANGED <<members, lost>> /\ existing' = [existing EXCEPT ![p] = ListAfter(p, o)]
    BY <1>5 DEF CreateAfterLook
  <2>2. Fine(p, o, "none") \/ Failed(p, o)
    BY <1>5 DEF CreateAfterLook, Created
  <2>3. existing'[p] = (existing[p] /\ ~(Kind[o] = "pod" /\ at[p][o] = "recreate"))
    BY <2>1 DEF DataOK, ListAfter
  <2>4. CASE at[p][o] # "recreate" \/ Kind[o] # "pod"
    BY <1>3, <2>1, <2>2, <2>3, <2>4 DEF Steps
  <2>5. CASE at[p][o] = "recreate" /\ Kind[o] = "pod"
    <3>1. ~existing'[p]
      BY <2>3, <2>5
    <3>2. pc'[p] # "ok"
      BY <1>1, <2>2 DEF Fine, Failed, Move, End, LoopsOK
    <3> QED
      BY <3>1, <3>2 DEF ListedFor
  <2> QED
    BY <2>4, <2>5
<1>6. CASE Delete(p, o)
  <2>1. at[p][o] = "delete" /\ UNCHANGED existing
    BY <1>6 DEF Delete
  <2>2. CASE UNCHANGED <<members, lost>> /\ Failed(p, o)
    BY <1>3, <2>1, <2>2
  <2>3. CASE /\ members' = [q \in Projects |-> members[q] /\ ~(Kind[o] = "pod" /\ host[o] = q)]
             /\ lost' = [q \in Projects |-> IF host[o] = q /\ q # p THEN lost[q] \cup {o} ELSE lost[q]]
             /\ AfterDelete(p, o) \/ Failed(p, o)
    <3>1. lost'[p] = lost[p] /\ (Kind[o] # "pod" => members'[p] = members[p])
      BY <2>3 DEF DataOK
    <3>2. Fine(p, o, "recreate") \/ Failed(p, o)
      BY <1>2, <2>3 DEF AfterDelete
    <3>3. CASE Kind[o] # "pod"
      BY <1>1, <1>2, <2>1, <3>1, <3>2, <3>3, MoveLists DEF Steps
    <3>4. CASE Kind[o] = "pod"
      <4>1. pc[p] = "pod"
        BY <1>1, <3>4, LoopKinds
      <4>2. CASE Failed(p, o)
        BY <1>2, <4>1, <4>2, EndMakes DEF Failed
      <4>3. CASE Fine(p, o, "recreate")
        <5>1. at'[p][o] = "recreate" /\ pc'[p] = "pod"
          BY <4>1, <4>3 DEF Fine, Move, LoopsOK
        <5> QED
          BY <3>4, <5>1 DEF ListedFor
      <4> QED
        BY <3>2, <4>2, <4>3
    <3> QED
      BY <3>3, <3>4
  <2> QED
    BY <1>6, <2>2, <2>3 DEF Delete
<1> QED
  BY <1>4, <1>5, <1>6 DEF Up, DeleteStaleSecret, DeleteStalePod

\* Between its loops a way up has nothing under way, so its list must be true.
LEMMA ProceedLists ==
  ASSUME LoopsOK, NEW p \in Projects, verb[p] \in Ups, ListedFor(p), NEW failed,
         pc[p] \in {"check", "build", "networks", "volumes", "secrets", "pod"},
         at[p] = Nothing, Proceed(p, pc[p], failed), UNCHANGED <<members, lost>>,
         existing'[p] => existing[p] \/ members[p]
  PROVE  ListedFor(p)'
<1> DEFINE next == Following(verb[p], pc[p])
<1>1. next \in {"build", "networks", "volumes", "secrets", "pod", "walk"}
  BY UpNext
<1>2. pc'[p] = next
  BY <1>1 DEF Proceed, LoopsOK
<1>3. existing[p] => Standing(p)
  BY NothingSteps DEF ListedFor
<1>4. existing'[p] => Standing(p)'
  BY <1>3 DEF Standing
<1> QED
  BY <1>1, <1>2, <1>4 DEF ListedFor

\* What a way up does for no object in particular.
LEMMA WholeDelivers ==
  ASSUME LoopsOK, DataOK, NEW p \in Projects, MadeFor(p), ListedFor(p),
         \/ Reject(p) \/ UnreadableSecret(p) \/ Snapshot(p) \/ Build(p) \/ Walk(p)
         \/ Advance(p) /\ verb[p] \in Ups
  PROVE  MadeFor(p)' /\ ListedFor(p)'
<1>1. InOwnLoop(p) /\ verb[p] \in Ups
  <2>1. pc[p] \in UpStages \/ verb[p] \in Ups
    BY DEF Reject, UnreadableSecret, Snapshot, Build, Walk, UpStages
  <2> QED
    BY <2>1, LoopFacts DEF LoopsOK, Placed
<1>2. CASE End(p, "failed")
  BY <1>2, EndMakes
<1>3. CASE /\ UNCHANGED <<host, members, verb, file, lost, err>>
           /\ existing'[p] => existing[p] \/ members[p]
           /\ pc[p] \in {"check", "build", "networks", "volumes", "secrets", "pod"}
           /\ at[p] = Nothing
           /\ \E failed : Proceed(p, pc[p], failed)
  BY <1>1, <1>3, ProceedMakes, ProceedLists
<1>4. CASE Reject(p) \/ UnreadableSecret(p)
  BY <1>2, <1>4 DEF Reject, UnreadableSecret
<1>5. CASE Snapshot(p) \/ Build(p)
  <2>1. pc[p] \in {"check", "build"} /\ UNCHANGED <<host, members, verb, file, lost>>
    BY <1>5 DEF Snapshot, Build, input
  <2>2. at[p] = Nothing
    BY <1>1, <2>1, LoopKinds DEF InOwnLoop, Working, Sweeping
  <2>3. \/ End(p, "failed")
        \/ /\ UNCHANGED err /\ \E failed : Proceed(p, pc[p], failed)
           /\ existing' \in {existing, [existing EXCEPT ![p] = members[p]]}
    BY <1>5 DEF Snapshot, Build
  <2>4. existing' \in {existing, [existing EXCEPT ![p] = members[p]]} =>
          (existing'[p] => existing[p] \/ members[p])
    BY DEF DataOK
  <2> QED
    BY <1>2, <1>3, <2>1, <2>2, <2>3, <2>4
<1>6. CASE Advance(p)
  <2>1. /\ pc[p] \in Working /\ at[p] = Nothing
        /\ UNCHANGED <<host, members, verb, file, lost, err, existing>>
        /\ End(p, "failed") \/ Proceed(p, pc[p], err[p])
    BY <1>6 DEF Advance, input
  <2>2. pc[p] \in {"networks", "volumes", "secrets", "pod"}
    BY <1>1, <2>1, LoopKinds DEF InOwnLoop, UpStages, Working, Sweeping
  <2> QED
    BY <1>2, <1>3, <2>1, <2>2
<1>7. CASE Walk(p)
  <2>1. pc[p] = "walk" /\ UNCHANGED <<host, verb, file, existing, lost>>
    BY <1>7 DEF Walk, input
  <2>2. at[p] = Nothing
    BY <1>1, <2>1, LoopKinds DEF InOwnLoop, Working, Sweeping
  <2>3. CASE End(p, "ok") /\ UNCHANGED err
    <3>1. pc'[p] = "ok" /\ at'[p] = Nothing
      BY <2>3 DEF End, LoopsOK
    <3>2. MadeFor(p)'
      <4>1. SUFFICES ASSUME ~err[p], NEW o \in Wanted(p), host[o] # p, o \notin lost[p]
                     PROVE  FALSE
        BY <2>1, <2>3, <3>1 DEF MadeFor, Wanted
      <4>2. pc[p] \in UpPast[Kind[o]]
        BY <2>1, WantedKinds, UpTables
      <4> QED
        BY <1>1, <4>1, <4>2 DEF MadeFor
    <3>3. existing[p] => Standing(p)
      BY <1>1, <2>1, <2>2, NothingSteps DEF ListedFor
    <3>4. members'[p] \/ (existing[p] /\ members' = members)
      <4>1. ~End(p, "failed")
        BY <3>1 DEF End, LoopsOK
      <4>2. CASE members' = [members EXCEPT ![p] = TRUE]
        BY <4>2 DEF DataOK
      <4> QED
        BY <1>7, <4>1, <4>2 DEF Walk
    <3>5. Standing(p)'
      BY <2>1, <3>3, <3>4 DEF Standing
    <3> QED
      BY <3>1, <3>2, <3>5 DEF ListedFor
  <2> QED
    BY <1>2, <1>7, <2>3 DEF Walk
<1> QED
  BY <1>4, <1>5, <1>6, <1>7

LEMMA OwnFiles ==
  ASSUME DataOK, NEW p \in Projects
  PROVE  file[p].own \subseteq Objects
<1>1. file[p] \in Files
  BY DEF DataOK
<1>2. CASE file[p] = NoFile
  BY <1>2 DEF NoFile
<1>3. ASSUME NEW q \in Projects, file[p] \in FilesOf[q] PROVE file[p].own \subseteq Objects
  BY <1>3, FileAssumption
<1>4. file[p] = NoFile \/ \E q \in Projects : file[p] \in FilesOf[q]
  BY <1>1 DEF Files
<1> QED
  BY <1>2, <1>3, <1>4

LEMMA DeliveringKept ==
  ASSUME LoopsOK, DataOK, Delivering, [Next]_vars
  PROVE  Delivering'
<1> SUFFICES ASSUME NEW p \in Projects PROVE MadeFor(p)' /\ ListedFor(p)'
  BY DEF Delivering
<1>0. MadeFor(p) /\ ListedFor(p)
  BY DEF Delivering
<1>1. CASE UNCHANGED vars
  BY <1>0, <1>1 DEF vars, MadeFor, Wanted, ListedFor, Standing
<1>2. ASSUME NEW q \in Projects \ {p}, Command(q) PROVE MadeFor(p)' /\ ListedFor(p)'
  BY <1>0, <1>2, CommandBystander, BystanderMakes
<1>3. ASSUME NEW o \in Objects, MakeByHand(o) \/ RemoveByHand(o)
      PROVE  MadeFor(p)' /\ ListedFor(p)'
  BY <1>0, <1>3, ByHandBystander, BystanderMakes
<1>4. CASE Command(p)
  <2>1. ASSUME NEW v \in VerbsOf[p], NEW f, Begin(p, v, f) PROVE MadeFor(p)' /\ ListedFor(p)'
    <3>1. pc'[p] = Following(v, "start") /\ verb'[p] = v /\ ~existing'[p]
      BY <2>1 DEF Begin, LoopsOK, DataOK
    <3>2. v \in Ups => pc'[p] = "check"
      BY <3>1, UpOrder
    <3>3. \A o \in Wanted(p)' : Kind[o] \in {"network", "secret", "pod"}
      BY FileAssumption DEF Wanted, Kinds
    <3>4. \A k \in {"network", "secret", "pod"} : "check" \notin UpPast[k] /\ "check" # UpLoop[k]
      BY UpTables
    <3> QED
      BY <3>1, <3>2, <3>3, <3>4 DEF MadeFor, ListedFor
  <2>2. ASSUME NEW o \in Objects, Up(p, o) PROVE MadeFor(p)' /\ ListedFor(p)'
    BY <1>0, <2>2, UpMakes, UpLists
  <2>3. CASE verb[p] \in Downs /\ UNCHANGED verb
    BY <2>3 DEF MadeFor, ListedFor
  <2>4. ASSUME NEW o \in Objects, Down(p, o) PROVE MadeFor(p)' /\ ListedFor(p)'
    <3>1. pc[p] \in DownStages /\ UNCHANGED verb
      BY <2>4 DEF Down, CheckPod, CheckNetwork, CheckVolume, CheckSecret, Check, DeletePod,
         DeleteNetwork, DeleteVolume, DeleteSecret, SweepPod, SweepNetwork, SweepVolume, SweepSecret,
         Delete, DownStages, input
    <3> QED
      BY <2>3, <3>1, LoopFacts
  <2>5. CASE RemoveMembers(p) \/ List(p)
    <3>1. pc[p] \in DownStages /\ UNCHANGED verb
      BY <2>5 DEF RemoveMembers, List, ListPods, ListNetworks, ListVolumes, ListSecrets, DownStages, input
    <3> QED
      BY <2>3, <3>1, LoopFacts
  <2>6. CASE Reject(p) \/ UnreadableSecret(p) \/ Snapshot(p) \/ Build(p) \/ Walk(p)
    BY <1>0, <2>6, WholeDelivers
  <2>7. CASE Advance(p)
    <3>1. verb[p] \in Ups \cup Downs /\ UNCHANGED verb
      BY <2>7 DEF Advance, input, LoopsOK
    <3> QED
      BY <1>0, <2>3, <2>7, <3>1, WholeDelivers
  <2>8. CASE Kill(p)
    BY <2>8, EndMakes DEF Kill
  <2> QED
    BY <1>4, <2>1, <2>2, <2>4, <2>5, <2>6, <2>7, <2>8
    DEF Command, InvalidName, PodRefused, UnknownService, SpecRefused, NameShared
<1> QED
  BY <1>1, <1>2, <1>3, <1>4 DEF Next

\* An up or a create that reports success has the networks, secrets and the pod
\* of its file as its own, and its containers, whatever other projects name and
\* whoever else uses Podman, unless somebody else removed one of those meanwhile.
THEOREM UpDeliversHolds == Spec => []UpDelivers
<1> DEFINE I == LoopsOK /\ DataOK /\ Delivering
<1>1. Init => I
  <2>1. Init => Delivering
    <3>1. SUFFICES ASSUME Init, NEW p \in Projects PROVE MadeFor(p) /\ ListedFor(p)
      BY DEF Delivering
    <3>2. file[p].own = {} /\ ~existing[p] /\ pc[p] = "idle"
      BY <3>1 DEF Init, NoFile
    <3> QED
      BY <3>2 DEF MadeFor, Wanted, ListedFor
  <2> QED
    BY <2>1, TypesBegin
<1>2. I /\ [Next]_vars => I'
  BY TypesKept, DeliveringKept
<1>3. I => UpDelivers
  <2> SUFFICES ASSUME I, NEW p \in Projects, pc[p] = "ok", verb[p] \in Ups
               PROVE  /\ \A o \in Wanted(p) : host[o] = p \/ o \in lost[p]
                      /\ Standing(p)
    <3>1. DataOK => \A q \in Projects : file[q].own \subseteq Objects
      BY OwnFiles
    <3> QED
      BY <3>1 DEF UpDelivers, Wanted, Standing
  <2>1. ~err[p]
    BY DEF LoopsOK, Placed, InOwnLoop
  <2>2. \A o \in Wanted(p) : pc[p] \in UpPast[Kind[o]]
    BY WantedKinds, UpTables
  <2> QED
    BY <2>1, <2>2 DEF Delivering, MadeFor, ListedFor
<1> QED
  BY <1>1, <1>2, <1>3, PTL DEF Spec
=============================================================================

-------------------------- MODULE UpSchedulerProofs --------------------------
(***************************************************************************)
(* What holds of every run of `podup up`, for every set of services, every *)
(* replica limit, every number of permits and every compose file: IInv is  *)
(* inductive, and RequiredDepsUp and ConditionsHeld follow from it.        *)
(***************************************************************************)
EXTENDS UpScheduler, TLAPS

\* A container belongs to a service.
LEMMA ContainerService ==
    ASSUME NEW c \in Container
    PROVE  c[1] \in Service
  BY DEF Container

\* The containers of a service of the file carry its name.
LEMMA ReplicaOf ==
    ASSUME TypeOK, NEW s \in Service, NEW c \in Replicas(s)
    PROVE  c \in Container /\ c[1] = s
  <1>1. file.replicas[s] \in 0 .. MaxReplicas
    BY FilesAssumption DEF TypeOK, FileType
  <1>2. 1 .. file.replicas[s] \subseteq 1 .. MaxReplicas
    BY <1>1, ReplicasAssumption
  <1> QED
    BY <1>2 DEF Replicas, Container

\* Only services of the project are depended on within a run.
LEMMA DepsService ==
    ASSUME TypeOK, NEW s, NEW d \in Deps(s)
    PROVE  d \in Service
  BY FilesAssumption DEF Deps, TypeOK, FileType

\* What a service awaits are replicas of dependencies of this run.
LEMMA WaitOf ==
    ASSUME TypeOK, NEW s \in Service, NEW c \in Waits(s)
    PROVE  /\ c \in Container /\ c[1] \in Deps(s) /\ c \in Replicas(c[1])
           /\ file.start /\ Gates(s, c[1])
  <1>1. file.start
    BY DEF Waits
  <1>2. PICK d \in Deps(s) : Gates(s, d) /\ c \in Replicas(d)
    BY <1>1 DEF Waits
  <1>3. d \in Service
    BY FilesAssumption DEF Deps, TypeOK, FileType
  <1> QED
    BY <1>1, <1>2, <1>3, ReplicaOf

\* Everything read from the compose file stays what it is.
LEMMA FileFixed ==
    ASSUME file' = file
    PROVE  /\ \A s : Deps(s)' = Deps(s) /\ Waits(s)' = Waits(s) /\ Replicas(s)' = Replicas(s)
           /\ \A s : Tolerated(s)' = Tolerated(s)
  <1>1. /\ \A s : Deps(s)' = Deps(s)
        /\ \A s : Replicas(s)' = Replicas(s)
        /\ \A s, d : Gates(s, d)' = Gates(s, d)
    BY DEF Deps, Replicas, Gates
  <1>2. \A s : Waits(s)' = Waits(s)
    BY <1>1 DEF Waits
  <1>3. \A s : Tolerated(s)' = Tolerated(s)
    BY DEF Tolerated, optional_for_every_dependent, Dependents
  <1> QED
    BY <1>1, <1>2, <1>3

\* Every step of the walk, of a poller and of a container keeps IInv.
LEMMA Inductive == IInv /\ [Next]_vars => IInv'
  <1> SUFFICES ASSUME IInv, [Next]_vars PROVE IInv'
    OBVIOUS
  <1>1. ASSUME NEW s \in Service, DepsSignalled(s) PROVE IInv'
    <2>1. /\ \A x : Deps(x)' = Deps(x) /\ Waits(x)' = Waits(x) /\ Replicas(x)' = Replicas(x)
          /\ \A x : Tolerated(x)' = Tolerated(x)
      BY <1>1, FileFixed DEF DepsSignalled
    <2>2. TypeOK'
      BY <1>1 DEF IInv, TypeOK, PCs, DepsSignalled, contVars
    <2>3. DoneIsLast'
      BY <1>1 DEF IInv, TypeOK, DoneIsLast, DepsSignalled, contVars
    <2>4. OnlyScheduled'
      BY <1>1 DEF IInv, TypeOK, OnlyScheduled, DepsSignalled, contVars
    <2>5. DepsDone'
      BY <1>1, <2>1, DepsService, ContainerService
      DEF IInv, TypeOK, DepsDone, DoneIsLast, DepsSignalled, contVars
    <2>6. Awaited'
      BY <1>1, <2>1, ContainerService, ReplicaOf, WaitOf
      DEF IInv, TypeOK, Awaited, DoneIsLast, DepsSignalled, contVars
    <2>7. GivenUpTolerated' /\ ReplicaState' /\ ReplicasUp' /\ PollerAfterDone' /\ PassedMet'
      BY <1>1, <2>1
      DEF IInv, GivenUpTolerated, ReplicaState, ReplicasUp, PollerAfterDone, PassedMet, TypeOK, DepsSignalled, contVars
    <2> QED
      BY <2>2, <2>3, <2>4, <2>5, <2>6, <2>7 DEF IInv
  <1>2. ASSUME NEW s \in Service, TakePermit(s) PROVE IInv'
    <2>1. /\ \A x : Deps(x)' = Deps(x) /\ Waits(x)' = Waits(x) /\ Replicas(x)' = Replicas(x)
          /\ \A x : Tolerated(x)' = Tolerated(x)
      BY <1>2, FileFixed DEF TakePermit
    <2>2. TypeOK'
      BY <1>2 DEF IInv, TypeOK, PCs, TakePermit, contVars, Running
    <2>3. DoneIsLast'
      BY <1>2 DEF IInv, TypeOK, DoneIsLast, TakePermit, contVars, Running
    <2>4. OnlyScheduled'
      BY <1>2 DEF IInv, TypeOK, OnlyScheduled, TakePermit, contVars, Running
    <2>5. DepsDone'
      BY <1>2, <2>1, DepsService, ContainerService
      DEF IInv, TypeOK, DepsDone, DoneIsLast, TakePermit, contVars, Running
    <2>6. Awaited'
      BY <1>2, <2>1, ContainerService, ReplicaOf, WaitOf
      DEF IInv, TypeOK, Awaited, DoneIsLast, TakePermit, contVars, Running
    <2>7. GivenUpTolerated' /\ ReplicaState' /\ ReplicasUp' /\ PollerAfterDone' /\ PassedMet'
      BY <1>2, <2>1
      DEF IInv, GivenUpTolerated, ReplicaState, ReplicasUp, PollerAfterDone, PassedMet, TypeOK, TakePermit, contVars
    <2> QED
      BY <2>2, <2>3, <2>4, <2>5, <2>6, <2>7 DEF IInv
  <1>3. ASSUME NEW s \in Service, WaitMet(s) PROVE IInv'
    <2>1. /\ \A x : Deps(x)' = Deps(x) /\ Waits(x)' = Waits(x) /\ Replicas(x)' = Replicas(x)
          /\ \A x : Tolerated(x)' = Tolerated(x)
      BY <1>3, FileFixed DEF WaitMet
    <2>2. TypeOK'
      BY <1>3 DEF IInv, TypeOK, PCs, WaitMet, contVars
    <2>3. Awaited'
      BY <1>3, <2>1, ContainerService, ReplicaOf, WaitOf
      DEF IInv, TypeOK, Awaited, DoneIsLast, WaitMet, contVars
    <2>4. PassedMet'
      BY <1>3, ContainerService, ReplicaOf, WaitOf
      DEF IInv, TypeOK, PassedMet, DoneIsLast, DepsDone, Awaited, PollerAfterDone, WaitMet, contVars
    <2>5. DoneIsLast' /\ OnlyScheduled' /\ DepsDone' /\ GivenUpTolerated' /\ ReplicaState' /\ ReplicasUp' /\ PollerAfterDone'
      BY <1>3, <2>1
      DEF IInv, DoneIsLast, OnlyScheduled, DepsDone, GivenUpTolerated, ReplicaState, ReplicasUp, PollerAfterDone, TypeOK, WaitMet, contVars
    <2> QED
      BY <2>2, <2>3, <2>4, <2>5 DEF IInv
  <1>4. ASSUME NEW s \in Service, WaitFailed(s) PROVE IInv'
    <2>1. /\ \A x : Deps(x)' = Deps(x) /\ Waits(x)' = Waits(x) /\ Replicas(x)' = Replicas(x)
          /\ \A x : Tolerated(x)' = Tolerated(x)
      BY <1>4, FileFixed DEF WaitFailed
    <2>2. TypeOK'
      BY <1>4 DEF IInv, TypeOK, PCs, WaitFailed, contVars, Fail, Running
    <2>3. DoneIsLast'
      BY <1>4 DEF IInv, TypeOK, DoneIsLast, WaitFailed, contVars, Fail, Running
    <2>4. OnlyScheduled'
      BY <1>4 DEF IInv, TypeOK, OnlyScheduled, WaitFailed, contVars, Fail, Running
    <2>5. DepsDone'
      BY <1>4, <2>1, DepsService, ContainerService
      DEF IInv, TypeOK, DepsDone, DoneIsLast, WaitFailed, contVars, Fail, Running
    <2>6. GivenUpTolerated'
      BY <1>4, <2>1, ContainerService
      DEF IInv, TypeOK, GivenUpTolerated, WaitFailed, contVars, Fail, Running
    <2>7. ReplicasUp'
      BY <1>4, <2>1, ContainerService, ReplicaOf, WaitOf
      DEF IInv, TypeOK, ReplicasUp, DoneIsLast, WaitFailed, contVars, Fail, Running
    <2>8. PollerAfterDone'
      BY <1>4, <2>1, ContainerService, ReplicaOf, WaitOf
      DEF IInv, TypeOK, PollerAfterDone, DoneIsLast, DepsDone, ReplicaState, ReplicasUp, Awaited, WaitFailed, contVars, Fail, Running
    <2>9. Awaited'
      BY <1>4, <2>1, ContainerService, ReplicaOf, WaitOf
      DEF IInv, TypeOK, Awaited, DoneIsLast, WaitFailed, contVars, Fail, Running
    <2>10. PassedMet'
      <3>1. UNCHANGED <<file, poll, cont>>
        BY <1>4 DEF WaitFailed, contVars
      <3>2. PassedMet /\ passed \in [Service -> SUBSET Container]
        BY DEF IInv, TypeOK
      <3>3. CASE passed' = passed
        BY <3>1, <3>2, <3>3 DEF PassedMet
      <3>4. CASE passed' = [passed EXCEPT ![s] = @ \cup {at[s]}] /\ at[s][1] \notin file.required[s]
        BY <3>1, <3>2, <3>4 DEF PassedMet
      <3> QED
        BY <1>4, <3>3, <3>4 DEF WaitFailed
    <2>11. ReplicaState'
      BY <1>4, <2>1
      DEF IInv, ReplicaState, TypeOK, WaitFailed, contVars
    <2> QED
      BY <2>2, <2>3, <2>4, <2>5, <2>6, <2>7, <2>8, <2>9, <2>10, <2>11 DEF IInv
  <1>5. ASSUME NEW s \in Service, CondsMet(s) PROVE IInv'
    <2>1. /\ \A x : Deps(x)' = Deps(x) /\ Waits(x)' = Waits(x) /\ Replicas(x)' = Replicas(x)
          /\ \A x : Tolerated(x)' = Tolerated(x)
      BY <1>5, FileFixed DEF CondsMet
    <2>2. TypeOK'
      BY <1>5 DEF IInv, TypeOK, PCs, CondsMet, contVars
    <2>3. DoneIsLast'
      BY <1>5 DEF IInv, TypeOK, DoneIsLast, CondsMet, contVars
    <2>4. OnlyScheduled'
      BY <1>5 DEF IInv, TypeOK, OnlyScheduled, CondsMet, contVars
    <2>5. DepsDone'
      BY <1>5, <2>1, DepsService, ContainerService
      DEF IInv, TypeOK, DepsDone, DoneIsLast, CondsMet, contVars
    <2>6. Awaited'
      BY <1>5, <2>1, ContainerService, ReplicaOf, WaitOf
      DEF IInv, TypeOK, Awaited, DoneIsLast, CondsMet, contVars
    <2>7. GivenUpTolerated' /\ ReplicaState' /\ ReplicasUp' /\ PollerAfterDone' /\ PassedMet'
      BY <1>5, <2>1
      DEF IInv, GivenUpTolerated, ReplicaState, ReplicasUp, PollerAfterDone, PassedMet, TypeOK, CondsMet, contVars
    <2> QED
      BY <2>2, <2>3, <2>4, <2>5, <2>6, <2>7 DEF IInv
  <1>6. ASSUME NEW s \in Service, ImageAcquired(s) PROVE IInv'
    <2>1. /\ \A x : Deps(x)' = Deps(x) /\ Waits(x)' = Waits(x) /\ Replicas(x)' = Replicas(x)
          /\ \A x : Tolerated(x)' = Tolerated(x)
      BY <1>6, FileFixed DEF ImageAcquired
    <2>2. TypeOK'
      BY <1>6 DEF IInv, TypeOK, PCs, ImageAcquired, contVars
    <2>3. DoneIsLast'
      BY <1>6 DEF IInv, TypeOK, DoneIsLast, ImageAcquired, contVars
    <2>4. OnlyScheduled'
      BY <1>6 DEF IInv, TypeOK, OnlyScheduled, ImageAcquired, contVars
    <2>5. DepsDone'
      BY <1>6, <2>1, DepsService, ContainerService
      DEF IInv, TypeOK, DepsDone, DoneIsLast, ImageAcquired, contVars
    <2>6. Awaited'
      BY <1>6, <2>1, ContainerService, ReplicaOf, WaitOf
      DEF IInv, TypeOK, Awaited, DoneIsLast, ImageAcquired, contVars
    <2>7. GivenUpTolerated' /\ ReplicaState' /\ ReplicasUp' /\ PollerAfterDone' /\ PassedMet'
      BY <1>6, <2>1
      DEF IInv, GivenUpTolerated, ReplicaState, ReplicasUp, PollerAfterDone, PassedMet, TypeOK, ImageAcquired, contVars
    <2> QED
      BY <2>2, <2>3, <2>4, <2>5, <2>6, <2>7 DEF IInv
  <1>7. ASSUME NEW s \in Service, ServiceRejected(s) PROVE IInv'
    <2>1. /\ \A x : Deps(x)' = Deps(x) /\ Waits(x)' = Waits(x) /\ Replicas(x)' = Replicas(x)
          /\ \A x : Tolerated(x)' = Tolerated(x)
      BY <1>7, FileFixed DEF ServiceRejected
    <2>2. TypeOK'
      BY <1>7 DEF IInv, TypeOK, PCs, ServiceRejected, contVars, Fail, Running
    <2>3. DoneIsLast'
      BY <1>7 DEF IInv, TypeOK, DoneIsLast, ServiceRejected, contVars, Fail, Running
    <2>4. OnlyScheduled'
      BY <1>7 DEF IInv, TypeOK, OnlyScheduled, ServiceRejected, contVars, Fail, Running
    <2>5. DepsDone'
      BY <1>7, <2>1, DepsService, ContainerService
      DEF IInv, TypeOK, DepsDone, DoneIsLast, ServiceRejected, contVars, Fail, Running
    <2>6. GivenUpTolerated'
      BY <1>7, <2>1, ContainerService
      DEF IInv, TypeOK, GivenUpTolerated, ServiceRejected, contVars, Fail, Running
    <2>7. ReplicasUp'
      BY <1>7, <2>1, ContainerService, ReplicaOf, WaitOf
      DEF IInv, TypeOK, ReplicasUp, DoneIsLast, ServiceRejected, contVars, Fail, Running
    <2>8. PollerAfterDone'
      BY <1>7, <2>1, ContainerService, ReplicaOf, WaitOf
      DEF IInv, TypeOK, PollerAfterDone, DoneIsLast, DepsDone, ReplicaState, ReplicasUp, Awaited, ServiceRejected, contVars, Fail, Running
    <2>9. Awaited'
      BY <1>7, <2>1, ContainerService, ReplicaOf, WaitOf
      DEF IInv, TypeOK, Awaited, DoneIsLast, ServiceRejected, contVars, Fail, Running
    <2>10. ReplicaState' /\ PassedMet'
      BY <1>7, <2>1
      DEF IInv, ReplicaState, PassedMet, TypeOK, ServiceRejected, contVars
    <2> QED
      BY <2>2, <2>3, <2>4, <2>5, <2>6, <2>7, <2>8, <2>9, <2>10 DEF IInv
  <1>8. ASSUME NEW s \in Service, ServiceUp(s) PROVE IInv'
    <2>1. /\ \A x : Deps(x)' = Deps(x) /\ Waits(x)' = Waits(x) /\ Replicas(x)' = Replicas(x)
          /\ \A x : Tolerated(x)' = Tolerated(x)
      BY <1>8, FileFixed DEF ServiceUp
    <2>2. TypeOK'
      BY <1>8 DEF IInv, TypeOK, PCs, ServiceUp, contVars, Joined, FirstError
    <2>3. DoneIsLast'
      BY <1>8 DEF IInv, TypeOK, DoneIsLast, ServiceUp, contVars, Joined, FirstError
    <2>4. OnlyScheduled'
      BY <1>8 DEF IInv, TypeOK, OnlyScheduled, ServiceUp, contVars, Joined, FirstError
    <2>5. DepsDone'
      BY <1>8, <2>1, DepsService, ContainerService
      DEF IInv, TypeOK, DepsDone, DoneIsLast, ServiceUp, contVars, Joined, FirstError
    <2>6. GivenUpTolerated'
      BY <1>8, <2>1, ContainerService
      DEF IInv, TypeOK, GivenUpTolerated, ServiceUp, contVars, Joined, FirstError
    <2>7. ReplicasUp'
      BY <1>8, <2>1, ContainerService, ReplicaOf, WaitOf
      DEF IInv, TypeOK, ReplicasUp, DoneIsLast, ServiceUp, contVars, Joined, FirstError
    <2>8. PollerAfterDone'
      BY <1>8, <2>1, ContainerService, ReplicaOf, WaitOf
      DEF IInv, TypeOK, PollerAfterDone, DoneIsLast, DepsDone, ReplicaState, ReplicasUp, Awaited, ServiceUp, contVars, Joined, FirstError
    <2>9. Awaited'
      BY <1>8, <2>1, ContainerService, ReplicaOf, WaitOf
      DEF IInv, TypeOK, Awaited, DoneIsLast, ServiceUp, contVars, Joined, FirstError
    <2>10. ReplicaState' /\ PassedMet'
      BY <1>8, <2>1
      DEF IInv, ReplicaState, PassedMet, TypeOK, ServiceUp, contVars
    <2> QED
      BY <2>2, <2>3, <2>4, <2>5, <2>6, <2>7, <2>8, <2>9, <2>10 DEF IInv
  <1>9. ASSUME NEW s \in Service, ServiceFailed(s) PROVE IInv'
    <2>1. /\ \A x : Deps(x)' = Deps(x) /\ Waits(x)' = Waits(x) /\ Replicas(x)' = Replicas(x)
          /\ \A x : Tolerated(x)' = Tolerated(x)
      BY <1>9, FileFixed DEF ServiceFailed
    <2>2. TypeOK'
      BY <1>9 DEF IInv, TypeOK, PCs, ServiceFailed, contVars, Fail, Joined, FirstError
    <2>3. DoneIsLast'
      BY <1>9 DEF IInv, TypeOK, DoneIsLast, ServiceFailed, contVars, Fail, Joined, FirstError
    <2>4. OnlyScheduled'
      BY <1>9 DEF IInv, TypeOK, OnlyScheduled, ServiceFailed, contVars, Fail, Joined, FirstError
    <2>5. DepsDone'
      BY <1>9, <2>1, DepsService, ContainerService
      DEF IInv, TypeOK, DepsDone, DoneIsLast, ServiceFailed, contVars, Fail, Joined, FirstError
    <2>6. GivenUpTolerated'
      BY <1>9, <2>1, ContainerService
      DEF IInv, TypeOK, GivenUpTolerated, ServiceFailed, contVars, Fail, Joined, FirstError
    <2>7. ReplicasUp'
      BY <1>9, <2>1, ContainerService, ReplicaOf, WaitOf
      DEF IInv, TypeOK, ReplicasUp, DoneIsLast, ServiceFailed, contVars, Fail, Joined, FirstError
    <2>8. PollerAfterDone'
      BY <1>9, <2>1, ContainerService, ReplicaOf, WaitOf
      DEF IInv, TypeOK, PollerAfterDone, DoneIsLast, DepsDone, ReplicaState, ReplicasUp, Awaited, ServiceFailed, contVars, Fail, Joined, FirstError
    <2>9. Awaited'
      BY <1>9, <2>1, ContainerService, ReplicaOf, WaitOf
      DEF IInv, TypeOK, Awaited, DoneIsLast, ServiceFailed, contVars, Fail, Joined, FirstError
    <2>10. ReplicaState' /\ PassedMet'
      BY <1>9, <2>1
      DEF IInv, ReplicaState, PassedMet, TypeOK, ServiceFailed, contVars
    <2> QED
      BY <2>2, <2>3, <2>4, <2>5, <2>6, <2>7, <2>8, <2>9, <2>10 DEF IInv
  <1>10. ASSUME NEW c \in Container, PollInspect(c) PROVE IInv'
    <2>1. /\ \A x : Deps(x)' = Deps(x) /\ Waits(x)' = Waits(x) /\ Replicas(x)' = Replicas(x)
          /\ \A x : Tolerated(x)' = Tolerated(x)
      BY <1>10, FileFixed DEF PollInspect
    <2>2. TypeOK'
      BY <1>10 DEF IInv, TypeOK, PCs, PollInspect, contVars, classify_health
    <2>3. PollerAfterDone'
      BY <1>10, <2>1, ContainerService, ReplicaOf, WaitOf
      DEF IInv, TypeOK, PollerAfterDone, DoneIsLast, DepsDone, ReplicaState, ReplicasUp, Awaited, PollInspect, contVars, classify_health
    <2>4. PassedMet'
      BY <1>10, ContainerService, ReplicaOf, WaitOf
      DEF IInv, TypeOK, PassedMet, DoneIsLast, DepsDone, Awaited, PollerAfterDone, PollInspect, contVars, classify_health
    <2>5. DoneIsLast' /\ OnlyScheduled' /\ DepsDone' /\ GivenUpTolerated' /\ ReplicaState' /\ ReplicasUp' /\ Awaited'
      BY <1>10, <2>1
      DEF IInv, DoneIsLast, OnlyScheduled, DepsDone, GivenUpTolerated, ReplicaState, ReplicasUp, Awaited, TypeOK, PollInspect, contVars
    <2> QED
      BY <2>2, <2>3, <2>4, <2>5 DEF IInv
  <1>11. ASSUME NEW c \in Container, PollStep(c) PROVE IInv'
    <2>1. /\ \A x : Deps(x)' = Deps(x) /\ Waits(x)' = Waits(x) /\ Replicas(x)' = Replicas(x)
          /\ \A x : Tolerated(x)' = Tolerated(x)
      BY <1>11, FileFixed DEF PollStep
    <2>2. TypeOK'
      BY <1>11 DEF IInv, TypeOK, PCs, PollStep, contVars, classify_health
    <2>3. PollerAfterDone'
      BY <1>11, <2>1, ContainerService, ReplicaOf, WaitOf
      DEF IInv, TypeOK, PollerAfterDone, DoneIsLast, DepsDone, ReplicaState, ReplicasUp, Awaited, PollStep, contVars, classify_health
    <2>4. PassedMet'
      BY <1>11, ContainerService, ReplicaOf, WaitOf
      DEF IInv, TypeOK, PassedMet, DoneIsLast, DepsDone, Awaited, PollerAfterDone, PollStep, contVars, classify_health
    <2>5. DoneIsLast' /\ OnlyScheduled' /\ DepsDone' /\ GivenUpTolerated' /\ ReplicaState' /\ ReplicasUp' /\ Awaited'
      BY <1>11, <2>1
      DEF IInv, DoneIsLast, OnlyScheduled, DepsDone, GivenUpTolerated, ReplicaState, ReplicasUp, Awaited, TypeOK, PollStep, contVars
    <2> QED
      BY <2>2, <2>3, <2>4, <2>5 DEF IInv
  <1>12. ASSUME NEW c \in Container, PollTimeout(c) PROVE IInv'
    <2>1. /\ \A x : Deps(x)' = Deps(x) /\ Waits(x)' = Waits(x) /\ Replicas(x)' = Replicas(x)
          /\ \A x : Tolerated(x)' = Tolerated(x)
      BY <1>12, FileFixed DEF PollTimeout
    <2>2. TypeOK'
      BY <1>12 DEF IInv, TypeOK, PCs, PollTimeout, contVars
    <2>3. PollerAfterDone'
      BY <1>12, <2>1, ContainerService, ReplicaOf, WaitOf
      DEF IInv, TypeOK, PollerAfterDone, DoneIsLast, DepsDone, ReplicaState, ReplicasUp, Awaited, PollTimeout, contVars
    <2>4. PassedMet'
      BY <1>12, ContainerService, ReplicaOf, WaitOf
      DEF IInv, TypeOK, PassedMet, DoneIsLast, DepsDone, Awaited, PollerAfterDone, PollTimeout, contVars
    <2>5. DoneIsLast' /\ OnlyScheduled' /\ DepsDone' /\ GivenUpTolerated' /\ ReplicaState' /\ ReplicasUp' /\ Awaited'
      BY <1>12, <2>1
      DEF IInv, DoneIsLast, OnlyScheduled, DepsDone, GivenUpTolerated, ReplicaState, ReplicasUp, Awaited, TypeOK, PollTimeout, contVars
    <2> QED
      BY <2>2, <2>3, <2>4, <2>5 DEF IInv
  <1>13. ASSUME NEW c \in Container, KeepReplica(c) PROVE IInv'
    <2>1. /\ \A x : Deps(x)' = Deps(x) /\ Waits(x)' = Waits(x) /\ Replicas(x)' = Replicas(x)
          /\ \A x : Tolerated(x)' = Tolerated(x)
      BY <1>13, FileFixed DEF KeepReplica
    <2>2. TypeOK'
      <3>1. healthy' \in [Container -> BOOLEAN]
        BY <1>13 DEF IInv, TypeOK, KeepReplica, contVars
      <3>2. brought' \subseteq Container /\ sawHealthy' \subseteq Container
        BY <1>13 DEF IInv, TypeOK, KeepReplica, contVars
      <3>3. cont' \in [Container -> {"absent", "created", "running", "succeeded", "crashed"}]
        BY <1>13 DEF IInv, TypeOK, KeepReplica, contVars
      <3>4. rep' \in [Container -> {"todo", "created", "started", "ok", "err"}]
        BY <1>13 DEF IInv, TypeOK, KeepReplica
      <3> QED
        BY <1>13, <3>1, <3>2, <3>3, <3>4 DEF IInv, TypeOK, KeepReplica
    <2>3. ReplicaState'
      BY <1>13, ContainerService DEF IInv, TypeOK, ReplicaState, KeepReplica, contVars, Working
    <2>4. ReplicasUp'
      BY <1>13, <2>1, ContainerService, ReplicaOf, WaitOf
      DEF IInv, TypeOK, ReplicasUp, DoneIsLast, KeepReplica, contVars, Working
    <2>5. PollerAfterDone'
      BY <1>13, <2>1, ContainerService, ReplicaOf, WaitOf
      DEF IInv, TypeOK, PollerAfterDone, DoneIsLast, DepsDone, ReplicaState, ReplicasUp, Awaited, KeepReplica, contVars, Working
    <2>6. PassedMet'
      <3>1. \A s \in Service : c \notin passed[s]
        BY <1>13, ContainerService, WaitOf
        DEF IInv, TypeOK, DoneIsLast, DepsDone, Awaited, KeepReplica, Working
      <3>2. \A x \in Container : x # c => cont'[x] = cont[x]
        BY <1>13 DEF IInv, TypeOK, KeepReplica, contVars
      <3> QED
        BY <1>13, <3>1, <3>2 DEF IInv, TypeOK, PassedMet, KeepReplica
    <2>7. DoneIsLast' /\ OnlyScheduled' /\ DepsDone' /\ GivenUpTolerated' /\ Awaited'
      BY <1>13, <2>1
      DEF IInv, DoneIsLast, OnlyScheduled, DepsDone, GivenUpTolerated, Awaited, TypeOK, KeepReplica, contVars
    <2> QED
      BY <2>2, <2>3, <2>4, <2>5, <2>6, <2>7 DEF IInv
  <1>14. ASSUME NEW c \in Container, CreateReplica(c) PROVE IInv'
    <2>1. /\ \A x : Deps(x)' = Deps(x) /\ Waits(x)' = Waits(x) /\ Replicas(x)' = Replicas(x)
          /\ \A x : Tolerated(x)' = Tolerated(x)
      BY <1>14, FileFixed DEF CreateReplica
    <2>2. TypeOK'
      BY <1>14 DEF IInv, TypeOK, PCs, CreateReplica, contVars, Working
    <2>3. ReplicaState'
      BY <1>14, ContainerService DEF IInv, TypeOK, ReplicaState, CreateReplica, contVars, Working
    <2>4. ReplicasUp'
      BY <1>14, <2>1, ContainerService, ReplicaOf, WaitOf
      DEF IInv, TypeOK, ReplicasUp, DoneIsLast, CreateReplica, contVars, Working
    <2>5. PollerAfterDone'
      BY <1>14, <2>1, ContainerService, ReplicaOf, WaitOf
      DEF IInv, TypeOK, PollerAfterDone, DoneIsLast, DepsDone, ReplicaState, ReplicasUp, Awaited, CreateReplica, contVars, Working
    <2>6. PassedMet'
      BY <1>14, ContainerService, ReplicaOf, WaitOf
      DEF IInv, TypeOK, PassedMet, DoneIsLast, DepsDone, Awaited, PollerAfterDone, CreateReplica, contVars, Working
    <2>7. DoneIsLast' /\ OnlyScheduled' /\ DepsDone' /\ GivenUpTolerated' /\ Awaited'
      BY <1>14, <2>1
      DEF IInv, DoneIsLast, OnlyScheduled, DepsDone, GivenUpTolerated, Awaited, TypeOK, CreateReplica, contVars
    <2> QED
      BY <2>2, <2>3, <2>4, <2>5, <2>6, <2>7 DEF IInv
  <1>15. ASSUME NEW c \in Container, StartReplica(c) PROVE IInv'
    <2>1. /\ \A x : Deps(x)' = Deps(x) /\ Waits(x)' = Waits(x) /\ Replicas(x)' = Replicas(x)
          /\ \A x : Tolerated(x)' = Tolerated(x)
      BY <1>15, FileFixed DEF StartReplica
    <2>2. TypeOK'
      BY <1>15 DEF IInv, TypeOK, PCs, StartReplica, contVars, Working
    <2>3. ReplicaState'
      BY <1>15, ContainerService DEF IInv, TypeOK, ReplicaState, StartReplica, contVars, Working
    <2>4. ReplicasUp'
      BY <1>15, <2>1, ContainerService, ReplicaOf, WaitOf
      DEF IInv, TypeOK, ReplicasUp, DoneIsLast, StartReplica, contVars, Working
    <2>5. PassedMet'
      BY <1>15, ContainerService, ReplicaOf, WaitOf
      DEF IInv, TypeOK, PassedMet, DoneIsLast, DepsDone, Awaited, PollerAfterDone, StartReplica, contVars, Working
    <2>6. DoneIsLast' /\ OnlyScheduled' /\ DepsDone' /\ GivenUpTolerated' /\ PollerAfterDone' /\ Awaited'
      BY <1>15, <2>1
      DEF IInv, DoneIsLast, OnlyScheduled, DepsDone, GivenUpTolerated, PollerAfterDone, Awaited, TypeOK, StartReplica, contVars
    <2> QED
      BY <2>2, <2>3, <2>4, <2>5, <2>6 DEF IInv
  <1>16. ASSUME NEW c \in Container, PostStartHooks(c) PROVE IInv'
    <2>1. /\ \A x : Deps(x)' = Deps(x) /\ Waits(x)' = Waits(x) /\ Replicas(x)' = Replicas(x)
          /\ \A x : Tolerated(x)' = Tolerated(x)
      BY <1>16, FileFixed DEF PostStartHooks
    <2>2. TypeOK'
      BY <1>16 DEF IInv, TypeOK, PCs, PostStartHooks, contVars, Working
    <2>3. ReplicaState'
      BY <1>16, ContainerService DEF IInv, TypeOK, ReplicaState, PostStartHooks, contVars, Working
    <2>4. ReplicasUp'
      BY <1>16, <2>1, ContainerService, ReplicaOf, WaitOf
      DEF IInv, TypeOK, ReplicasUp, DoneIsLast, PostStartHooks, contVars, Working
    <2>5. DoneIsLast' /\ OnlyScheduled' /\ DepsDone' /\ GivenUpTolerated' /\ PollerAfterDone' /\ Awaited' /\ PassedMet'
      BY <1>16, <2>1
      DEF IInv, DoneIsLast, OnlyScheduled, DepsDone, GivenUpTolerated, PollerAfterDone, Awaited, PassedMet, TypeOK, PostStartHooks, contVars
    <2> QED
      BY <2>2, <2>3, <2>4, <2>5 DEF IInv
  <1>17. ASSUME NEW c \in Container, ReplicaFailed(c) PROVE IInv'
    <2>1. /\ \A x : Deps(x)' = Deps(x) /\ Waits(x)' = Waits(x) /\ Replicas(x)' = Replicas(x)
          /\ \A x : Tolerated(x)' = Tolerated(x)
      BY <1>17, FileFixed DEF ReplicaFailed
    <2>2. TypeOK'
      <3>1. healthy' \in [Container -> BOOLEAN]
        BY <1>17 DEF IInv, TypeOK, ReplicaFailed, contVars
      <3>2. cont' \in [Container -> {"absent", "created", "running", "succeeded", "crashed"}]
        BY <1>17 DEF IInv, TypeOK, ReplicaFailed, contVars
      <3> QED
        BY <1>17, <3>1, <3>2 DEF IInv, TypeOK, ReplicaFailed, contVars
    <2>3. ReplicaState'
      BY <1>17, ContainerService DEF IInv, TypeOK, ReplicaState, ReplicaFailed, contVars, Working
    <2>4. ReplicasUp'
      BY <1>17, <2>1, ContainerService, ReplicaOf, WaitOf
      DEF IInv, TypeOK, ReplicasUp, DoneIsLast, ReplicaFailed, contVars, Working
    <2>5. PassedMet'
      BY <1>17, ContainerService, ReplicaOf, WaitOf
      DEF IInv, TypeOK, PassedMet, DoneIsLast, DepsDone, Awaited, PollerAfterDone, ReplicaFailed, contVars, Working
    <2>6. DoneIsLast' /\ OnlyScheduled' /\ DepsDone' /\ GivenUpTolerated' /\ PollerAfterDone' /\ Awaited'
      BY <1>17, <2>1
      DEF IInv, DoneIsLast, OnlyScheduled, DepsDone, GivenUpTolerated, PollerAfterDone, Awaited, TypeOK, ReplicaFailed, contVars
    <2> QED
      BY <2>2, <2>3, <2>4, <2>5, <2>6 DEF IInv
  <1>18. ASSUME NEW c \in Container, Exit(c) PROVE IInv'
    <2>1. /\ \A x : Deps(x)' = Deps(x) /\ Waits(x)' = Waits(x) /\ Replicas(x)' = Replicas(x)
          /\ \A x : Tolerated(x)' = Tolerated(x)
      BY <1>18, FileFixed DEF Exit
    <2>2. TypeOK'
      BY <1>18 DEF IInv, TypeOK, PCs, Exit, contVars
    <2>3. ReplicaState'
      BY <1>18, ContainerService DEF IInv, TypeOK, ReplicaState, Exit, contVars
    <2>4. PassedMet'
      BY <1>18, ContainerService, ReplicaOf, WaitOf
      DEF IInv, TypeOK, PassedMet, DoneIsLast, DepsDone, Awaited, PollerAfterDone, Exit, contVars
    <2>5. DoneIsLast' /\ OnlyScheduled' /\ DepsDone' /\ GivenUpTolerated' /\ ReplicasUp' /\ PollerAfterDone' /\ Awaited'
      BY <1>18, <2>1
      DEF IInv, DoneIsLast, OnlyScheduled, DepsDone, GivenUpTolerated, ReplicasUp, PollerAfterDone, Awaited, TypeOK, Exit, contVars
    <2> QED
      BY <2>2, <2>3, <2>4, <2>5 DEF IInv
  <1>19. ASSUME NEW c \in Container, HealthFlip(c) PROVE IInv'
    <2>1. /\ \A x : Deps(x)' = Deps(x) /\ Waits(x)' = Waits(x) /\ Replicas(x)' = Replicas(x)
          /\ \A x : Tolerated(x)' = Tolerated(x)
      BY <1>19, FileFixed DEF HealthFlip
    <2>2. TypeOK'
      BY <1>19 DEF IInv, TypeOK, PCs, HealthFlip, contVars
    <2>3. ReplicaState'
      BY <1>19, ContainerService DEF IInv, TypeOK, ReplicaState, HealthFlip, contVars
    <2>4. PollerAfterDone'
      BY <1>19, <2>1, ContainerService, ReplicaOf, WaitOf
      DEF IInv, TypeOK, PollerAfterDone, DoneIsLast, DepsDone, ReplicaState, ReplicasUp, Awaited, HealthFlip, contVars
    <2>5. DoneIsLast' /\ OnlyScheduled' /\ DepsDone' /\ GivenUpTolerated' /\ ReplicasUp' /\ Awaited' /\ PassedMet'
      BY <1>19, <2>1
      DEF IInv, DoneIsLast, OnlyScheduled, DepsDone, GivenUpTolerated, ReplicasUp, Awaited, PassedMet, TypeOK, HealthFlip, contVars
    <2> QED
      BY <2>2, <2>3, <2>4, <2>5 DEF IInv
  <1>20. ASSUME NEW s \in Service, NEW c \in Container, Await(s, c) PROVE IInv'
    <2>1. /\ \A x : Deps(x)' = Deps(x) /\ Waits(x)' = Waits(x) /\ Replicas(x)' = Replicas(x)
          /\ \A x : Tolerated(x)' = Tolerated(x)
      BY <1>20, FileFixed DEF Await
    <2>2. TypeOK'
      BY <1>20 DEF IInv, TypeOK, PCs, Await, contVars
    <2>3. PollerAfterDone'
      BY <1>20, <2>1, ContainerService, ReplicaOf, WaitOf
      DEF IInv, TypeOK, PollerAfterDone, DoneIsLast, DepsDone, ReplicaState, ReplicasUp, Awaited, Await, contVars
    <2>4. Awaited'
      BY <1>20, <2>1, ContainerService, ReplicaOf, WaitOf
      DEF IInv, TypeOK, Awaited, DoneIsLast, Await, contVars
    <2>5. PassedMet'
      BY <1>20, ContainerService, ReplicaOf, WaitOf
      DEF IInv, TypeOK, PassedMet, DoneIsLast, DepsDone, Awaited, PollerAfterDone, Await, contVars
    <2>6. DoneIsLast' /\ OnlyScheduled' /\ DepsDone' /\ GivenUpTolerated' /\ ReplicaState' /\ ReplicasUp'
      BY <1>20, <2>1
      DEF IInv, DoneIsLast, OnlyScheduled, DepsDone, GivenUpTolerated, ReplicaState, ReplicasUp, TypeOK, Await, contVars
    <2> QED
      BY <2>2, <2>3, <2>4, <2>5, <2>6 DEF IInv
  <1>21. ASSUME AllUp PROVE IInv'
    <2>1. /\ \A x : Deps(x)' = Deps(x) /\ Waits(x)' = Waits(x) /\ Replicas(x)' = Replicas(x)
          /\ \A x : Tolerated(x)' = Tolerated(x)
      BY <1>21, FileFixed DEF AllUp
    <2>2. TypeOK'
      BY <1>21 DEF IInv, TypeOK, PCs, AllUp, contVars
    <2>3. DoneIsLast' /\ OnlyScheduled' /\ DepsDone' /\ GivenUpTolerated' /\ ReplicaState' /\ ReplicasUp' /\ PollerAfterDone' /\ Awaited' /\ PassedMet'
      BY <1>21, <2>1
      DEF IInv, DoneIsLast, OnlyScheduled, DepsDone, GivenUpTolerated, ReplicaState, ReplicasUp, PollerAfterDone, Awaited, PassedMet, TypeOK, AllUp, contVars
    <2> QED
      BY <2>2, <2>3 DEF IInv
  <1>22. ASSUME UNCHANGED vars PROVE IInv'
    <2>1. /\ \A x : Deps(x)' = Deps(x) /\ Waits(x)' = Waits(x) /\ Replicas(x)' = Replicas(x)
          /\ \A x : Tolerated(x)' = Tolerated(x)
      BY <1>22, FileFixed DEF vars
    <2> QED
      BY <1>22, <2>1 DEF vars, IInv, TypeOK, DoneIsLast, OnlyScheduled, DepsDone, GivenUpTolerated, ReplicaState, ReplicasUp, PollerAfterDone, Awaited, PassedMet
  <1> QED
    BY <1>1, <1>2, <1>3, <1>4, <1>5, <1>6, <1>7, <1>8, <1>9, <1>10, <1>11, <1>12, <1>13, <1>14, <1>15, <1>16, <1>17, <1>18, <1>19, <1>20, <1>21, <1>22 DEF Next, Advance, Poller, Replica, Returned

LEMMA Initial == Init => IInv
  <1> SUFFICES ASSUME Init PROVE IInv
    OBVIOUS
  <1>1. file \in FileType /\ file.keep \subseteq file.present
    BY FilesAssumption DEF Init
  <1>2. TypeOK
    BY <1>1 DEF Init, TypeOK, PCs, FileType
  <1>3. DoneIsLast /\ OnlyScheduled /\ DepsDone /\ GivenUpTolerated /\ ReplicaState /\ ReplicasUp
    BY DEF Init, DoneIsLast, OnlyScheduled, DepsDone, GivenUpTolerated, ReplicaState, ReplicasUp
  <1>4. PollerAfterDone /\ Awaited /\ PassedMet
    BY DEF Init, PollerAfterDone, Awaited, PassedMet
  <1> QED
    BY <1>2, <1>3, <1>4 DEF IInv

\* The state of the walk, its pollers and its containers stays in its types,
\* and the inductive invariant holds of every run.
THEOREM TypeCorrect == Spec => []IInv
  BY Initial, Inductive, PTL DEF Spec

\* A required dependency that has signalled is up: a failure is tolerated only
\* for a service that every dependent in the run declares optional.
LEMMA RequiredFromInv == IInv => RequiredDepsUp
  <1> SUFFICES ASSUME IInv, NEW s \in file.scheduled, pc[s] \notin {"off", "deps"},
                      NEW d \in Deps(s) \cap file.required[s]
               PROVE  done[d] = "true"
    BY DEF RequiredDepsUp
  <1>1. s \in Service /\ d \in Service
    BY FilesAssumption DEF IInv, TypeOK, FileType, Deps
  <1>2. done[d] # "none"
    BY <1>1 DEF IInv, DepsDone
  <1>3. s \in Dependents(d)
    BY DEF Deps, Dependents
  <1>4. ~Tolerated(d)
    BY <1>3 DEF Tolerated, optional_for_every_dependent
  <1> QED
    BY <1>1, <1>2, <1>4 DEF IInv, TypeOK, GivenUpTolerated

\* No service leaves the dependency wait before every dependency it requires
\* is up in this run, whatever the compose file and the interleaving.
THEOREM RequiredDepsUpHolds == Spec => []RequiredDepsUp
  BY TypeCorrect, RequiredFromInv, PTL

\* A condition that has been gone past was met by a container of this run.
LEMMA ConditionsFromInv == IInv => ConditionsHeld
  <1> SUFFICES ASSUME IInv, NEW s \in file.scheduled, file.start,
                      pc[s] \in {"image", "work"} \/ done[s] = "true",
                      NEW d \in Deps(s) \cap file.required[s], NEW c \in Replicas(d)
               PROVE  /\ c \in brought
                      /\ file.cond[s][d] = "healthy" /\ file.check[d] = "declared"
                            => c \in sawHealthy
                      /\ file.cond[s][d] = "completed" => cont[c] = "succeeded"
    BY DEF ConditionsHeld
  <1>1. s \in Service /\ d \in Service
    BY FilesAssumption DEF IInv, TypeOK, FileType, Deps
  <1>2. c \in Container /\ c[1] = d
    BY <1>1, ReplicaOf DEF IInv
  <1>3. pc[s] \notin {"off", "deps"}
    BY <1>1 DEF IInv, DoneIsLast
  <1>4. done[d] = "true"
    BY <1>3, RequiredFromInv DEF RequiredDepsUp
  <1>5. c \in brought
    BY <1>1, <1>2, <1>4 DEF IInv, ReplicasUp, ReplicaState
  <1>6. Gates(s, d) => c \in passed[s]
    <2>1. Gates(s, d) => c \in Waits(s)
      BY DEF Waits
    <2> QED
      BY <1>1, <2>1 DEF IInv, Awaited
  <1>7. ASSUME file.cond[s][d] = "healthy", file.check[d] = "declared"
        PROVE  c \in sawHealthy
    <2>1. poll[c] = "ok"
      BY <1>1, <1>2, <1>6, <1>7 DEF IInv, PassedMet, Gates
    <2> QED
      BY <1>2, <1>4, <1>7, <2>1 DEF IInv, PollerAfterDone
  <1>8. ASSUME file.cond[s][d] = "completed"
        PROVE  cont[c] = "succeeded"
    BY <1>1, <1>2, <1>6, <1>8 DEF IInv, PassedMet, Gates
  <1> QED
    BY <1>5, <1>7, <1>8

\* No service gets an image or a container before the containers of this run
\* met every condition it requires of them.
THEOREM ConditionsHeldHolds == Spec => []ConditionsHeld
  BY TypeCorrect, ConditionsFromInv, PTL

\* A service starts on what the compose file says it depends on (up_one_service).
THEOREM DependenciesHonouredHolds == Spec => []DependenciesHonoured
  BY TypeCorrect, RequiredFromInv, ConditionsFromInv, PTL DEF DependenciesHonoured

\* Unless the run has failed, a service that has ended has signalled, and the run
\* is over only when all have ended.
EndSignalled ==
  phase # "failed" =>
    /\ \A s \in Service : pc[s] = "end" => done[s] # "none"
    /\ phase = "ok" => \A s \in file.scheduled : pc[s] = "end"

\* A failure either signals the dependents or ends the run.
LEMMA FailEnds ==
  ASSUME TypeOK, EndSignalled, phase = "running", NEW s \in Service, Fail(s), UNCHANGED file
  PROVE  EndSignalled'
  BY DEF TypeOK, EndSignalled, Fail

LEMMA EndSignalledKept == TypeOK /\ EndSignalled /\ [Next]_vars => EndSignalled'
<1> SUFFICES ASSUME TypeOK, EndSignalled, [Next]_vars PROVE EndSignalled'
  OBVIOUS
<1> USE DEF TypeOK, EndSignalled
<1>1. ASSUME NEW s \in Service, Advance(s) PROVE EndSignalled'
  <2>1. CASE DepsSignalled(s) \/ TakePermit(s) \/ WaitMet(s) \/ CondsMet(s) \/ ImageAcquired(s)
    BY <2>1 DEF DepsSignalled, TakePermit, WaitMet, CondsMet, ImageAcquired
  <2>2. CASE WaitFailed(s)
    BY <2>2, FailEnds DEF WaitFailed
  <2>3. CASE ServiceRejected(s)
    BY <2>3, FailEnds DEF ServiceRejected
  <2>4. CASE ServiceUp(s)
    BY <2>4 DEF ServiceUp
  <2>5. CASE ServiceFailed(s)
    BY <2>5, FailEnds DEF ServiceFailed
  <2>6. CASE \E c \in Container : Await(s, c)
    BY <2>6 DEF Await
  <2> QED
    BY <1>1, <2>1, <2>2, <2>3, <2>4, <2>5, <2>6 DEF Advance
<1>2. ASSUME NEW c \in Container, Poller(c) \/ Replica(c) \/ Exit(c) \/ HealthFlip(c)
      PROVE  EndSignalled'
  <2>1. UNCHANGED <<file, phase, pc, done>>
    BY <1>2 DEF Poller, PollInspect, PollStep, PollTimeout, Replica, KeepReplica, CreateReplica,
                StartReplica, PostStartHooks, ReplicaFailed, Exit, HealthFlip
  <2> QED
    BY <2>1
<1>3. CASE AllUp
  BY <1>3 DEF AllUp
<1>4. CASE Returned \/ UNCHANGED vars
  BY <1>4 DEF Returned, vars
<1> QED
  BY <1>1, <1>2, <1>3, <1>4 DEF Next

\* A success is read off what each service has signalled.
LEMMA SuccessFromInv == IInv /\ EndSignalled => SuccessMeansUp
<1> SUFFICES ASSUME IInv, EndSignalled, phase = "ok", NEW s \in file.scheduled
             PROVE  \/ done[s] = "true" /\ (file.start => Replicas(s) \subseteq brought)
                    \/ /\ done[s] = "false" /\ s \notin file.explicit
                       /\ \A t \in file.scheduled : file.cond[t][s] # "none" => s \notin file.required[t]
  BY DEF SuccessMeansUp
<1>1. s \in Service
  BY FilesAssumption DEF IInv, TypeOK, FileType
<1>5. Replicas(s) \subseteq Container
  BY <1>1, ReplicaOf DEF IInv
<1>2. done[s] \in {"true", "false"}
  BY <1>1 DEF IInv, TypeOK, EndSignalled
<1>3. CASE done[s] = "true"
  BY <1>1, <1>3, <1>5 DEF IInv, ReplicasUp, ReplicaState
<1>4. CASE done[s] = "false"
  BY <1>1, <1>4 DEF IInv, GivenUpTolerated, Tolerated, optional_for_every_dependent, Dependents
<1> QED
  BY <1>2, <1>3, <1>4

\* A success means that every service is up, or failed while nobody named or needed
\* it (start_services_by_dependency), whatever the file, the permits and the order.
THEOREM SuccessMeansUpHolds == Spec => []SuccessMeansUp
<1>1. Init => EndSignalled
  BY DEF Init, EndSignalled
<1>2. IInv => TypeOK
  BY DEF IInv
<1> QED
  BY <1>1, <1>2, TypeCorrect, EndSignalledKept, SuccessFromInv, PTL DEF Spec

(***************************************************************************)
(* The scheduler implements DependencyOrder.                               *)
(***************************************************************************)

\* The file's part of the mapping never changes.
LEMMA FrozenKept ==
  ASSUME file' = file
  PROVE  UNCHANGED <<file.scheduled, hard_deps, run_deps, file.explicit>>
  <1>1. \A s : Deps(s)' = Deps(s)
    BY FileFixed
  <1>2. hard_deps' = hard_deps /\ run_deps' = run_deps
    BY <1>1 DEF hard_deps, run_deps
  <1> QED
    BY <1>2

\* A step that moves no service past the queue, and none to its end, is invisible.
LEMMA Invisible ==
  ASSUME file' = file, phase' = phase, done' = done,
         \A s \in Service : done[s] = "none" =>
            (pc'[s] \in {"off", "deps", "queued"} <=> pc[s] \in {"off", "deps", "queued"})
  PROVE  UNCHANGED Order!ovars
  <1>1. progress' = progress
    BY DEF progress
  <1> QED
    BY <1>1, FrozenKept DEF Order!ovars

\* Where a service is, as the order sees it.
LEMMA ProgressOf ==
  ASSUME TypeOK, NEW s \in Service
  PROVE  /\ progress[s] = "up" <=> done[s] = "true"
         /\ progress[s] = "given_up" <=> done[s] = "false"
         /\ progress[s] = "waiting" <=> done[s] = "none" /\ pc[s] \in {"off", "deps", "queued"}
         /\ progress[s] = "starting" <=> done[s] = "none" /\ pc[s] \notin {"off", "deps", "queued"}
  BY DEF progress, TypeOK

\* A service begins when it takes its permit.
LEMMA TakePermitBegins ==
  ASSUME IInv, NEW s \in Service, TakePermit(s)
  PROVE  Order!Begin(s)
  <1>1. TypeOK /\ phase = "running" /\ pc[s] = "queued" /\ done[s] = "none" /\ s \in file.scheduled
    BY DEF IInv, TakePermit, DoneIsLast, OnlyScheduled, TypeOK
  <1>2. progress[s] = "waiting"
    BY <1>1, ProgressOf
  <1>3. ASSUME NEW d \in run_deps[s]
        PROVE  progress[d] = "up" \/ (progress[d] = "given_up" /\ d \notin hard_deps[s])
    <2>1. d \in Deps(s) /\ d \in Service
      BY <1>1, <1>3, DepsService DEF run_deps
    <2>2. done[d] \in {"true", "false"}
      BY <1>1, <2>1 DEF IInv, DepsDone, TypeOK
    <2>3. d \in hard_deps[s] => done[d] = "true"
      BY <1>1, <2>1, RequiredFromInv DEF RequiredDepsUp, hard_deps
    <2> QED
      BY <1>1, <2>1, <2>2, <2>3, ProgressOf
  <1>4. progress' = [progress EXCEPT ![s] = "starting"]
    <2>1. pc' = [pc EXCEPT ![s] = "conds"] /\ done' = done
      BY DEF TakePermit
    <2> QED
      BY <1>1, <2>1 DEF progress, TypeOK
  <1> QED
    BY <1>1, <1>2, <1>3, <1>4, FrozenKept DEF Order!Begin, Order!frozen, TakePermit

\* A failure gives the service up when nobody needs it, and ends the run otherwise.
LEMMA FailSteps ==
  ASSUME IInv, phase = "running", NEW s \in Service, pc[s] \in Running, Fail(s), file' = file
  PROVE  Order!GiveUp(s) \/ Order!Abort
  <1>1. TypeOK /\ done[s] = "none" /\ s \in file.scheduled
    BY DEF IInv, DoneIsLast, OnlyScheduled, TypeOK, Running
  <1>2. progress[s] = "starting"
    BY <1>1, ProgressOf DEF Running
  <1>3. CASE Tolerated(s)
    <2>1. done' = [done EXCEPT ![s] = "false"] /\ pc' = [pc EXCEPT ![s] = "end"] /\ phase' = phase
      BY <1>3 DEF Fail
    <2>2. progress' = [progress EXCEPT ![s] = "given_up"]
      BY <1>1, <2>1 DEF progress, TypeOK
    <2>3. file.scheduled \subseteq Service
      BY <1>1, FilesAssumption DEF TypeOK, FileType
    <2>4. \E t \in file.scheduled : s \in run_deps[t]
      BY <1>1, <1>3, <2>3 DEF Tolerated, optional_for_every_dependent, Dependents, run_deps, Deps
    <2>5. \A t \in file.scheduled : s \notin hard_deps[t]
      BY <1>3, <2>3 DEF Tolerated, optional_for_every_dependent, Dependents, hard_deps, Deps
    <2>6. s \notin file.explicit
      BY <1>3 DEF Tolerated
    <2> QED
      BY <1>1, <1>2, <2>1, <2>2, <2>4, <2>5, <2>6, FrozenKept DEF Order!GiveUp, Order!frozen
  <1>4. CASE ~Tolerated(s)
    <2>1. done' = done /\ pc' = [pc EXCEPT ![s] = "end"] /\ phase' = "failed"
      BY <1>4 DEF Fail
    <2>2. progress' = progress
      BY <1>1, <2>1 DEF progress, TypeOK, Running
    <2> QED
      BY <2>1, <2>2, FrozenKept DEF Order!Abort, Order!frozen
  <1> QED
    BY <1>3, <1>4

\* A service completes when its replicas are joined without an error.
LEMMA ServiceUpCompletes ==
  ASSUME IInv, NEW s \in Service, ServiceUp(s)
  PROVE  Order!Complete(s)
  <1>1. TypeOK /\ phase = "running" /\ pc[s] = "work" /\ done[s] = "none" /\ file' = file /\ phase' = phase
        /\ done' = [done EXCEPT ![s] = "true"] /\ pc' = [pc EXCEPT ![s] = "end"]
    BY DEF ServiceUp, Joined, IInv, DoneIsLast, TypeOK
  <1>2. progress[s] = "starting"
    BY <1>1, ProgressOf
  <1>3. progress' = [progress EXCEPT ![s] = "up"]
    BY <1>1 DEF progress, TypeOK
  <1> QED
    BY <1>1, <1>2, <1>3, FrozenKept DEF Order!Complete, Order!frozen

\* The walk is over when every service is up or given up.
LEMMA AllUpSucceeds ==
  ASSUME IInv, EndSignalled, AllUp
  PROVE  Order!Succeed
  <1>1. TypeOK /\ phase = "running" /\ file' = file /\ UNCHANGED <<pc, done>> /\ phase' = "ok"
    BY DEF AllUp, IInv
  <1>2. ASSUME NEW s \in file.scheduled PROVE progress[s] \in {"up", "given_up"}
    <2>1. s \in Service
      BY <1>1, FilesAssumption DEF TypeOK, FileType
    <2>2. done[s] \in {"true", "false"}
      BY <1>1, <2>1 DEF AllUp, EndSignalled, TypeOK
    <2> QED
      BY <1>1, <2>1, <2>2, ProgressOf
  <1>3. progress' = progress
    BY <1>1 DEF progress
  <1> QED
    BY <1>1, <1>2, <1>3, FrozenKept DEF Order!Succeed, Order!frozen

\* Every step of the scheduler is a step of the order or leaves it alone.
LEMMA StepImplements ==
  ASSUME IInv, EndSignalled, [Next]_vars
  PROVE  [Order!ONext]_(Order!ovars)
  <1>1. ASSUME NEW s \in Service, Advance(s) PROVE [Order!ONext]_(Order!ovars)
    <2>1. CASE TakePermit(s)
      BY <2>1, TakePermitBegins DEF Order!ONext
    <2>2. CASE WaitFailed(s)
      <3>1. CASE at[s][1] \in file.required[s]
        BY <2>2, <3>1, FailSteps DEF WaitFailed, Running, Order!ONext
      <3>2. CASE at[s][1] \notin file.required[s]
        BY <2>2, <3>2, Invisible DEF WaitFailed
      <3> QED
        BY <3>1, <3>2
    <2>3. CASE ServiceRejected(s)
      BY <2>3, FailSteps DEF ServiceRejected, Running, Order!ONext
    <2>4. CASE ServiceFailed(s)
      BY <2>4, FailSteps DEF ServiceFailed, Joined, Running, Order!ONext
    <2>5. CASE ServiceUp(s)
      BY <2>5, ServiceUpCompletes DEF Order!ONext
    <2>6. CASE \/ DepsSignalled(s) \/ WaitMet(s) \/ CondsMet(s) \/ ImageAcquired(s)
               \/ \E c \in Container : Await(s, c)
      <3>1. file' = file /\ phase' = phase /\ done' = done
        BY <2>6 DEF DepsSignalled, WaitMet, CondsMet, ImageAcquired, Await
      <3>2. ASSUME NEW x \in Service
            PROVE  pc'[x] \in {"off", "deps", "queued"} <=> pc[x] \in {"off", "deps", "queued"}
        BY <2>6 DEF DepsSignalled, WaitMet, CondsMet, ImageAcquired, Await, IInv, TypeOK
      <3> QED
        BY <3>1, <3>2, Invisible
    <2> QED
      BY <1>1, <2>1, <2>2, <2>3, <2>4, <2>5, <2>6 DEF Advance
  <1>2. ASSUME NEW c \in Container, Poller(c) \/ Replica(c) \/ Exit(c) \/ HealthFlip(c)
        PROVE  UNCHANGED Order!ovars
    <2>1. UNCHANGED <<file, phase, pc, done>>
      BY <1>2 DEF Poller, PollInspect, PollStep, PollTimeout, Replica, KeepReplica, CreateReplica,
                  StartReplica, PostStartHooks, ReplicaFailed, Exit, HealthFlip
    <2> QED
      BY <2>1, Invisible
  <1>3. CASE AllUp
    BY <1>3, AllUpSucceeds DEF Order!ONext
  <1>4. CASE Returned \/ UNCHANGED vars
    BY <1>4, Invisible DEF Returned, vars
  <1> QED
    BY <1>1, <1>2, <1>3, <1>4 DEF Next

\* Before the walk every service waits.
LEMMA InitImplements == Init => Order!OInit
  <1> SUFFICES ASSUME Init PROVE Order!OInit
    OBVIOUS
  <1>1. file \in FileType
    BY FilesAssumption DEF Init
  <1>2. file.scheduled \subseteq Service /\ file.explicit \subseteq Service
    BY <1>1 DEF FileType
  <1>3. hard_deps \in [Service -> SUBSET Service] /\ run_deps \in [Service -> SUBSET Service]
    BY <1>2 DEF hard_deps, run_deps, Deps
  <1>4. progress = [s \in Service |-> "waiting"]
    BY DEF Init, progress
  <1> QED
    BY <1>2, <1>3, <1>4 DEF Init, Order!OInit

\* Whatever order the futures run in, podup starts services in the order it
\* promises: every behaviour of the scheduler is one of DependencyOrder.
THEOREM ImplementsOrderHolds == Spec => ImplementsOrder
<1>1. Init => EndSignalled
  BY DEF Init, EndSignalled
<1>2. IInv => TypeOK
  BY DEF IInv
<1>3. IInv /\ EndSignalled /\ [Next]_vars => [Order!ONext]_(Order!ovars)
  BY StepImplements
<1> QED
  BY <1>1, <1>2, <1>3, TypeCorrect, EndSignalledKept, InitImplements, PTL
  DEF Spec, ImplementsOrder, Order!OSpec
=============================================================================

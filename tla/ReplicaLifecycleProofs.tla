----------------------- MODULE ReplicaLifecycleProofs -----------------------
(***************************************************************************)
(* The strengthening of ReplicaLifecycle is inductive, for every number of *)
(* steps, runs and volumes; init containers, volumes and a successful run  *)
(* are what the module promises.                                           *)
(***************************************************************************)
EXTENDS ReplicaLifecycle, TLAPS

LEMMA Initial == Init => IInv
<1> SUFFICES ASSUME Init PROVE IInv
  OBVIOUS
<1>1. FlagsOK
  BY Zenon DEF Init, FlagsOK
<1> QED
  BY <1>1, StepsAssumption, NoneAssumption
  DEF Init, IInv, TypeOK, InitReclaimed, AtEnd, NameHeld, AsSnapshotted, StepsFirst,
      EnvRead, Replaced, SuccessDelivers, VolumeInherited, BeforeDelete, AfterSteps, PCs, Hash

\* Every step keeps the strengthening: one step of the proof per action.
LEMMA Inductive == IInv /\ [Next]_vars => IInv'
<1> SUFFICES ASSUME IInv, [Next]_vars PROVE IInv'
  OBVIOUS
<1> USE StepsAssumption, OptionsAssumption, NoneAssumption
    DEF IInv, TypeOK, PCs, BeforeDelete, AfterSteps, Hash,
        podman, disk, plan, inits, ends
<1>1. CASE Begin
  <2>1. FlagsOK'
    BY <1>1, Zenon DEF Begin, Goto, FlagsOK
  <2>2. TypeOK'
    BY <1>1, <2>1 DEF Begin, Goto
  <2>3. InitReclaimed' /\ AtEnd' /\ NameHeld' /\ StepsFirst'
    BY <1>1 DEF Begin, Goto,
       InitReclaimed, AtEnd, NameHeld, StepsFirst
  <2>4. AsSnapshotted' /\ EnvRead' /\ Replaced'
    BY <1>1 DEF Begin, Goto,
       AsSnapshotted, EnvRead, Replaced, NameHeld, StepsFirst
  <2>5. SuccessDelivers' /\ VolumeInherited'
    BY <1>1 DEF Begin, Goto,
       AtEnd, SuccessDelivers, VolumeInherited, Replaced, AsSnapshotted, NameHeld, StepsFirst, EnvRead
  <2> QED BY <2>1, <2>2, <2>3, <2>4, <2>5
<1>2. CASE Decide
  <2>1. FlagsOK'
    BY <1>2, Zenon DEF Decide, Goto, unchanged, FlagsOK
  <2>2. TypeOK'
    BY <1>2, <2>1 DEF Decide, Goto, unchanged
  <2>3. InitReclaimed' /\ AtEnd' /\ NameHeld' /\ StepsFirst'
    BY <1>2 DEF Decide, Goto, unchanged,
       InitReclaimed, AtEnd, NameHeld, StepsFirst, OptionType
  <2>4. AsSnapshotted' /\ EnvRead' /\ Replaced'
    BY <1>2 DEF Decide, Goto, unchanged,
       AsSnapshotted, EnvRead, Replaced, NameHeld, StepsFirst, OptionType
  <2>5. SuccessDelivers' /\ VolumeInherited'
    BY <1>2 DEF Decide, Goto, unchanged,
       AtEnd, SuccessDelivers, VolumeInherited, Replaced, AsSnapshotted, NameHeld, StepsFirst, EnvRead, OptionType
  <2> QED BY <2>1, <2>2, <2>3, <2>4, <2>5
<1>3. CASE Check
  <2>1. FlagsOK'
    BY <1>3, Zenon DEF Check, Goto, FlagsOK
  <2>2. TypeOK'
    BY <1>3, <2>1 DEF Check, Goto
  <2>3. InitReclaimed' /\ AtEnd' /\ NameHeld' /\ StepsFirst'
    BY <1>3 DEF Check, Goto,
       InitReclaimed, AtEnd, NameHeld, StepsFirst
  <2>4. AsSnapshotted' /\ EnvRead' /\ Replaced'
    BY <1>3 DEF Check, Goto,
       AsSnapshotted, EnvRead, Replaced, NameHeld, StepsFirst
  <2>5. SuccessDelivers' /\ VolumeInherited'
    BY <1>3 DEF Check, Goto,
       AtEnd, SuccessDelivers, VolumeInherited, Replaced, AsSnapshotted, NameHeld, StepsFirst, EnvRead
  <2> QED BY <2>1, <2>2, <2>3, <2>4, <2>5
<1>4. CASE AllStepsDone
  <2>1. FlagsOK'
    BY <1>4, Zenon DEF AllStepsDone, Goto, FlagsOK
  <2>2. TypeOK'
    BY <1>4, <2>1 DEF AllStepsDone, Goto
  <2>3. InitReclaimed' /\ AtEnd' /\ NameHeld' /\ StepsFirst'
    BY <1>4 DEF AllStepsDone, Goto,
       InitReclaimed, AtEnd, NameHeld, StepsFirst
  <2>4. AsSnapshotted' /\ EnvRead' /\ Replaced'
    BY <1>4 DEF AllStepsDone, Goto,
       AsSnapshotted, EnvRead, Replaced, NameHeld, StepsFirst
  <2>5. SuccessDelivers' /\ VolumeInherited'
    BY <1>4 DEF AllStepsDone, Goto,
       AtEnd, SuccessDelivers, VolumeInherited, Replaced, AsSnapshotted, NameHeld, StepsFirst, EnvRead
  <2> QED BY <2>1, <2>2, <2>3, <2>4, <2>5
<1>5. CASE NotValid
  <2>1. FlagsOK'
    BY <1>5, Zenon DEF NotValid, Fail, End, Goto, FlagsOK
  <2>2. TypeOK'
    BY <1>5, <2>1 DEF NotValid, Fail, End, Goto
  <2>3. InitReclaimed' /\ AtEnd' /\ NameHeld' /\ StepsFirst'
    BY <1>5 DEF NotValid, Fail, End, Goto,
       InitReclaimed, AtEnd, NameHeld, StepsFirst
  <2>4. AsSnapshotted' /\ EnvRead' /\ Replaced'
    BY <1>5 DEF NotValid, Fail, End, Goto,
       AsSnapshotted, EnvRead, Replaced, NameHeld, StepsFirst
  <2>5. SuccessDelivers' /\ VolumeInherited'
    BY <1>5 DEF NotValid, Fail, End, Goto,
       AtEnd, SuccessDelivers, VolumeInherited, Replaced, AsSnapshotted, NameHeld, StepsFirst, EnvRead
  <2> QED BY <2>1, <2>2, <2>3, <2>4, <2>5
<1>6. CASE StepImageFailed
  <2>1. FlagsOK'
    BY <1>6, Zenon DEF StepImageFailed, Goto, FlagsOK
  <2>2. TypeOK'
    BY <1>6, <2>1 DEF StepImageFailed, Goto
  <2>3. InitReclaimed' /\ AtEnd' /\ NameHeld' /\ StepsFirst'
    BY <1>6 DEF StepImageFailed, Goto,
       InitReclaimed, AtEnd, NameHeld, StepsFirst
  <2>4. AsSnapshotted' /\ EnvRead' /\ Replaced'
    BY <1>6 DEF StepImageFailed, Goto,
       AsSnapshotted, EnvRead, Replaced, NameHeld, StepsFirst
  <2>5. SuccessDelivers' /\ VolumeInherited'
    BY <1>6 DEF StepImageFailed, Goto,
       AtEnd, SuccessDelivers, VolumeInherited, Replaced, AsSnapshotted, NameHeld, StepsFirst, EnvRead
  <2> QED BY <2>1, <2>2, <2>3, <2>4, <2>5
<1>7. CASE StepCreated
  <2>1. FlagsOK'
    BY <1>7, Zenon DEF StepCreated, Goto, FlagsOK
  <2>2. TypeOK'
    BY <1>7, <2>1 DEF StepCreated, Goto
  <2>3. InitReclaimed' /\ AtEnd' /\ NameHeld' /\ StepsFirst'
    BY <1>7 DEF StepCreated, Goto,
       InitReclaimed, AtEnd, NameHeld, StepsFirst
  <2>4. AsSnapshotted' /\ EnvRead' /\ Replaced'
    BY <1>7 DEF StepCreated, Goto,
       AsSnapshotted, EnvRead, Replaced, NameHeld, StepsFirst
  <2>5. SuccessDelivers' /\ VolumeInherited'
    BY <1>7 DEF StepCreated, Goto,
       AtEnd, SuccessDelivers, VolumeInherited, Replaced, AsSnapshotted, NameHeld, StepsFirst, EnvRead
  <2> QED BY <2>1, <2>2, <2>3, <2>4, <2>5
<1>8. CASE StepNotCreated
  <2>1. FlagsOK'
    BY <1>8, Zenon DEF StepNotCreated, Goto, FlagsOK
  <2>2. TypeOK'
    BY <1>8, <2>1 DEF StepNotCreated, Goto
  <2>3. InitReclaimed' /\ AtEnd' /\ NameHeld' /\ StepsFirst'
    BY <1>8 DEF StepNotCreated, Goto,
       InitReclaimed, AtEnd, NameHeld, StepsFirst
  <2>4. AsSnapshotted' /\ EnvRead' /\ Replaced'
    BY <1>8 DEF StepNotCreated, Goto,
       AsSnapshotted, EnvRead, Replaced, NameHeld, StepsFirst
  <2>5. SuccessDelivers' /\ VolumeInherited'
    BY <1>8 DEF StepNotCreated, Goto,
       AtEnd, SuccessDelivers, VolumeInherited, Replaced, AsSnapshotted, NameHeld, StepsFirst, EnvRead
  <2> QED BY <2>1, <2>2, <2>3, <2>4, <2>5
<1>9. CASE StepExited
  <2>1. FlagsOK'
    BY <1>9, Zenon DEF StepExited, Goto, FlagsOK
  <2>2. TypeOK'
    BY <1>9, <2>1 DEF StepExited, Goto
  <2>3. InitReclaimed' /\ AtEnd' /\ NameHeld' /\ StepsFirst'
    BY <1>9 DEF StepExited, Goto,
       InitReclaimed, AtEnd, NameHeld, StepsFirst
  <2>4. AsSnapshotted' /\ EnvRead' /\ Replaced'
    BY <1>9 DEF StepExited, Goto,
       AsSnapshotted, EnvRead, Replaced, NameHeld, StepsFirst
  <2>5. SuccessDelivers' /\ VolumeInherited'
    BY <1>9 DEF StepExited, Goto,
       AtEnd, SuccessDelivers, VolumeInherited, Replaced, AsSnapshotted, NameHeld, StepsFirst, EnvRead
  <2> QED BY <2>1, <2>2, <2>3, <2>4, <2>5
<1>10. CASE StepRemoved
  <2>1. FlagsOK'
    BY <1>10, Zenon DEF StepRemoved, Goto, FlagsOK
  <2>2. TypeOK'
    BY <1>10, <2>1 DEF StepRemoved, Goto, StepsFirst
  <2>3. InitReclaimed' /\ AtEnd' /\ NameHeld' /\ StepsFirst'
    BY <1>10 DEF StepRemoved, Goto,
       InitReclaimed, AtEnd, NameHeld, StepsFirst
  <2>4. AsSnapshotted' /\ EnvRead' /\ Replaced'
    BY <1>10 DEF StepRemoved, Goto,
       AsSnapshotted, EnvRead, Replaced, NameHeld, StepsFirst
  <2>5. SuccessDelivers' /\ VolumeInherited'
    BY <1>10 DEF StepRemoved, Goto,
       AtEnd, SuccessDelivers, VolumeInherited, Replaced, AsSnapshotted, NameHeld, StepsFirst, EnvRead
  <2> QED BY <2>1, <2>2, <2>3, <2>4, <2>5
<1>11. CASE FailedStepRemoved
  <2>1. FlagsOK'
    BY <1>11, Zenon DEF FailedStepRemoved, Overtaken, Goto, FlagsOK
  <2>2. TypeOK'
    BY <1>11, <2>1 DEF FailedStepRemoved, Overtaken, Goto
  <2>3. InitReclaimed' /\ AtEnd' /\ NameHeld' /\ StepsFirst'
    BY <1>11 DEF FailedStepRemoved, Overtaken, Goto,
       InitReclaimed, AtEnd, NameHeld, StepsFirst
  <2>4. AsSnapshotted' /\ EnvRead' /\ Replaced'
    BY <1>11 DEF FailedStepRemoved, Overtaken, Goto,
       AsSnapshotted, EnvRead, Replaced, NameHeld, StepsFirst
  <2>5. SuccessDelivers' /\ VolumeInherited'
    BY <1>11 DEF FailedStepRemoved, Overtaken, Goto,
       AtEnd, SuccessDelivers, VolumeInherited, Replaced, AsSnapshotted, NameHeld, StepsFirst, EnvRead
  <2> QED BY <2>1, <2>2, <2>3, <2>4, <2>5
<1>12. CASE StepNotRemoved
  <2>1. FlagsOK'
    BY <1>12, Zenon DEF StepNotRemoved, Goto, FlagsOK
  <2>2. TypeOK'
    BY <1>12, <2>1 DEF StepNotRemoved, Goto
  <2>3. InitReclaimed' /\ AtEnd' /\ NameHeld' /\ StepsFirst'
    <3>1. InitReclaimed'
      BY <1>12 DEF StepNotRemoved, Goto, InitReclaimed, AtEnd
    <3>2. AtEnd' /\ NameHeld' /\ StepsFirst'
      BY <1>12 DEF StepNotRemoved, Goto, AtEnd, NameHeld, StepsFirst
    <3> QED BY <3>1, <3>2
  <2>4. AsSnapshotted' /\ EnvRead' /\ Replaced'
    BY <1>12 DEF StepNotRemoved, Goto,
       AsSnapshotted, EnvRead, Replaced, NameHeld, StepsFirst
  <2>5. SuccessDelivers' /\ VolumeInherited'
    BY <1>12 DEF StepNotRemoved, Goto,
       AtEnd, SuccessDelivers, VolumeInherited, Replaced, AsSnapshotted, NameHeld, StepsFirst, EnvRead
  <2> QED BY <2>1, <2>2, <2>3, <2>4, <2>5
<1>13. CASE RefreshEnv
  <2>1. FlagsOK'
    BY <1>13, Zenon DEF RefreshEnv, Goto, FlagsOK
  <2>2. TypeOK'
    BY <1>13, <2>1 DEF RefreshEnv, Goto
  <2>3. InitReclaimed' /\ AtEnd' /\ NameHeld' /\ StepsFirst'
    BY <1>13 DEF RefreshEnv, Goto,
       InitReclaimed, AtEnd, NameHeld, StepsFirst
  <2>4. AsSnapshotted' /\ EnvRead' /\ Replaced'
    BY <1>13 DEF RefreshEnv, Goto,
       AsSnapshotted, EnvRead, Replaced, NameHeld, StepsFirst
  <2>5. SuccessDelivers' /\ VolumeInherited'
    BY <1>13 DEF RefreshEnv, Goto,
       AtEnd, SuccessDelivers, VolumeInherited, Replaced, AsSnapshotted, NameHeld, StepsFirst, EnvRead
  <2> QED BY <2>1, <2>2, <2>3, <2>4, <2>5
<1>14. CASE inherit_anonymous_volumes
  <2>1. FlagsOK'
    BY <1>14, Zenon DEF inherit_anonymous_volumes, Goto, FlagsOK
  <2>2. TypeOK'
    BY <1>14, <2>1 DEF inherit_anonymous_volumes, Goto
  <2>3. InitReclaimed' /\ AtEnd' /\ NameHeld' /\ StepsFirst'
    BY <1>14 DEF inherit_anonymous_volumes, Goto,
       InitReclaimed, AtEnd, NameHeld, StepsFirst
  <2>4. AsSnapshotted' /\ EnvRead' /\ Replaced'
    BY <1>14 DEF inherit_anonymous_volumes, Goto,
       AsSnapshotted, EnvRead, Replaced, NameHeld, StepsFirst
  <2>5. SuccessDelivers' /\ VolumeInherited'
    BY <1>14 DEF inherit_anonymous_volumes, Goto,
       AtEnd, SuccessDelivers, VolumeInherited, Replaced, AsSnapshotted, NameHeld, StepsFirst, EnvRead
  <2> QED BY <2>1, <2>2, <2>3, <2>4, <2>5
<1>15. CASE require_owned
  <2>1. FlagsOK'
    BY <1>15, Zenon DEF require_owned, Goto, FlagsOK
  <2>2. TypeOK'
    BY <1>15, <2>1 DEF require_owned, Goto
  <2>3. InitReclaimed' /\ AtEnd' /\ NameHeld' /\ StepsFirst'
    BY <1>15 DEF require_owned, Goto,
       InitReclaimed, AtEnd, NameHeld, StepsFirst
  <2>4. AsSnapshotted' /\ EnvRead' /\ Replaced'
    BY <1>15 DEF require_owned, Goto,
       AsSnapshotted, EnvRead, Replaced, NameHeld, StepsFirst
  <2>5. SuccessDelivers' /\ VolumeInherited'
    BY <1>15 DEF require_owned, Goto,
       AtEnd, SuccessDelivers, VolumeInherited, Replaced, AsSnapshotted, NameHeld, StepsFirst, EnvRead
  <2> QED BY <2>1, <2>2, <2>3, <2>4, <2>5
<1>16. CASE NotOwned
  <2>1. FlagsOK'
    BY <1>16, Zenon DEF NotOwned, Fail, End, Goto, FlagsOK
  <2>2. TypeOK'
    BY <1>16, <2>1 DEF NotOwned, Fail, End, Goto
  <2>3. InitReclaimed' /\ AtEnd' /\ NameHeld' /\ StepsFirst'
    BY <1>16 DEF NotOwned, Fail, End, Goto,
       InitReclaimed, AtEnd, NameHeld, StepsFirst
  <2>4. AsSnapshotted' /\ EnvRead' /\ Replaced'
    BY <1>16 DEF NotOwned, Fail, End, Goto,
       AsSnapshotted, EnvRead, Replaced, NameHeld, StepsFirst
  <2>5. SuccessDelivers' /\ VolumeInherited'
    BY <1>16 DEF NotOwned, Fail, End, Goto,
       AtEnd, SuccessDelivers, VolumeInherited, Replaced, AsSnapshotted, NameHeld, StepsFirst, EnvRead
  <2> QED BY <2>1, <2>2, <2>3, <2>4, <2>5
<1>17. CASE DeleteOld
  <2>1. FlagsOK'
    BY <1>17, Zenon DEF DeleteOld, Goto, FlagsOK
  <2>2. TypeOK'
    BY <1>17, <2>1 DEF DeleteOld, Goto
  <2>3. InitReclaimed' /\ AtEnd' /\ NameHeld' /\ StepsFirst'
    BY <1>17 DEF DeleteOld, Goto,
       InitReclaimed, AtEnd, NameHeld, StepsFirst
  <2>4. AsSnapshotted' /\ EnvRead' /\ Replaced'
    BY <1>17 DEF DeleteOld, Goto,
       AsSnapshotted, EnvRead, Replaced, NameHeld, StepsFirst
  <2>5. SuccessDelivers' /\ VolumeInherited'
    BY <1>17 DEF DeleteOld, Goto,
       AtEnd, SuccessDelivers, VolumeInherited, Replaced, AsSnapshotted, NameHeld, StepsFirst, EnvRead
  <2> QED BY <2>1, <2>2, <2>3, <2>4, <2>5
<1>18. CASE DeleteFailed
  <2>1. FlagsOK'
    BY <1>18, Zenon DEF DeleteFailed, Goto, FlagsOK
  <2>2. TypeOK'
    BY <1>18, <2>1 DEF DeleteFailed, Goto
  <2>3. InitReclaimed' /\ AtEnd' /\ NameHeld' /\ StepsFirst'
    BY <1>18 DEF DeleteFailed, Goto,
       InitReclaimed, AtEnd, NameHeld, StepsFirst
  <2>4. AsSnapshotted' /\ EnvRead' /\ Replaced'
    BY <1>18 DEF DeleteFailed, Goto,
       AsSnapshotted, EnvRead, Replaced, NameHeld, StepsFirst
  <2>5. SuccessDelivers' /\ VolumeInherited'
    BY <1>18 DEF DeleteFailed, Goto,
       AtEnd, SuccessDelivers, VolumeInherited, Replaced, AsSnapshotted, NameHeld, StepsFirst, EnvRead
  <2> QED BY <2>1, <2>2, <2>3, <2>4, <2>5
<1>19. CASE Create
  <2>1. FlagsOK'
    <3>1. CASE opt.start
      BY <1>19, <3>1, Zenon DEF Create, Created, Goto, FlagsOK
    <3>2. CASE ~opt.start
      BY <1>19, <3>2, Zenon DEF Create, Created, End, Goto, FlagsOK
    <3> QED BY <3>1, <3>2
  <2>2. TypeOK'
    <3>1. PICK v \in Vol : Created(v)
      BY <1>19 DEF Create
    <3>2. /\ owner' = "ours" /\ st' = "created" /\ vol' \in Vol
          /\ vols' \subseteq Vol /\ data' \in Vol \cup {NoVol}
      BY <3>1 DEF Created
    <3>3. hash' \in Hash
      BY <3>1 DEF Created
    <3>4. UNCHANGED <<disk, plan, inherited, step, excuse, runs>>
      BY <1>19 DEF Create, End
    <3>5. pc' \in {"start", "idle"} /\ outcome' \in {outcome, "ok"}
      BY <1>19 DEF Create, End, Goto
    <3> HIDE DEF Hash
    <3> QED BY <3>2, <3>3, <3>4, <3>5, <2>1
  <2>3. InitReclaimed' /\ AtEnd' /\ NameHeld' /\ StepsFirst'
    BY <1>19 DEF Create, Created, End, Goto,
       InitReclaimed, AtEnd, NameHeld, StepsFirst
  <2>4. AsSnapshotted' /\ EnvRead' /\ Replaced'
    BY <1>19 DEF Create, Created, End, Goto,
       AsSnapshotted, EnvRead, Replaced, NameHeld, StepsFirst
  <2>5. SuccessDelivers' /\ VolumeInherited'
    BY <1>19 DEF Create, Created, End, Goto,
       AtEnd, SuccessDelivers, VolumeInherited, Replaced, AsSnapshotted, NameHeld, StepsFirst, EnvRead
  <2> QED BY <2>1, <2>2, <2>3, <2>4, <2>5
<1>20. CASE CreateLost
  <2>1. FlagsOK'
    BY <1>20, Zenon DEF CreateLost, Created, End, Goto, FlagsOK
  <2>2. TypeOK'
    BY <1>20, <2>1 DEF CreateLost, Created, End, Goto
  <2>3. InitReclaimed' /\ AtEnd' /\ NameHeld' /\ StepsFirst'
    BY <1>20 DEF CreateLost, Created, End, Goto,
       InitReclaimed, AtEnd, NameHeld, StepsFirst
  <2>4. AsSnapshotted' /\ EnvRead' /\ Replaced'
    BY <1>20 DEF CreateLost, Created, End, Goto,
       AsSnapshotted, EnvRead, Replaced, NameHeld, StepsFirst
  <2>5. SuccessDelivers' /\ VolumeInherited'
    BY <1>20 DEF CreateLost, Created, End, Goto,
       AtEnd, SuccessDelivers, VolumeInherited, Replaced, AsSnapshotted, NameHeld, StepsFirst, EnvRead
  <2> QED BY <2>1, <2>2, <2>3, <2>4, <2>5
<1>21. CASE Start
  <2>1. FlagsOK'
    BY <1>21, Zenon DEF Start, End, Goto, FlagsOK
  <2>2. TypeOK'
    BY ZenonT(30), <1>21, <2>1 DEF Start, End, Goto
  <2>3. InitReclaimed' /\ AtEnd' /\ NameHeld' /\ StepsFirst'
    BY <1>21 DEF Start, End, Goto,
       InitReclaimed, AtEnd, NameHeld, StepsFirst
  <2>4. AsSnapshotted' /\ EnvRead' /\ Replaced'
    BY <1>21 DEF Start, End, Goto,
       AsSnapshotted, EnvRead, Replaced, NameHeld, StepsFirst
  <2>5. SuccessDelivers' /\ VolumeInherited'
    BY <1>21 DEF Start, End, Goto,
       AtEnd, SuccessDelivers, VolumeInherited, Replaced, AsSnapshotted, NameHeld, StepsFirst, EnvRead
  <2> QED BY <2>1, <2>2, <2>3, <2>4, <2>5
<1>22. CASE StartLost
  <2>1. FlagsOK'
    BY <1>22, Zenon DEF StartLost, End, Goto, FlagsOK
  <2>2. TypeOK'
    BY <1>22, <2>1 DEF StartLost, End, Goto
  <2>3. InitReclaimed' /\ AtEnd' /\ NameHeld' /\ StepsFirst'
    BY <1>22 DEF StartLost, End, Goto,
       InitReclaimed, AtEnd, NameHeld, StepsFirst
  <2>4. AsSnapshotted' /\ EnvRead' /\ Replaced'
    BY <1>22 DEF StartLost, End, Goto,
       AsSnapshotted, EnvRead, Replaced, NameHeld, StepsFirst
  <2>5. SuccessDelivers' /\ VolumeInherited'
    BY <1>22 DEF StartLost, End, Goto,
       AtEnd, SuccessDelivers, VolumeInherited, Replaced, AsSnapshotted, NameHeld, StepsFirst, EnvRead
  <2> QED BY <2>1, <2>2, <2>3, <2>4, <2>5
<1>23. CASE run_post_start_hooks
  <2>1. FlagsOK'
    BY <1>23, Zenon DEF run_post_start_hooks, End, Goto, FlagsOK
  <2>2. TypeOK'
    BY <1>23, <2>1 DEF run_post_start_hooks, End, Goto
  <2>3. InitReclaimed' /\ AtEnd' /\ NameHeld' /\ StepsFirst'
    BY <1>23 DEF run_post_start_hooks, End, Goto,
       InitReclaimed, AtEnd, NameHeld, StepsFirst
  <2>4. AsSnapshotted' /\ EnvRead' /\ Replaced'
    BY <1>23 DEF run_post_start_hooks, End, Goto,
       AsSnapshotted, EnvRead, Replaced, NameHeld, StepsFirst
  <2>5. SuccessDelivers' /\ VolumeInherited'
    BY <1>23 DEF run_post_start_hooks, End, Goto,
       AtEnd, SuccessDelivers, VolumeInherited, Replaced, AsSnapshotted, NameHeld, StepsFirst, EnvRead
  <2> QED BY <2>1, <2>2, <2>3, <2>4, <2>5
<1>24. CASE Failed
  <2>1. FlagsOK'
    BY <1>24, Zenon DEF Failed, Fail, End, Goto, FlagsOK
  <2>2. TypeOK'
    BY <1>24, <2>1 DEF Failed, Fail, End, Goto
  <2>3. InitReclaimed' /\ AtEnd' /\ NameHeld' /\ StepsFirst'
    BY <1>24 DEF Failed, Fail, End, Goto,
       InitReclaimed, AtEnd, NameHeld, StepsFirst
  <2>4. AsSnapshotted' /\ EnvRead' /\ Replaced'
    BY <1>24 DEF Failed, Fail, End, Goto,
       AsSnapshotted, EnvRead, Replaced, NameHeld, StepsFirst
  <2>5. SuccessDelivers' /\ VolumeInherited'
    BY <1>24 DEF Failed, Fail, End, Goto,
       AtEnd, SuccessDelivers, VolumeInherited, Replaced, AsSnapshotted, NameHeld, StepsFirst, EnvRead
  <2> QED BY <2>1, <2>2, <2>3, <2>4, <2>5
<1>25. CASE Sweep
  <2>1. FlagsOK'
    <3>1. sweep' = FALSE /\ init' \in {init, FALSE}
      BY <1>25 DEF Sweep
    <3>2. UNCHANGED <<keep, failed, hooked, meddled, armed, pending>>
      BY <1>25 DEF Sweep
    <3> QED BY <3>1, <3>2, Zenon DEF FlagsOK
  <2>2. TypeOK'
    <3>1. excuse' \subseteq {"died", "refused", "exited", "overtaken"}
      BY <1>25 DEF Sweep, Overtaken
    <3>2. UNCHANGED <<podman, disk, plan, step, ends, pc, inherited>>
      BY <1>25 DEF Sweep
    <3> QED BY <3>1, <3>2, <2>1
  <2>3. InitReclaimed' /\ AtEnd' /\ NameHeld' /\ StepsFirst'
    BY <1>25 DEF Sweep, Overtaken, Goto,
       InitReclaimed, AtEnd, NameHeld, StepsFirst
  <2>4. AsSnapshotted' /\ EnvRead' /\ Replaced'
    BY <1>25 DEF Sweep, Overtaken, Goto,
       AsSnapshotted, EnvRead, Replaced, NameHeld, StepsFirst
  <2>5. SuccessDelivers' /\ VolumeInherited'
    BY <1>25 DEF Sweep, Overtaken, Goto,
       AtEnd, SuccessDelivers, VolumeInherited, Replaced, AsSnapshotted, NameHeld, StepsFirst, EnvRead
  <2> QED BY <2>1, <2>2, <2>3, <2>4, <2>5
<1>26. CASE ProcessExits
  <2>1. FlagsOK'
    BY <1>26, Zenon DEF ProcessExits, Goto, FlagsOK
  <2>2. TypeOK'
    BY <1>26, <2>1 DEF ProcessExits, Goto
  <2>3. InitReclaimed' /\ AtEnd' /\ NameHeld' /\ StepsFirst'
    BY <1>26 DEF ProcessExits, Goto,
       InitReclaimed, AtEnd, NameHeld, StepsFirst
  <2>4. AsSnapshotted' /\ EnvRead' /\ Replaced'
    BY <1>26 DEF ProcessExits, Goto,
       AsSnapshotted, EnvRead, Replaced, NameHeld, StepsFirst
  <2>5. SuccessDelivers' /\ VolumeInherited'
    BY <1>26 DEF ProcessExits, Goto,
       AtEnd, SuccessDelivers, VolumeInherited, Replaced, AsSnapshotted, NameHeld, StepsFirst, EnvRead
  <2> QED BY <2>1, <2>2, <2>3, <2>4, <2>5
<1>27. CASE Dropped
  <2>1. FlagsOK'
    BY <1>27, Zenon DEF Dropped, End, Goto, FlagsOK
  <2>2. TypeOK'
    BY <1>27, <2>1 DEF Dropped, End, Goto
  <2>3. InitReclaimed' /\ AtEnd' /\ NameHeld' /\ StepsFirst'
    BY <1>27 DEF Dropped, End, Goto,
       InitReclaimed, AtEnd, NameHeld, StepsFirst
  <2>4. AsSnapshotted' /\ EnvRead' /\ Replaced'
    BY <1>27 DEF Dropped, End, Goto,
       AsSnapshotted, EnvRead, Replaced, NameHeld, StepsFirst
  <2>5. SuccessDelivers' /\ VolumeInherited'
    BY <1>27 DEF Dropped, End, Goto,
       AtEnd, SuccessDelivers, VolumeInherited, Replaced, AsSnapshotted, NameHeld, StepsFirst, EnvRead
  <2> QED BY <2>1, <2>2, <2>3, <2>4, <2>5
<1>28. CASE Died
  <2>1. FlagsOK'
    BY <1>28, Zenon DEF Died, Goto, FlagsOK
  <2>2. TypeOK'
    BY <1>28, <2>1 DEF Died, Goto
  <2>3. InitReclaimed' /\ AtEnd' /\ NameHeld' /\ StepsFirst'
    BY <1>28 DEF Died, Goto,
       InitReclaimed, AtEnd, NameHeld, StepsFirst
  <2>4. AsSnapshotted' /\ EnvRead' /\ Replaced'
    BY <1>28 DEF Died, Goto,
       AsSnapshotted, EnvRead, Replaced, NameHeld, StepsFirst
  <2>5. SuccessDelivers' /\ VolumeInherited'
    BY <1>28 DEF Died, Goto,
       AtEnd, SuccessDelivers, VolumeInherited, Replaced, AsSnapshotted, NameHeld, StepsFirst, EnvRead
  <2> QED BY <2>1, <2>2, <2>3, <2>4, <2>5
<1>29. CASE ContainerExits
  <2>1. FlagsOK'
    BY <1>29, Zenon DEF ContainerExits, Goto, FlagsOK
  <2>2. TypeOK'
    BY <1>29, <2>1 DEF ContainerExits, Goto
  <2>3. InitReclaimed' /\ AtEnd' /\ NameHeld' /\ StepsFirst'
    BY <1>29 DEF ContainerExits, Goto,
       InitReclaimed, AtEnd, NameHeld, StepsFirst
  <2>4. AsSnapshotted' /\ EnvRead' /\ Replaced'
    BY <1>29 DEF ContainerExits, Goto,
       AsSnapshotted, EnvRead, Replaced, NameHeld, StepsFirst
  <2>5. SuccessDelivers' /\ VolumeInherited'
    BY <1>29 DEF ContainerExits, Goto,
       AtEnd, SuccessDelivers, VolumeInherited, Replaced, AsSnapshotted, NameHeld, StepsFirst, EnvRead
  <2> QED BY <2>1, <2>2, <2>3, <2>4, <2>5
<1>30. CASE Removed
  <2>1. FlagsOK'
    BY <1>30, Zenon DEF Removed, Goto, FlagsOK
  <2>2. TypeOK'
    BY <1>30, <2>1 DEF Removed, Goto
  <2>3. InitReclaimed' /\ AtEnd' /\ NameHeld' /\ StepsFirst'
    BY <1>30 DEF Removed, Goto,
       InitReclaimed, AtEnd, NameHeld, StepsFirst
  <2>4. AsSnapshotted' /\ EnvRead' /\ Replaced'
    BY <1>30 DEF Removed, Goto,
       AsSnapshotted, EnvRead, Replaced, NameHeld, StepsFirst
  <2>5. SuccessDelivers' /\ VolumeInherited'
    BY <1>30 DEF Removed, Goto,
       AtEnd, SuccessDelivers, VolumeInherited, Replaced, AsSnapshotted, NameHeld, StepsFirst, EnvRead
  <2> QED BY <2>1, <2>2, <2>3, <2>4, <2>5
<1>31. CASE NameTaken
  <2>1. FlagsOK'
    BY <1>31, Zenon DEF NameTaken, Goto, FlagsOK
  <2>2. TypeOK'
    BY <1>31, <2>1 DEF NameTaken, Goto
  <2>3. InitReclaimed' /\ AtEnd' /\ NameHeld' /\ StepsFirst'
    BY <1>31 DEF NameTaken, Goto,
       InitReclaimed, AtEnd, NameHeld, StepsFirst
  <2>4. AsSnapshotted' /\ EnvRead' /\ Replaced'
    BY <1>31 DEF NameTaken, Goto,
       AsSnapshotted, EnvRead, Replaced, NameHeld, StepsFirst
  <2>5. SuccessDelivers' /\ VolumeInherited'
    BY <1>31 DEF NameTaken, Goto,
       AtEnd, SuccessDelivers, VolumeInherited, Replaced, AsSnapshotted, NameHeld, StepsFirst, EnvRead
  <2> QED BY <2>1, <2>2, <2>3, <2>4, <2>5
<1>32. CASE StepSent
  <2>1. FlagsOK'
    BY <1>32, Zenon DEF StepSent, Goto, FlagsOK
  <2>2. TypeOK'
    BY <1>32, <2>1 DEF StepSent, Goto
  <2>3. InitReclaimed' /\ AtEnd' /\ NameHeld' /\ StepsFirst'
    BY <1>32 DEF StepSent, Goto,
       InitReclaimed, AtEnd, NameHeld, StepsFirst
  <2>4. AsSnapshotted' /\ EnvRead' /\ Replaced'
    BY <1>32 DEF StepSent, Goto,
       AsSnapshotted, EnvRead, Replaced, NameHeld, StepsFirst
  <2>5. SuccessDelivers' /\ VolumeInherited'
    BY <1>32 DEF StepSent, Goto,
       AtEnd, SuccessDelivers, VolumeInherited, Replaced, AsSnapshotted, NameHeld, StepsFirst, EnvRead
  <2> QED BY <2>1, <2>2, <2>3, <2>4, <2>5
<1>33. CASE StepLands
  <2>1. FlagsOK'
    BY <1>33, Zenon DEF StepLands, Goto, FlagsOK
  <2>2. TypeOK'
    BY <1>33, <2>1 DEF StepLands, Goto
  <2>3. InitReclaimed' /\ AtEnd' /\ NameHeld' /\ StepsFirst'
    BY <1>33 DEF StepLands, Goto,
       InitReclaimed, AtEnd, NameHeld, StepsFirst
  <2>4. AsSnapshotted' /\ EnvRead' /\ Replaced'
    BY <1>33 DEF StepLands, Goto,
       AsSnapshotted, EnvRead, Replaced, NameHeld, StepsFirst
  <2>5. SuccessDelivers' /\ VolumeInherited'
    BY <1>33 DEF StepLands, Goto,
       AtEnd, SuccessDelivers, VolumeInherited, Replaced, AsSnapshotted, NameHeld, StepsFirst, EnvRead
  <2> QED BY <2>1, <2>2, <2>3, <2>4, <2>5
<1>34. CASE UNCHANGED vars
  BY <1>34 DEF vars, FlagsOK, InitReclaimed, AtEnd, NameHeld, AsSnapshotted, StepsFirst, EnvRead, Replaced, SuccessDelivers, VolumeInherited
<1> QED
  BY <1>1, <1>2, <1>3, <1>4, <1>5, <1>6, <1>7, <1>8, <1>9, <1>10, <1>11, <1>12, <1>13, <1>14, <1>15, <1>16, <1>17, <1>18, <1>19, <1>20, <1>21, <1>22, <1>23, <1>24, <1>25, <1>26, <1>27, <1>28, <1>29, <1>30, <1>31, <1>32, <1>33, <1>34 DEF Next, Run, Environment

\* The strengthening is an invariant of the specification.
THEOREM Invariant == Spec => []IInv
  BY Initial, Inductive, PTL DEF Spec

\* No init container is forgotten, nor one whose create is in flight: a delete of
\* it is still to come (pre_start.rs, init_cleanup.rs).  There are four exceptions:
\* Podman refused a delete, the process died, it exited before the delete it had
\* spawned, or a delete overtook the create and its 404 was taken for done.
THEOREM InitReclaimedHolds == Spec => []InitReclaimed
<1>1. IInv => InitReclaimed
  BY DEF IInv
<1> QED
  BY Invariant, <1>1, PTL

\* A successful run delivers the container it promises (up_one.rs), for every
\* number of init steps and runs.
THEOREM SuccessDeliversHolds == Spec => []SuccessDelivers
<1>1. IInv => SuccessDelivers
  BY DEF IInv
<1> QED
  BY Invariant, <1>1, PTL

\* The anonymous volume is handed on by every successful run (anon_volumes.rs).
THEOREM VolumeInheritedHolds == Spec => []VolumeInherited
<1>1. IInv => VolumeInherited
  BY DEF IInv
<1> QED
  BY Invariant, <1>1, PTL

\* The container is only deleted when all the init steps have succeeded
\* (up_one.rs runs recreate_service after run_pre_start).
THEOREM FailedInitKeepsHolds == Spec => FailedInitKeeps
<1>1. IInv /\ [Next]_vars =>
        [owner = "ours" /\ owner' # "ours" /\ pc = "delete" => step > Steps /\ ~failed]_vars
  BY DEF IInv, StepsFirst, AfterSteps
<1> QED
  BY Invariant, <1>1, PTL DEF Spec, FailedInitKeeps

\* Volumes disappear only in a run with --renew-anon-volumes (container/mod.rs).
THEOREM VolumesOnlyRenewedHolds == Spec => VolumesOnlyRenewed
<1> DEFINE Kept == vols \ vols' # {} => opt.renew /\ pc = "delete"
<1>1. ASSUME Next PROVE Kept
  <2>1. CASE DeleteOld
    BY <2>1 DEF DeleteOld
  <2>2. CASE Create \/ CreateLost
    BY <2>2 DEF Create, CreateLost, Created
  <2>3. ASSUME ~DeleteOld, ~Create, ~CreateLost PROVE UNCHANGED vols
    BY <1>1, <2>3
    DEF Next, Run, Environment, Begin, Decide, Check, AllStepsDone, NotValid, StepImageFailed, StepSent, StepLands,
        StepCreated, StepNotCreated, StepExited, StepRemoved, FailedStepRemoved, StepNotRemoved, RefreshEnv,
        inherit_anonymous_volumes, require_owned, NotOwned, DeleteFailed, Start, StartLost,
        run_post_start_hooks, Failed, Fail, Sweep, ProcessExits, Dropped, Died, ContainerExits,
        Removed, NameTaken, podman
  <2> QED BY <2>1, <2>2, <2>3
<1>2. ASSUME UNCHANGED vars PROVE Kept
  BY <1>2 DEF vars, podman
<1> QED
  BY <1>1, <1>2, PTL DEF Spec, VolumesOnlyRenewed
=============================================================================

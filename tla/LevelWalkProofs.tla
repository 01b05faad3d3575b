-------------------------- MODULE LevelWalkProofs --------------------------
(***************************************************************************)
(* The strengthening of LevelWalk is inductive, for every project, command *)
(* and bound; the order of the walk, what a success leaves and that no     *)
(* failure is lost follow from it.                                         *)
(***************************************************************************)
EXTENDS LevelWalk, TLAPS, FiniteSetTheorems

\* The number of services is a natural number.
LEMMA Levels == Cardinality(Service) \in Nat
BY FS_CardinalityType, ContainersAssumption

\* Every level is one of the walk, in either direction.
LEMMA Ranks == ASSUME TypeOK, NEW c \in Container PROVE
    /\ Rank(ServiceOf[c]) \in Int
    /\ Rank(ServiceOf[c]) >= 0 /\ Rank(ServiceOf[c]) < Cardinality(Service)
<1>1. ServiceOf[c] \in Service
  BY ContainersAssumption
<1>2. file.level[ServiceOf[c]] \in 0 .. Cardinality(Service) - 1
  BY <1>1, FilesAssumption DEF TypeOK, FileType
<1> QED
  BY <1>2, Levels DEF Rank

\* The requests a command makes are among those Podman takes.
LEMMA OwnRequests == TypeOK => Own \subseteq Ops
BY CommandsAssumption DEF TypeOK, Own, Ops

\* The table of what Podman does, entry by entry.
LEMMA Entries == ASSUME NEW o, NEW s, NEW t, <<o, s, t>> \in Changes PROVE
    \/ o = "start" /\ s \in {"exited", "running"} /\ t = "running"
    \/ o = "stop" /\ s \in {"running", "stopping"} /\ t = "stopping"
    \/ o = "stop" /\ s = "exited" /\ t = "exited"
    \/ o = "restart" /\ s = "running" /\ t = "restarting"
    \/ o = "restart" /\ s = "exited" /\ t = "running"
    \/ o = "pause" /\ s = "running" /\ t = "paused"
    \/ o = "unpause" /\ s = "paused" /\ t = "running"
    \/ o = "rm" /\ s = "exited" /\ t = "gone"
    \/ o = "rmforce" /\ t = "gone"
    \/ o = "kill" /\ s # "exited" /\ t = "stopping"
    \/ o = "kill" /\ s # "exited" /\ t = s /\ cmd = "kill"
BY DEF Changes

\* The entries whose absence makes a conflict.
LEMMA Conflicts == ASSUME NEW o, NEW s \in States, \A t \in States : <<o, s, t>> \notin Changes PROVE
    /\ o = "kill" => s = "exited"
    /\ o = "pause" => s # "running"
    /\ o = "unpause" => s # "paused"
    /\ o = "rm" => s # "exited"
<1>1. ASSUME o = "kill", s # "exited" PROVE FALSE
  <2>1. <<o, s, "stopping">> \in Changes
    BY <1>1 DEF Changes
  <2> QED
    BY <2>1 DEF States
<1>2. ASSUME o = "pause", s = "running" PROVE FALSE
  <2>1. <<o, s, "paused">> \in Changes
    BY <1>2 DEF Changes
  <2> QED
    BY <2>1 DEF States
<1>3. ASSUME o = "unpause", s = "paused" PROVE FALSE
  <2>1. <<o, s, "running">> \in Changes
    BY <1>3 DEF Changes
  <2> QED
    BY <2>1 DEF States
<1>4. ASSUME o = "rm", s = "exited" PROVE FALSE
  <2>1. <<o, s, "gone">> \in Changes
    BY <1>4 DEF Changes
  <2> QED
    BY <2>1 DEF States
<1> QED
  BY <1>1, <1>2, <1>3, <1>4

\* An answer is of one of three shapes.
LEMMA Shapes == ASSUME NEW o, NEW s \in States, NEW e \in Effect(o, s) PROVE
    \/ s = "gone" /\ e = <<"gone", s>>
    \/ \E t \in States : s # "gone" /\ <<o, s, t>> \in Changes /\ e = <<"ok", t>>
    \/ /\ s # "gone" /\ \A t \in States : <<o, s, t>> \notin Changes
       /\ e = <<IF o \in {"kill", "pause", "unpause", "rm"} THEN "conflict" ELSE "error", s>>
BY DEF Effect

\* The states Podman's handling of a request leads to.
LEMMA Effects == ASSUME NEW o \in Ops, NEW s \in States, NEW e \in Effect(o, s) PROVE
    /\ e[1] \in {"ok", "conflict", "gone", "error"} /\ e[2] \in States
    /\ e[2] = "gone" => s = "gone" \/ o \in {"rm", "rmforce"}
    /\ e[2] = "restarting" => s = "restarting" \/ o = "restart"
    /\ e[2] = "stopping" => s = "stopping" \/ o \in {"stop", "kill"}
<1>1. CASE s = "gone" /\ e = <<"gone", s>>
  BY <1>1
<1>2. CASE \E t \in States : s # "gone" /\ <<o, s, t>> \in Changes /\ e = <<"ok", t>>
  <2>1. PICK t \in States : s # "gone" /\ <<o, s, t>> \in Changes /\ e = <<"ok", t>>
    BY <1>2
  <2> QED
    BY <2>1, Entries
<1>3. CASE /\ s # "gone" /\ \A t \in States : <<o, s, t>> \notin Changes
           /\ e = <<IF o \in {"kill", "pause", "unpause", "rm"} THEN "conflict" ELSE "error", s>>
  BY <1>3
<1> QED
  BY <1>1, <1>2, <1>3, Shapes

\* What a success answers for stays so whatever else of the command's own
\* requests arrives late.
LEMMA GoodKept == ASSUME TypeOK, NEW o \in Own, NEW s \in States, NEW e \in Effect(o, s), Good(s)
    PROVE Good(e[2])
<1>1. CASE s = "gone" /\ e = <<"gone", s>>
  BY <1>1
<1>2. CASE \E t \in States : s # "gone" /\ <<o, s, t>> \in Changes /\ e = <<"ok", t>>
  <2>1. PICK t \in States : s # "gone" /\ <<o, s, t>> \in Changes /\ e = <<"ok", t>>
    BY <1>2
  <2> QED
    BY <2>1, Entries, CommandsAssumption DEF TypeOK, Own, Good, Ops
<1>3. CASE /\ s # "gone" /\ \A t \in States : <<o, s, t>> \notin Changes
           /\ e = <<IF o \in {"kill", "pause", "unpause", "rm"} THEN "conflict" ELSE "error", s>>
  BY <1>3
<1> QED
  BY <1>1, <1>2, <1>3, Shapes

\* An acknowledgement, and a conflict that is tolerated, answer for the state.
LEMMA AnswerGood == ASSUME TypeOK, NEW o \in Own, NEW s \in States, NEW e \in Effect(o, s),
        ~(cmd = "down" /\ o = "stop"),
        s = "gone" => cmd \in {"rm", "rmforce", "down"},
        s = "restarting" => cmd = "restart",
        cmd = "rm" => s # "stopping",
        e[1] # "error"
    PROVE Good(e[2])
<1>1. CASE s = "gone" /\ e = <<"gone", s>>
  BY <1>1 DEF Good
<1>2. CASE \E t \in States : s # "gone" /\ <<o, s, t>> \in Changes /\ e = <<"ok", t>>
  <2>1. PICK t \in States : s # "gone" /\ <<o, s, t>> \in Changes /\ e = <<"ok", t>>
    BY <1>2
  <2> QED
    BY <2>1, Entries, CommandsAssumption DEF TypeOK, Own, Good, Ops
<1>3. CASE /\ s # "gone" /\ \A t \in States : <<o, s, t>> \notin Changes
           /\ e = <<IF o \in {"kill", "pause", "unpause", "rm"} THEN "conflict" ELSE "error", s>>
  BY <1>3, Conflicts, CommandsAssumption DEF TypeOK, Own, Good, Ops, States
<1> QED
  BY <1>1, <1>2, <1>3, Shapes

LEMMA Initial == Init => IInv
<1> SUFFICES ASSUME Init PROVE IInv
  OBVIOUS
<1>1. FlagsOK
  BY Zenon DEF Init, FlagsOK
<1>2. TypeOK
  BY <1>1, Levels, ContainersAssumption DEF Init, TypeOK, States
<1>3. \A c \in live : Rank(ServiceOf[c]) >= 0
  BY <1>2, Ranks DEF TypeOK
<1>4. Progress
  BY <1>2, <1>3, Ranks DEF Init, Progress, TypeOK, Errors
<1>5. Requests
  BY DEF Init, Requests
<1>6. Plausible
  BY ContainersAssumption DEF Init, Plausible
<1>7. Answers
  BY DEF Init, Answers, Waiting, Ops
<1> QED
  BY <1>2, <1>4, <1>5, <1>6, <1>7 DEF IInv

\* A step that leaves the command's constants alone leaves what is said with
\* them alone.
LEMMA Frame == ASSUME UNCHANGED fixed PROVE
    /\ Own' = Own
    /\ \A s : Good(s)' <=> Good(s)
    /\ \A c : Rank(ServiceOf[c])' = Rank(ServiceOf[c])
BY DEF fixed, Own, Good, Rank

\* Sending a request of its own to a container of the current level.
LEMMA SendKeeps == ASSUME IInv, NEW c \in Container, NEW o \in Own, Now(c), pc[c] # "done", Send(c, o)
    PROVE IInv'
<1> USE DEF IInv, Send, Now, fixed
<1>1. o \in Ops
  BY OwnRequests
<1>2. FlagsOK'
  BY Zenon DEF TypeOK, FlagsOK
<1>3. TypeOK'
  BY <1>1, <1>2 DEF TypeOK
<1>4. Progress'
  <2>1. Errors' = Errors
    BY DEF Errors
  <2> QED
    BY <1>1, <2>1, Frame DEF Progress, TypeOK, Ops
<1>5. Requests'
  BY Frame DEF Requests, TypeOK
<1>6. Plausible'
  BY DEF Plausible
<1>7. Answers'
  <2> SUFFICES ASSUME NEW d \in live, ~meddled[d]
               PROVE /\ (Waiting(d) /\ reply[d] \in {"ok", "gone", "conflict"} => Good(st[d]))'
                     /\ (res[d] \in {"acted", "idle"} => Good(st[d]))'
    BY DEF Answers
  <2> QED
    BY Frame DEF Answers, Waiting, Stopping, TypeOK
<1> QED
  BY <1>3, <1>4, <1>5, <1>6, <1>7

\* Finishing with a container of the current level: but for an error, what the
\* command is for must hold of it.
LEMMA FinishKeeps == ASSUME IInv, NEW c \in Container, NEW r \in {"acted", "idle", "err"},
        Now(c), Finish(c, r), r # "err" /\ ~meddled[c] => Good(st[c])
    PROVE IInv'
<1> USE DEF IInv, Finish, Now, fixed, podman
<1>2. FlagsOK'
  BY Zenon DEF TypeOK, FlagsOK
<1>3. TypeOK'
  BY <1>2 DEF TypeOK
<1>4. Progress'
  BY Frame DEF Progress, TypeOK
<1>5. Requests'
  BY Frame DEF Requests, TypeOK
<1>6. Plausible'
  BY DEF Plausible
<1>7. Answers'
  <2> SUFFICES ASSUME NEW d \in live, ~meddled[d]
               PROVE /\ (Waiting(d) /\ reply[d] \in {"ok", "gone", "conflict"} => Good(st[d]))'
                     /\ (res[d] \in {"acted", "idle"} => Good(st[d]))'
    BY DEF Answers
  <2> QED
    BY Frame DEF Answers, Waiting, Stopping, TypeOK
<1> QED
  BY <1>3, <1>4, <1>5, <1>6, <1>7

\* A step of the walk at one container: one step of the proof per action.
LEMMA WalkKeeps == ASSUME IInv, NEW c \in Container, Walk(c) PROVE IInv'
<1> USE DEF Walk
<1>0. Now(c) /\ c \in live
  BY DEF Now
<1>1. CASE Take(c)
  <2>1. (IF cmd = "down" THEN "stop" ELSE cmd) \in Own
    BY DEF Own
  <2> QED
    BY <1>0, <1>1, <2>1, SendKeeps DEF Take
<1>2. CASE Remove(c)
  <2>1. "rmforce" \in Own /\ pc[c] # "done"
    BY <1>2 DEF Own, Remove, Stopping
  <2> QED
    BY <1>0, <1>2, <2>1, SendKeeps DEF Remove
<1>3. CASE Acknowledged(c)
  <2>1. ~meddled[c] => Good(st[c])
    BY <1>0, <1>3 DEF Acknowledged, IInv, Answers
  <2> QED
    BY <1>0, <1>3, <2>1, FinishKeeps DEF Acknowledged
<1>4. CASE Skipped(c)
  <2>1. ~meddled[c] => Good(st[c])
    BY <1>0, <1>4 DEF Skipped, IInv, Answers
  <2> QED
    BY <1>0, <1>4, <2>1, FinishKeeps DEF Skipped
<1>5. CASE Refused(c)
  BY <1>0, <1>5, FinishKeeps DEF Refused
<1>6. CASE Lost(c)
  <2> USE <1>6 DEF IInv, Lost, Now, fixed, podman
  <2>1. FlagsOK'
    BY Zenon DEF TypeOK, FlagsOK
  <2>2. TypeOK'
    BY <2>1 DEF TypeOK
  <2>3. Progress'
    <3>1. Errors' = Errors
      BY DEF Errors
    <3> QED
      BY <3>1, Frame DEF Progress, TypeOK, Waiting, Ops
  <2>4. Requests' /\ Plausible'
    BY Frame DEF Requests, TypeOK, Plausible
  <2>5. Answers'
    BY Frame DEF Answers, TypeOK, Waiting, Stopping, Ops
  <2> QED
    BY <2>2, <2>3, <2>4, <2>5
<1>7. CASE confirm_lost_response(c)
  <2>1. Reached(st[c]) => Good(st[c])
    BY DEF Reached, Good
  <2> QED
    BY <1>0, <1>7, <2>1, FinishKeeps DEF confirm_lost_response
<1>8. CASE Escalate(c)
  <2>1. "kill" \in Own /\ pc[c] # "done"
    BY <1>8 DEF Own, Escalate
  <2> QED
    BY <1>0, <1>8, <2>1, SendKeeps DEF Escalate
<1>9. CASE Broken(c)
  BY <1>0, <1>9, FinishKeeps DEF Broken
<1> QED
  BY <1>1, <1>2, <1>3, <1>4, <1>5, <1>6, <1>7, <1>8, <1>9

\* The end of a level.
LEMMA LevelKeeps == ASSUME IInv, LevelDone PROVE IInv'
<1> USE DEF IInv, LevelDone, fixed, podman
<1>1. FlagsOK'
  BY Zenon DEF TypeOK, FlagsOK
<1>2. TypeOK'
  BY <1>1, Levels DEF TypeOK
<1>3. Errors' = Errors
  BY DEF Errors
<1>4. ASSUME NEW c \in live PROVE
        /\ (Rank(ServiceOf[c]) < pos => pc[c] = "done" /\ (cmd \in Halting => res[c] # "err"))'
        /\ (Rank(ServiceOf[c]) > pos => pc[c] = "todo")'
  <2>1. Rank(ServiceOf[c]) \in Int /\ Rank(ServiceOf[c])' = Rank(ServiceOf[c])
    BY Ranks, Frame DEF TypeOK
  <2>2. /\ Rank(ServiceOf[c]) < pos => pc[c] = "done" /\ (cmd \in Halting => res[c] # "err")
        /\ Rank(ServiceOf[c]) > pos => pc[c] = "todo"
    BY DEF Progress
  <2>3. Rank(ServiceOf[c]) = pos => pc[c] = "done"
    BY DEF AtLevel
  <2>4. CASE cmd \in Halting /\ Errors # {}
    BY <2>1, <2>2, <2>4
  <2>5. CASE ~(cmd \in Halting /\ Errors # {})
    <3>1. cmd \in Halting => res[c] # "err"
      BY <2>5 DEF Errors
    <3> QED
      BY <2>1, <2>2, <2>3, <2>5, <3>1 DEF TypeOK
  <2> QED
    BY <2>4, <2>5
<1>5. Progress'
  BY <1>3, <1>4 DEF Progress, TypeOK
<1>6. Requests' /\ Plausible' /\ Answers'
  BY Frame DEF Requests, Plausible, Answers, Waiting, Stopping
<1> QED
  BY <1>2, <1>5, <1>6

\* The end of the walk.
LEMMA ReportKeeps == ASSUME IInv, Report PROVE IInv'
<1> USE DEF IInv, Report, fixed, podman
<1>1. FlagsOK'
  BY Zenon DEF TypeOK, FlagsOK
<1>2. TypeOK'
  BY <1>1 DEF TypeOK
<1>3. Errors' = Errors
  BY DEF Errors
<1>4. Progress'
  BY <1>3, Frame DEF Progress
<1>5. Requests' /\ Plausible' /\ Answers'
  BY Frame DEF Requests, Plausible, Answers, Waiting, Stopping
<1> QED
  BY <1>2, <1>4, <1>5

\* Podman deals with a request of the command, in time or late.
LEMMA DeliverKeeps == ASSUME IInv, NEW c \in Container, Deliver(c) PROVE IInv'
<1> USE DEF IInv, fixed
<1>1. PICK o \in req[c] :
        /\ req' = [req EXCEPT ![c] = @ \ {o}]
        /\ \E e \in Effect(o, st[c]) :
             /\ st' = [st EXCEPT ![c] = e[2]]
             /\ reply' = IF pc[c] = o THEN [reply EXCEPT ![c] = e[1]] ELSE reply
             /\ did' = [did EXCEPT ![c] = @ \/ e[2] # st[c]]
        /\ UNCHANGED <<meddled, fixed, pos, pc, res, outcome>>
  BY DEF Deliver
<1>2. PICK e \in Effect(o, st[c]) :
        /\ st' = [st EXCEPT ![c] = e[2]]
        /\ reply' = IF pc[c] = o THEN [reply EXCEPT ![c] = e[1]] ELSE reply
        /\ did' = [did EXCEPT ![c] = @ \/ e[2] # st[c]]
  BY <1>1
<1>3. o \in Own /\ o \in Ops /\ st[c] \in States
  BY OwnRequests DEF TypeOK, Requests
<1>4. /\ e[1] \in {"ok", "conflict", "gone", "error"} /\ e[2] \in States
      /\ e[2] = "gone" => st[c] = "gone" \/ o \in {"rm", "rmforce"}
      /\ e[2] = "restarting" => st[c] = "restarting" \/ o = "restart"
      /\ e[2] = "stopping" => st[c] = "stopping" \/ o \in {"stop", "kill"}
  BY <1>2, <1>3, Effects
<1>5. FlagsOK'
  BY <1>1, <1>2, Zenon DEF TypeOK, FlagsOK
<1>6. TypeOK'
  BY <1>1, <1>2, <1>4, <1>5 DEF TypeOK
<1>7. Progress'
  <2>1. Errors' = Errors
    BY <1>1 DEF Errors
  <2> QED
    BY <1>1, <2>1, Frame DEF Progress
<1>8. Requests'
  BY <1>1, Frame DEF Requests, TypeOK
<1>9. Plausible'
  BY <1>1, <1>2, <1>3, <1>4, CommandsAssumption DEF Plausible, Own, TypeOK, Ops
<1>10. Answers'
  <2> SUFFICES ASSUME NEW d \in live, ~meddled[d]
               PROVE /\ (Waiting(d) /\ reply[d] \in {"ok", "gone", "conflict"} => Good(st[d]))'
                     /\ (res[d] \in {"acted", "idle"} => Good(st[d]))'
    BY <1>1 DEF Answers
  <2>1. /\ Waiting(d) /\ reply[d] \in {"ok", "gone", "conflict"} => Good(st[d])
        /\ res[d] \in {"acted", "idle"} => Good(st[d])
    BY DEF Answers
  <2>2. Waiting(d)' = Waiting(d) /\ (\A s : Good(s)' <=> Good(s))
    BY <1>1, Frame DEF Waiting, Stopping
  <2>3. CASE d # c
    BY <1>1, <1>2, <2>1, <2>2, <2>3 DEF TypeOK
  <2>4. CASE d = c
    <3>1. Good(st[c]) => Good(e[2])
      BY <1>2, <1>3, GoodKept
    <3>2. Waiting(c) /\ pc[c] = o /\ e[1] # "error" => Good(e[2])
      BY <1>2, <1>3, <2>4, AnswerGood DEF Waiting, Stopping, Plausible
    <3>3. st'[c] = e[2]
      BY <1>2 DEF TypeOK
    <3>4. CASE pc[c] = o
      <4>1. reply'[c] = e[1]
        BY <1>2, <3>4 DEF TypeOK
      <4> QED
        BY <1>1, <1>4, <2>1, <2>2, <2>4, <3>1, <3>2, <3>3, <3>4, <4>1
    <3>5. CASE pc[c] # o
      BY <1>1, <1>2, <2>1, <2>2, <2>4, <3>1, <3>3, <3>5
    <3> QED
      BY <3>4, <3>5
  <2> QED
    BY <2>3, <2>4
<1> QED
  BY <1>6, <1>7, <1>8, <1>9, <1>10

\* A container comes to the end of its stop or restart.
LEMMA SettleKeeps == ASSUME IInv, NEW c \in Container, Settle(c) PROVE IInv'
<1> USE DEF IInv, Settle, fixed
<1>1. FlagsOK'
  BY Zenon DEF TypeOK, FlagsOK
<1>2. TypeOK'
  BY <1>1 DEF TypeOK, States
<1>3. Progress'
  <2>1. Errors' = Errors
    BY DEF Errors
  <2> QED
    BY <2>1, Frame DEF Progress
<1>4. Requests'
  BY Frame DEF Requests
<1>5. Plausible'
  BY DEF Plausible, TypeOK
<1>6. Answers'
  <2>1. ASSUME NEW d \in live, ~meddled[d], Good(st[d]) PROVE Good(st'[d])
    BY <2>1 DEF Good, TypeOK, Plausible
  <2>2. \A d : Waiting(d)' = Waiting(d)
    BY DEF Waiting, Stopping
  <2> QED
    BY <2>1, <2>2, Frame DEF Answers
<1> QED
  BY <1>2, <1>3, <1>4, <1>5, <1>6

\* Someone else acts on a container, which is not answered for any more.
LEMMA MeddleKeeps == ASSUME IInv, NEW c \in Container, Meddle(c) PROVE IInv'
<1> USE DEF IInv, Meddle, fixed
<1>1. FlagsOK'
  BY Zenon DEF TypeOK, FlagsOK
<1>2. TypeOK'
  BY <1>1 DEF TypeOK, States
<1>3. Progress'
  <2>1. Errors' = Errors
    BY DEF Errors
  <2> QED
    BY <2>1, Frame DEF Progress
<1>4. Requests'
  BY Frame DEF Requests
<1>5. meddled'[c] /\ \A d \in Container : d # c => meddled'[d] = meddled[d] /\ st'[d] = st[d]
  BY DEF TypeOK, FlagsOK
<1>6. Plausible'
  BY <1>2, <1>5 DEF Plausible, TypeOK
<1>7. Answers'
  <2>1. \A d : Waiting(d)' = Waiting(d)
    BY DEF Waiting, Stopping
  <2> QED
    BY <1>2, <1>5, <2>1, Frame DEF Answers, TypeOK
<1> QED
  BY <1>2, <1>3, <1>4, <1>6, <1>7

\* Every step keeps the strengthening.
LEMMA Inductive == IInv /\ [Next]_vars => IInv'
<1> SUFFICES ASSUME IInv, [Next]_vars PROVE IInv'
  OBVIOUS
<1>1. CASE Command
  BY <1>1, WalkKeeps, LevelKeeps, ReportKeeps DEF Command
<1>2. CASE Environment
  BY <1>2, DeliverKeeps, SettleKeeps, MeddleKeeps DEF Environment
<1>3. CASE UNCHANGED vars
  <2> USE <1>3 DEF vars, podman, fixed
  <2>1. Errors' = Errors
    BY DEF Errors
  <2>2. FlagsOK' /\ Progress'
    BY <2>1, Frame DEF IInv, TypeOK, FlagsOK, Progress
  <2> QED
    BY <2>1, <2>2, Frame DEF IInv, TypeOK, Requests, Plausible, Answers, Waiting, Stopping
<1> QED
  BY <1>1, <1>2, <1>3 DEF Next

\* Every reachable state satisfies the strengthening.
THEOREM Invariant == Spec => []IInv
BY Initial, Inductive, PTL DEF Spec

\* A container is contacted only when those of the services on the other side
\* of a dependency have been dealt with, and for stop and kill without error.
THEOREM WalkOrderHolds == Spec => []WalkOrder
<1>1. IInv => WalkOrder
  <2> SUFFICES ASSUME IInv, NEW c \in live, NEW d \in live,
                      Before(ServiceOf[d], ServiceOf[c]), pc[c] # "todo"
               PROVE pc[d] = "done" /\ (cmd \in Halting => res[d] # "err")
    BY DEF WalkOrder
  <2> USE DEF IInv
  <2>1. c \in Container /\ d \in Container
    BY DEF TypeOK
  <2>2. ServiceOf[c] \in Service /\ ServiceOf[d] \in Service
    BY <2>1, ContainersAssumption
  <2>3. file \in FileType
    BY FilesAssumption DEF TypeOK
  <2>4. file.level[ServiceOf[c]] \in Int /\ file.level[ServiceOf[d]] \in Int
    BY <2>2, <2>3, Levels DEF FileType
  <2>5. Rank(ServiceOf[d]) < Rank(ServiceOf[c])
    BY <2>2, <2>4, FilesAssumption, Levels DEF Before, Rank, TypeOK
  <2>6. pos \in Int /\ Rank(ServiceOf[c]) \in Int /\ Rank(ServiceOf[d]) \in Int
    BY <2>1, Ranks, Levels DEF TypeOK
  <2>7. ~(Rank(ServiceOf[c]) > pos)
    BY DEF Progress
  <2> QED
    BY <2>5, <2>6, <2>7 DEF Progress
<1> QED
  BY <1>1, Invariant, PTL

\* What a command that succeeded leaves, container by container, whatever
\* became of its answers.
THEOREM DeliveredHolds == Spec => []Delivered
<1>1. IInv => Delivered
  <2> SUFFICES ASSUME IInv, outcome = "ok", NEW c \in live, ~meddled[c] PROVE Good(st[c])
    BY DEF Delivered
  <2> USE DEF IInv
  <2>1. c \in Container /\ res[c] \in {"none", "acted", "idle", "err"}
    BY DEF TypeOK
  <2>2. pos = Cardinality(Service) /\ res[c] # "err"
    BY DEF Progress, Errors
  <2>3. Rank(ServiceOf[c]) < pos
    BY <2>1, <2>2, Ranks
  <2>4. res[c] # "none"
    BY <2>1, <2>3 DEF Progress
  <2> QED
    BY <2>1, <2>2, <2>4 DEF Answers
<1> QED
  BY <1>1, Invariant, PTL

\* A command fails exactly when one of its containers did, and but for stop and
\* kill it has tried them all by then.
THEOREM NothingDroppedHolds == Spec => []NothingDropped
<1>1. IInv => NothingDropped
  <2> SUFFICES ASSUME IInv, outcome # "none"
               PROVE /\ (outcome = "err") <=> Errors # {}
                     /\ outcome = "ok" \/ cmd \notin Halting => \A c \in live : pc[c] = "done"
    BY DEF NothingDropped
  <2> USE DEF IInv
  <2>1. outcome \in {"ok", "err"}
    BY DEF TypeOK
  <2>2. (outcome = "err") <=> Errors # {}
    BY <2>1 DEF Progress
  <2>3. ASSUME outcome = "ok" \/ cmd \notin Halting, NEW c \in live PROVE pc[c] = "done"
    <3>1. pos = Cardinality(Service)
      BY <2>1, <2>3 DEF Progress
    <3>2. Rank(ServiceOf[c]) < pos
      BY <3>1, Ranks DEF TypeOK
    <3> QED
      BY <3>2 DEF Progress
  <2> QED
    BY <2>2, <2>3
<1> QED
  BY <1>1, Invariant, PTL
=============================================================================

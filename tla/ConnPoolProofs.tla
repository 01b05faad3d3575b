--------------------------- MODULE ConnPoolProofs ---------------------------
(***************************************************************************)
(* What holds of the pool for every number of callers, every cap and every *)
(* way callers fail or are dropped: a connection has one owner, and every  *)
(* tracked connection is covered by a slot of live_count, which stays      *)
(* between zero and the cap.                                               *)
(***************************************************************************)
EXTENDS ConnPool, FiniteSetTheorems, TLAPS

USE DEF PCs, Using, pool, notify, guard

\* There are finitely many callers, so the slots taken can be counted.
LEMMA HoldersFinite ==
    /\ IsFiniteSet(SlotHolders) /\ Cardinality(SlotHolders) \in Nat
    /\ IsFiniteSet(SlotHolders')
  <1>1. SlotHolders \subseteq Caller /\ SlotHolders' \subseteq Caller
    BY DEF SlotHolders
  <1> QED
    BY <1>1, CallerAssumption, FS_Subset, FS_CardinalityType

\* One caller more, or one caller less, in a slot.
LEMMA HolderAdded ==
    ASSUME NEW p, p \notin SlotHolders, SlotHolders' = SlotHolders \cup {p}
    PROVE  Cardinality(SlotHolders') = Cardinality(SlotHolders) + 1
  BY HoldersFinite, FS_AddElement

LEMMA HolderGone ==
    ASSUME NEW p, p \in SlotHolders, SlotHolders' = SlotHolders \ {p}
    PROVE  Cardinality(SlotHolders') = Cardinality(SlotHolders) - 1
  BY HoldersFinite, FS_RemoveElement

\* A notification wakes one sleeper and keeps the queue the list of sleepers.
LEMMA NotifyOne ==
    ASSUME TypeOK, SleepersQueued, NEW p \in Caller, pc[p] # "asleep",
           NEW l \in PCs \ {"asleep"}, notify_one(p, l)
    PROVE  /\ permit' \in BOOLEAN /\ waitq' \in Seq(Caller) /\ pc' \in [Caller -> PCs]
           /\ SleepersQueued'
           /\ \A q \in Caller : q # p => pc'[q] = pc[q] \/ (pc[q] = "asleep" /\ pc'[q] = "woken")
           /\ pc'[p] = l
  <1>1. CASE waitq = <<>>
    BY <1>1 DEF notify_one, TypeOK, SleepersQueued, Goto
  <1>2. CASE waitq # <<>>
    <2> DEFINE q == Head(waitq)
    <2>1. q \in Caller /\ q = waitq[1] /\ 1 \in DOMAIN waitq
      BY <1>2 DEF TypeOK
    <2>2. pc[q] = "asleep" /\ q # p
      BY <2>1 DEF SleepersQueued
    <2>3. /\ waitq' \in Seq(Caller) /\ Len(waitq') = Len(waitq) - 1
          /\ \A i \in DOMAIN waitq' : waitq'[i] = waitq[i + 1] /\ i + 1 \in DOMAIN waitq
          /\ \A i \in DOMAIN waitq : i # 1 => i - 1 \in DOMAIN waitq' /\ waitq'[i - 1] = waitq[i]
      <3>1. waitq' = Tail(waitq) /\ waitq \in Seq(Caller)
        BY <1>2 DEF notify_one, TypeOK
      <3>2. /\ waitq' \in Seq(Caller) /\ Len(waitq') = Len(waitq) - 1
            /\ \A i \in 1 .. Len(waitq) - 1 : waitq'[i] = waitq[i + 1]
        BY <1>2, <3>1
      <3>3. DOMAIN waitq = 1 .. Len(waitq) /\ DOMAIN waitq' = 1 .. Len(waitq) - 1 /\ Len(waitq) \in Nat
        BY <3>1, <3>2
      <3> QED
        BY <3>2, <3>3
    <2>4. pc' = [pc EXCEPT ![p] = l, ![q] = "woken"] /\ permit' = permit
      BY <1>2 DEF notify_one
    <2>5. /\ pc' \in [Caller -> PCs]
          /\ \A x \in Caller : pc'[x] = IF x = q THEN "woken" ELSE IF x = p THEN l ELSE pc[x]
      BY <2>1, <2>4 DEF TypeOK
    <2>6. \A i, j \in DOMAIN waitq' : waitq'[i] = waitq'[j] => i = j
      BY <2>3 DEF SleepersQueued, TypeOK
    <2>7. \A x \in Caller : pc'[x] = "asleep" => \E i \in DOMAIN waitq' : waitq'[i] = x
      <3> SUFFICES ASSUME NEW x \in Caller, pc'[x] = "asleep"
                   PROVE  \E i \in DOMAIN waitq' : waitq'[i] = x
        OBVIOUS
      <3>1. x # q /\ pc[x] = "asleep"
        BY <2>5
      <3>2. PICK i \in DOMAIN waitq : waitq[i] = x
        BY <3>1 DEF SleepersQueued
      <3> QED
        BY <2>1, <2>3, <3>1, <3>2
    <2>8. \A i \in DOMAIN waitq' : pc'[waitq'[i]] = "asleep"
      <3> SUFFICES ASSUME NEW i \in DOMAIN waitq' PROVE pc'[waitq'[i]] = "asleep"
        OBVIOUS
      <3>1. waitq'[i] = waitq[i + 1] /\ i + 1 \in DOMAIN waitq /\ i + 1 # 1
        BY <2>3 DEF TypeOK
      <3>2. waitq[i + 1] \in Caller /\ waitq[i + 1] # q
        BY <2>1, <3>1 DEF SleepersQueued, TypeOK
      <3>3. pc[waitq[i + 1]] = "asleep"
        BY <3>1, <3>2 DEF SleepersQueued
      <3> QED
        BY <2>5, <3>1, <3>2, <3>3
    <2> HIDE DEF q
    <2>9. SleepersQueued'
      BY <2>3, <2>6, <2>7, <2>8 DEF SleepersQueued, TypeOK
    <2>10. pc'[p] = l
      BY <2>2, <2>5
    <2> QED
      BY <2>2, <2>3, <2>4, <2>5, <2>9, <2>10 DEF TypeOK
  <1> QED
    BY <1>1, <1>2

\* Every step of a caller, of the driver and of the peer keeps IInv.
LEMMA Inductive == IInv /\ [Next]_vars => IInv'
  <1> SUFFICES ASSUME IInv, [Next]_vars PROVE IInv'
    OBVIOUS
  <1> USE DEF IInv, TypeOK, Goto
  <1>0. live_count \in Int /\ Len(idle) \in Nat /\ Cardinality(SlotHolders) \in Nat /\ Cap \in Nat
    BY HoldersFinite, CapAssumption
  <1>1. ASSUME NEW p \in Caller, Enter(p) PROVE IInv'
    <2>1. TypeOK'
      BY <1>1 DEF Enter, Holding
    <2>2. SleepersQueued'
      BY <1>1 DEF Enter, SleepersQueued
    <2>3. Holding'
      BY <1>1, ConnAssumption DEF Enter, Holding, OneOwner
    <2>4. SlotsCovered'
      <3>1. SlotHolders' = SlotHolders
        BY <1>1 DEF Enter, SlotHolders, InSlot, Holding
      <3>2. Len(idle') <= Len(idle) /\ Len(idle') \in Nat
        BY <1>1 DEF Enter
      <3> QED
        BY <1>1, <1>0, <3>1, <3>2 DEF Enter, SlotsCovered
    <2>5. OneOwner'
      BY <1>1 DEF Enter, OneOwner
    <2> QED
      BY <2>1, <2>2, <2>3, <2>4, <2>5
  <1>2. ASSUME NEW p \in Caller, RejectClosed(p) PROVE IInv'
    <2>1. TypeOK'
      BY <1>2 DEF RejectClosed, Holding
    <2>2. SleepersQueued'
      BY <1>2 DEF RejectClosed, SleepersQueued
    <2>3. Holding'
      BY <1>2, ConnAssumption DEF RejectClosed, Holding, OneOwner
    <2>4. SlotsCovered'
      <3>1. SlotHolders' = SlotHolders
        BY <1>2 DEF RejectClosed, SlotHolders, InSlot, Holding
      <3>2. Len(idle') <= Len(idle) /\ Len(idle') \in Nat
        BY <1>2 DEF RejectClosed
      <3> QED
        BY <1>2, <1>0, <3>1, <3>2 DEF RejectClosed, SlotsCovered
    <2>5. OneOwner'
      BY <1>2 DEF RejectClosed, OneOwner
    <2> QED
      BY <2>1, <2>2, <2>3, <2>4, <2>5
  <1>3. ASSUME NEW p \in Caller, TakeIdle(p) PROVE IInv'
    <2>1. TypeOK'
      BY <1>3 DEF TakeIdle, Holding
    <2>2. SleepersQueued'
      BY <1>3 DEF TakeIdle, SleepersQueued
    <2>3. Holding'
      BY <1>3, ConnAssumption DEF TakeIdle, Holding, OneOwner
    <2>4. OneOwner'
      BY <1>3, ConnAssumption DEF TakeIdle, OneOwner, Holding
    <2>5. SlotsCovered'
      <3>1. p \notin SlotHolders /\ SlotHolders' = SlotHolders \cup {p}
        BY <1>3 DEF TakeIdle, SlotHolders, InSlot, Holding
      <3>2. Cardinality(SlotHolders') = Cardinality(SlotHolders) + 1
        BY <3>1, HolderAdded
      <3>3. Len(idle') = Len(idle) - 1
        BY <1>3 DEF TakeIdle
      <3> QED
        BY <1>3, <1>0, <3>2, <3>3 DEF TakeIdle, SlotsCovered
    <2> QED
      BY <2>1, <2>2, <2>3, <2>4, <2>5
  <1>4. ASSUME NEW p \in Caller, ReserveSlot(p) PROVE IInv'
    <2>1. TypeOK'
      BY <1>4 DEF ReserveSlot, Holding
    <2>2. SleepersQueued'
      BY <1>4 DEF ReserveSlot, SleepersQueued
    <2>3. Holding'
      BY <1>4, ConnAssumption DEF ReserveSlot, Holding, OneOwner
    <2>4. SlotsCovered'
      <3>1. p \notin SlotHolders /\ SlotHolders' = SlotHolders \cup {p}
        BY <1>4 DEF ReserveSlot, SlotHolders, InSlot, Holding
      <3>2. Cardinality(SlotHolders') = Cardinality(SlotHolders) + 1
        BY <3>1, HolderAdded
      <3>3. Len(idle') = Len(idle)
        BY <1>4 DEF ReserveSlot
      <3> QED
        BY <1>4, <1>0, <3>2, <3>3 DEF ReserveSlot, SlotsCovered
    <2>5. OneOwner'
      BY <1>4 DEF ReserveSlot, OneOwner
    <2> QED
      BY <2>1, <2>2, <2>3, <2>4, <2>5
  <1>5. ASSUME NEW p \in Caller, AtCap(p) PROVE IInv'
    <2>1. TypeOK'
      BY <1>5 DEF AtCap, Holding
    <2>2. SleepersQueued'
      BY <1>5 DEF AtCap, SleepersQueued
    <2>3. Holding'
      BY <1>5, ConnAssumption DEF AtCap, Holding, OneOwner
    <2>4. SlotsCovered'
      <3>1. SlotHolders' = SlotHolders
        BY <1>5 DEF AtCap, SlotHolders, InSlot, Holding
      <3>2. Len(idle') <= Len(idle) /\ Len(idle') \in Nat
        BY <1>5 DEF AtCap
      <3> QED
        BY <1>5, <1>0, <3>1, <3>2 DEF AtCap, SlotsCovered
    <2>5. OneOwner'
      BY <1>5 DEF AtCap, OneOwner
    <2> QED
      BY <2>1, <2>2, <2>3, <2>4, <2>5
  <1>6. ASSUME NEW p \in Caller, Ready(p) PROVE IInv'
    <2>1. TypeOK'
      BY <1>6 DEF Ready, Holding
    <2>2. SleepersQueued'
      BY <1>6 DEF Ready, SleepersQueued
    <2>3. Holding'
      BY <1>6, ConnAssumption DEF Ready, Holding, OneOwner
    <2>4. SlotsCovered'
      <3>1. SlotHolders' = SlotHolders
        BY <1>6 DEF Ready, SlotHolders, InSlot, Holding
      <3>2. Len(idle') <= Len(idle) /\ Len(idle') \in Nat
        BY <1>6 DEF Ready
      <3> QED
        BY <1>6, <1>0, <3>1, <3>2 DEF Ready, SlotsCovered
    <2>5. OneOwner'
      BY <1>6 DEF Ready, OneOwner
    <2> QED
      BY <2>1, <2>2, <2>3, <2>4, <2>5
  <1>7. ASSUME NEW p \in Caller, NotReady(p) PROVE IInv'
    <2>1. TypeOK'
      BY <1>7 DEF NotReady, Holding
    <2>2. SleepersQueued'
      BY <1>7 DEF NotReady, SleepersQueued
    <2>3. Holding'
      BY <1>7, ConnAssumption DEF NotReady, Holding, OneOwner
    <2>4. OneOwner'
      BY <1>7, ConnAssumption DEF NotReady, OneOwner, Holding
    <2>5. SlotsCovered'
      <3>1. p \in SlotHolders /\ SlotHolders' = SlotHolders \ {p}
        BY <1>7 DEF NotReady, SlotHolders, InSlot, Holding
      <3>2. Cardinality(SlotHolders') = Cardinality(SlotHolders) - 1
        BY <3>1, HolderGone
      <3>3. Len(idle') = Len(idle)
        BY <1>7 DEF NotReady
      <3> QED
        BY <1>7, <1>0, <3>2, <3>3 DEF NotReady, SlotsCovered
    <2> QED
      BY <2>1, <2>2, <2>3, <2>4, <2>5
  <1>8. ASSUME NEW p \in Caller, NEW c \in Conn, Opened(p, c) PROVE IInv'
    <2>1. TypeOK'
      BY <1>8 DEF Opened, Holding
    <2>2. SleepersQueued'
      BY <1>8 DEF Opened, SleepersQueued
    <2>3. Holding'
      BY <1>8, ConnAssumption DEF Opened, Holding, OneOwner
    <2>4. OneOwner'
      BY <1>8, ConnAssumption DEF Opened, OneOwner, Holding
    <2>5. SlotsCovered'
      <3>1. SlotHolders' = SlotHolders
        BY <1>8 DEF Opened, SlotHolders, InSlot, Holding
      <3>2. Len(idle') <= Len(idle) /\ Len(idle') \in Nat
        BY <1>8 DEF Opened
      <3> QED
        BY <1>8, <1>0, <3>1, <3>2 DEF Opened, SlotsCovered
    <2> QED
      BY <2>1, <2>2, <2>3, <2>4, <2>5
  <1>9. ASSUME NEW p \in Caller, OpenFailed(p) PROVE IInv'
    <2>1. TypeOK'
      BY <1>9 DEF OpenFailed, Holding
    <2>2. SleepersQueued'
      BY <1>9 DEF OpenFailed, SleepersQueued
    <2>3. Holding'
      BY <1>9, ConnAssumption DEF OpenFailed, Holding, OneOwner
    <2>4. SlotsCovered'
      <3>1. p \in SlotHolders /\ SlotHolders' = SlotHolders \ {p}
        BY <1>9 DEF OpenFailed, SlotHolders, InSlot, Holding
      <3>2. Cardinality(SlotHolders') = Cardinality(SlotHolders) - 1
        BY <3>1, HolderGone
      <3>3. Len(idle') = Len(idle)
        BY <1>9 DEF OpenFailed
      <3> QED
        BY <1>9, <1>0, <3>2, <3>3 DEF OpenFailed, SlotsCovered
    <2>5. OneOwner'
      BY <1>9 DEF OpenFailed, OneOwner
    <2> QED
      BY <2>1, <2>2, <2>3, <2>4, <2>5
  <1>10. ASSUME NEW p \in Caller, TransientFailed(p) PROVE IInv'
    <2>1. TypeOK'
      BY <1>10 DEF TransientFailed, Holding
    <2>2. SleepersQueued'
      BY <1>10 DEF TransientFailed, SleepersQueued
    <2>3. Holding'
      BY <1>10, ConnAssumption DEF TransientFailed, Holding, OneOwner
    <2>4. SlotsCovered'
      <3>1. SlotHolders' = SlotHolders
        BY <1>10 DEF TransientFailed, SlotHolders, InSlot, Holding
      <3>2. Len(idle') <= Len(idle) /\ Len(idle') \in Nat
        BY <1>10 DEF TransientFailed
      <3> QED
        BY <1>10, <1>0, <3>1, <3>2 DEF TransientFailed, SlotsCovered
    <2>5. OneOwner'
      BY <1>10 DEF TransientFailed, OneOwner
    <2> QED
      BY <2>1, <2>2, <2>3, <2>4, <2>5
  <1>11. ASSUME NEW p \in Caller, PollWaiter(p) PROVE IInv'
    <2>1. TypeOK'
      <3>1. CASE closed
        BY <1>11, <3>1 DEF PollWaiter
      <3>3. CASE ~closed /\ permit
        BY <1>11, <3>3 DEF PollWaiter
      <3>4. CASE ~closed /\ ~permit
        <4>1. waitq' \in Seq(Caller)
          BY <1>11, <3>4 DEF PollWaiter
        <4>2. permit' = permit
          BY <1>11, <3>4 DEF PollWaiter
        <4>3. pc' \in [Caller -> PCs]
          BY <1>11, <3>4 DEF PollWaiter
        <4> QED
          BY <1>11, <4>1, <4>2, <4>3 DEF PollWaiter
      <3> QED
        BY <3>1, <3>3, <3>4
    <2>2. SleepersQueued'
      <3>1. CASE closed \/ permit
        BY <1>11, <3>1 DEF PollWaiter, SleepersQueued
      <3>2. CASE ~(closed \/ permit)
        <4>1. pc' = [pc EXCEPT ![p] = "asleep"] /\ waitq' = Append(waitq, p) /\ pc[p] = "poll"
          BY <1>11, <3>2 DEF PollWaiter
        <4>2. /\ DOMAIN waitq' = DOMAIN waitq \cup {Len(waitq) + 1}
              /\ waitq'[Len(waitq) + 1] = p
              /\ \A i \in DOMAIN waitq : waitq'[i] = waitq[i] /\ waitq[i] \in Caller /\ waitq[i] # p
          BY <4>1 DEF SleepersQueued
        <4> QED
          BY <4>1, <4>2 DEF SleepersQueued
      <3> QED
        BY <3>1, <3>2
    <2>3. Holding'
      BY SMTT(30), <1>11, ConnAssumption DEF PollWaiter, Holding, OneOwner
    <2>4. SlotsCovered'
      <3>1. SlotHolders' = SlotHolders
        BY <1>11 DEF PollWaiter, SlotHolders, InSlot, Holding, SleepersQueued
      <3>2. Len(idle') <= Len(idle) /\ Len(idle') \in Nat
        BY <1>11 DEF PollWaiter
      <3> QED
        BY <1>11, <1>0, <3>1, <3>2 DEF PollWaiter, SlotsCovered
    <2>5. OneOwner'
      BY <1>11 DEF PollWaiter, OneOwner
    <2> QED
      BY <2>1, <2>2, <2>3, <2>4, <2>5
  <1>12. ASSUME NEW p \in Caller, Resume(p) PROVE IInv'
    <2>1. TypeOK'
      BY <1>12 DEF Resume, Holding
    <2>2. SleepersQueued'
      BY <1>12 DEF Resume, SleepersQueued
    <2>3. Holding'
      BY <1>12, ConnAssumption DEF Resume, Holding, OneOwner
    <2>4. SlotsCovered'
      <3>1. SlotHolders' = SlotHolders
        BY <1>12 DEF Resume, SlotHolders, InSlot, Holding
      <3>2. Len(idle') <= Len(idle) /\ Len(idle') \in Nat
        BY <1>12 DEF Resume
      <3> QED
        BY <1>12, <1>0, <3>1, <3>2 DEF Resume, SlotsCovered
    <2>5. OneOwner'
      BY <1>12 DEF Resume, OneOwner
    <2> QED
      BY <2>1, <2>2, <2>3, <2>4, <2>5
  <1>13. ASSUME NEW p \in Caller, Notify(p) PROVE IInv'
    <2>0. /\ permit' \in BOOLEAN /\ waitq' \in Seq(Caller) /\ pc' \in [Caller -> PCs]
          /\ SleepersQueued'
          /\ \A q \in Caller : q # p => pc'[q] = pc[q] \/ (pc[q] = "asleep" /\ pc'[q] = "woken")
          /\ pc[p] \in {"notifyOut", "notifyTop"} /\ pc'[p] \in {"out", "top"}
      <3>1. PICK l \in {"out", "top"} : notify_one(p, l)
        BY <1>13 DEF Notify
      <3> QED
        BY <1>13, <3>1, NotifyOne DEF Notify
    <2>1. TypeOK'
      BY <1>13, <2>0 DEF Notify
    <2>2. SleepersQueued'
      BY <2>0
    <2>3. Holding'
      BY <1>13, <2>0 DEF Notify, Holding
    <2>4. SlotsCovered'
      <3>1. SlotHolders' = SlotHolders
        BY <1>13, <2>0 DEF Notify, SlotHolders, InSlot
      <3> QED
        BY <1>13, <3>1 DEF Notify, SlotsCovered
    <2>5. OneOwner'
      BY <1>13 DEF Notify, notify_one, OneOwner
    <2> QED
      BY <2>1, <2>2, <2>3, <2>4, <2>5
  <1>14. ASSUME NEW p \in Caller, Send(p) PROVE IInv'
    <2>1. TypeOK'
      BY <1>14 DEF Send, Holding
    <2>2. SleepersQueued'
      BY <1>14 DEF Send, SleepersQueued
    <2>3. Holding'
      BY <1>14, ConnAssumption DEF Send, Holding, OneOwner
    <2>4. SlotsCovered'
      <3>1. SlotHolders' = SlotHolders
        BY <1>14 DEF Send, SlotHolders, InSlot, Holding
      <3>2. Len(idle') <= Len(idle) /\ Len(idle') \in Nat
        BY <1>14 DEF Send
      <3> QED
        BY <1>14, <1>0, <3>1, <3>2 DEF Send, SlotsCovered
    <2>5. OneOwner'
      BY <1>14 DEF Send, OneOwner
    <2> QED
      BY <2>1, <2>2, <2>3, <2>4, <2>5
  <1>15. ASSUME NEW p \in Caller, SendFailed(p) PROVE IInv'
    <2>1. TypeOK'
      BY <1>15 DEF SendFailed, Holding
    <2>2. SleepersQueued'
      BY <1>15 DEF SendFailed, SleepersQueued
    <2>3. Holding'
      BY <1>15, ConnAssumption DEF SendFailed, Holding, OneOwner
    <2>4. SlotsCovered'
      <3>1. SlotHolders' = SlotHolders
        BY <1>15 DEF SendFailed, SlotHolders, InSlot, Holding
      <3>2. Len(idle') <= Len(idle) /\ Len(idle') \in Nat
        BY <1>15 DEF SendFailed
      <3> QED
        BY <1>15, <1>0, <3>1, <3>2 DEF SendFailed, SlotsCovered
    <2>5. OneOwner'
      BY <1>15 DEF SendFailed, OneOwner
    <2> QED
      BY <2>1, <2>2, <2>3, <2>4, <2>5
  <1>16. ASSUME NEW p \in Caller, HeadRead(p) PROVE IInv'
    <2>1. TypeOK'
      BY <1>16 DEF HeadRead, Holding
    <2>2. SleepersQueued'
      BY <1>16 DEF HeadRead, SleepersQueued
    <2>3. Holding'
      BY <1>16, ConnAssumption DEF HeadRead, Holding, OneOwner
    <2>4. SlotsCovered'
      <3>1. SlotHolders' = SlotHolders
        BY <1>16 DEF HeadRead, SlotHolders, InSlot, Holding
      <3>2. Len(idle') <= Len(idle) /\ Len(idle') \in Nat
        BY <1>16 DEF HeadRead
      <3> QED
        BY <1>16, <1>0, <3>1, <3>2 DEF HeadRead, SlotsCovered
    <2>5. OneOwner'
      BY <1>16 DEF HeadRead, OneOwner
    <2> QED
      BY <2>1, <2>2, <2>3, <2>4, <2>5
  <1>17. ASSUME NEW p \in Caller, BodyRead(p) PROVE IInv'
    <2>1. TypeOK'
      BY <1>17 DEF BodyRead, Holding
    <2>2. SleepersQueued'
      BY <1>17 DEF BodyRead, SleepersQueued
    <2>3. Holding'
      BY <1>17, ConnAssumption DEF BodyRead, Holding, OneOwner
    <2>4. SlotsCovered'
      <3>1. SlotHolders' = SlotHolders
        BY <1>17 DEF BodyRead, SlotHolders, InSlot, Holding
      <3>2. Len(idle') <= Len(idle) /\ Len(idle') \in Nat
        BY <1>17 DEF BodyRead
      <3> QED
        BY <1>17, <1>0, <3>1, <3>2 DEF BodyRead, SlotsCovered
    <2>5. OneOwner'
      BY <1>17 DEF BodyRead, OneOwner
    <2> QED
      BY <2>1, <2>2, <2>3, <2>4, <2>5
  <1>18. ASSUME NEW p \in Caller, BodyFailed(p) PROVE IInv'
    <2>1. TypeOK'
      BY <1>18 DEF BodyFailed, Holding
    <2>2. SleepersQueued'
      BY <1>18 DEF BodyFailed, SleepersQueued
    <2>3. Holding'
      BY <1>18, ConnAssumption DEF BodyFailed, Holding, OneOwner
    <2>4. SlotsCovered'
      <3>1. SlotHolders' = SlotHolders
        BY <1>18 DEF BodyFailed, SlotHolders, InSlot, Holding
      <3>2. Len(idle') <= Len(idle) /\ Len(idle') \in Nat
        BY <1>18 DEF BodyFailed
      <3> QED
        BY <1>18, <1>0, <3>1, <3>2 DEF BodyFailed, SlotsCovered
    <2>5. OneOwner'
      BY <1>18 DEF BodyFailed, OneOwner
    <2> QED
      BY <2>1, <2>2, <2>3, <2>4, <2>5
  <1>19. ASSUME NEW p \in Caller, pc[p] \in {"head", "body", "drop"}, Release(p) PROVE IInv'
    <2>0. conn[p] \in Conn
      BY <1>19 DEF Holding
    <2>1. TypeOK'
      <3>1. idle' \in Seq(Conn) /\ sock' \in [Conn -> {"none", "ready", "busy", "settling", "closed"}]
        <4>1. CASE p \in transient \/ p \in poisoned
          BY <1>19, <2>0, <4>1 DEF Release
        <4>2. CASE ~(p \in transient \/ p \in poisoned)
          <5>1. idle' = Append(idle, conn[p]) /\ sock' = sock
            BY <1>19, <4>2 DEF Release
          <5>2. Append(idle, conn[p]) \in Seq(Conn)
            BY <2>0
          <5> QED
            BY <5>1, <5>2
        <4> QED
          BY <4>1, <4>2
      <3>2. pc' \in [Caller -> PCs] /\ live_count' \in Int
        BY <1>19 DEF Release
      <3> QED
        BY <1>19, <3>1, <3>2 DEF Release
    <2>2. SleepersQueued'
      BY <1>19 DEF Release, SleepersQueued
    <2>3. Holding'
      <3>1. /\ pc'[p] \in {"out", "notifyOut"} /\ conn'[p] = NoConn /\ transient' = transient \ {p}
            /\ \A q \in Caller : q # p => pc'[q] = pc[q] /\ conn'[q] = conn[q]
        BY <1>19 DEF Release
      <3>2. \A q \in Caller : q # p /\ conn[q] # NoConn => sock'[conn[q]] = sock[conn[q]]
        BY <1>19, <2>0, ConnAssumption DEF Release, OneOwner
      <3>3. CASE p \in transient \/ p \in poisoned
        <4>1. idle' = idle /\ \A i \in DOMAIN idle : sock'[idle[i]] = sock[idle[i]]
          BY <1>19, <2>0, <3>3 DEF Release, OneOwner
        <4> QED
          BY <3>1, <3>2, <4>1 DEF Holding
      <3>4. CASE ~(p \in transient \/ p \in poisoned)
        <4>1. /\ sock' = sock /\ idle' = Append(idle, conn[p])
          BY <1>19, <3>4 DEF Release
        <4>2. \A i \in DOMAIN idle' : idle'[i] = conn[p] \/ \E j \in DOMAIN idle : idle'[i] = idle[j]
          BY <2>0, <4>1
        <4>3. sock[conn[p]] # "none"
          BY <2>0, ConnAssumption DEF Holding
        <4>4. \A i \in DOMAIN idle' : sock'[idle'[i]] # "none"
          BY <4>1, <4>2, <4>3 DEF Holding
        <4>5. \A q \in Caller : conn'[q] # NoConn => sock'[conn'[q]] # "none"
          BY <3>1, <4>1 DEF Holding
        <4>6. \A q \in Caller : conn'[q] # NoConn <=> pc'[q] \in {"ready"} \cup Using
          BY <3>1 DEF Holding
        <4> QED
          BY <3>1, <4>4, <4>5, <4>6 DEF Holding
      <3> QED
        BY <3>3, <3>4
    <2>4. OneOwner'
      <3>1. conn'[p] = NoConn /\ \A q \in Caller : q # p => conn'[q] = conn[q]
        BY <1>19 DEF Release
      <3>2. CASE idle' = idle
        BY <3>1, <3>2, ConnAssumption DEF OneOwner
      <3>3. CASE idle' = Append(idle, conn[p])
        <4>1. /\ DOMAIN idle' = DOMAIN idle \cup {Len(idle) + 1}
              /\ idle'[Len(idle) + 1] = conn[p]
              /\ \A i \in DOMAIN idle : idle'[i] = idle[i] /\ idle[i] # conn[p] /\ idle[i] \in Conn
          BY <2>0, <3>3 DEF OneOwner
        <4>2. \A i, j \in DOMAIN idle' : idle'[i] = idle'[j] => i = j
          BY <4>1 DEF OneOwner
        <4>3. \A q \in Caller, i \in DOMAIN idle' : conn'[q] # idle'[i]
          BY <2>0, <3>1, <4>1, ConnAssumption DEF OneOwner
        <4> QED
          BY <3>1, <4>2, <4>3 DEF OneOwner
      <3> QED
        BY <1>19, <3>2, <3>3 DEF Release
    <2>5. SlotsCovered'
      <3>1. CASE p \in transient
        <4>1. SlotHolders' = SlotHolders
          BY <1>19, <3>1 DEF Release, SlotHolders, InSlot, Holding
        <4>2. idle' = idle /\ live_count' = live_count
          BY <1>19, <3>1 DEF Release
        <4> QED
          BY <1>0, <4>1, <4>2 DEF SlotsCovered
      <3>2. CASE p \notin transient
        <4>1. p \in SlotHolders /\ SlotHolders' = SlotHolders \ {p}
          BY <1>19, <3>2 DEF Release, SlotHolders, InSlot
        <4>2. Cardinality(SlotHolders') = Cardinality(SlotHolders) - 1
          BY <4>1, HolderGone
        <4>3. conn[p] \in Conn
          BY <1>19 DEF Holding
        <4>4. \/ Len(idle') = Len(idle) /\ live_count' = live_count - 1
              \/ Len(idle') = Len(idle) + 1 /\ live_count' = live_count
          BY <1>19, <3>2, <4>3 DEF Release
        <4> QED
          BY <1>0, <4>2, <4>4 DEF SlotsCovered
      <3> QED
        BY <3>1, <3>2
    <2> QED
      BY <2>1, <2>2, <2>3, <2>4, <2>5
  <1>20. ASSUME NEW p \in Caller, CancelAcquire(p) PROVE IInv'
    <2>1. TypeOK'
      BY <1>20 DEF CancelAcquire, Holding
    <2>2. SleepersQueued'
      BY <1>20 DEF CancelAcquire, SleepersQueued
    <2>3. Holding'
      BY <1>20, ConnAssumption DEF CancelAcquire, Holding, OneOwner
    <2>4. OneOwner'
      BY <1>20, ConnAssumption DEF CancelAcquire, OneOwner, Holding
    <2>5. SlotsCovered'
      <3>1. CASE pc[p] = "openTransient"
        <4>1. SlotHolders' = SlotHolders
          BY <1>20, <3>1 DEF CancelAcquire, SlotHolders, InSlot
        <4> QED
          BY <1>20, <1>0, <4>1 DEF CancelAcquire, SlotsCovered
      <3>2. CASE pc[p] # "openTransient"
        <4>1. p \in SlotHolders /\ SlotHolders' = SlotHolders \ {p}
          BY <1>20, <3>2 DEF CancelAcquire, SlotHolders, InSlot
        <4>2. Cardinality(SlotHolders') = Cardinality(SlotHolders) - 1
          BY <4>1, HolderGone
        <4> QED
          BY <1>20, <1>0, <4>2 DEF CancelAcquire, SlotsCovered
      <3> QED
        BY <3>1, <3>2
    <2> QED
      BY <2>1, <2>2, <2>3, <2>4, <2>5
  <1>21. ASSUME NEW p \in Caller, CancelWait(p) PROVE IInv'
    <2>0. PICK k \in DOMAIN waitq :
             /\ waitq[k] = p
             /\ waitq' = [j \in 1 .. Len(waitq) - 1 |-> IF j < k THEN waitq[j] ELSE waitq[j + 1]]
      BY <1>21 DEF CancelWait
    <2>1. TypeOK'
      <3>1. \A j \in 1 .. Len(waitq) - 1 : (IF j < k THEN waitq[j] ELSE waitq[j + 1]) \in Caller
        OBVIOUS
      <3>2. Len(waitq) - 1 \in Nat
        OBVIOUS
      <3>3. waitq' \in Seq(Caller)
        BY <2>0, <3>1, <3>2
      <3> QED
        BY <1>21, <3>3 DEF CancelWait
    <2>2. SleepersQueued'
      <3> DEFINE at(i) == IF i < k THEN i ELSE i + 1
      <3>1. /\ DOMAIN waitq' = 1 .. Len(waitq) - 1
            /\ \A i \in DOMAIN waitq' : at(i) \in DOMAIN waitq /\ waitq'[i] = waitq[at(i)] /\ at(i) # k
        BY <2>0
      <3>2. \A i, j \in DOMAIN waitq' : at(i) = at(j) => i = j
        BY <3>1
      <3>3. \A m \in DOMAIN waitq : m # k => \E i \in DOMAIN waitq' : at(i) = m
        <4> SUFFICES ASSUME NEW m \in DOMAIN waitq, m # k
                     PROVE  \E i \in DOMAIN waitq' : at(i) = m
          OBVIOUS
        <4>1. CASE m < k
          <5>1. m \in DOMAIN waitq' /\ at(m) = m
            BY <2>0, <4>1
          <5> QED
            BY <5>1
        <4>2. CASE ~(m < k)
          <5>1. m - 1 \in DOMAIN waitq' /\ at(m - 1) = m
            BY <2>0, <4>2
          <5> QED
            BY <5>1
        <4> QED
          BY <4>1, <4>2
      <3> HIDE DEF at
      <3>4. /\ pc'[p] = "out"
            /\ \A q \in Caller : q # p => pc'[q] = pc[q]
        BY <1>21 DEF CancelWait
      <3>5. \A i, j \in DOMAIN waitq' : waitq'[i] = waitq'[j] => i = j
        BY <3>1, <3>2 DEF SleepersQueued
      <3>6. \A i \in DOMAIN waitq' : waitq'[i] \in Caller /\ waitq'[i] # p
        BY <2>0, <3>1 DEF SleepersQueued
      <3>7. \A q \in Caller : pc'[q] = "asleep" <=> \E i \in DOMAIN waitq' : waitq'[i] = q
        <4> SUFFICES ASSUME NEW q \in Caller
                     PROVE  pc'[q] = "asleep" <=> \E i \in DOMAIN waitq' : waitq'[i] = q
          OBVIOUS
        <4>1. CASE q = p
          BY <3>4, <3>6, <4>1
        <4>2. CASE q # p
          <5>1. ASSUME pc[q] = "asleep" PROVE \E i \in DOMAIN waitq' : waitq'[i] = q
            <6>1. PICK m \in DOMAIN waitq : waitq[m] = q
              BY <5>1 DEF SleepersQueued
            <6> QED
              BY ZenonT(30), <2>0, <3>1, <3>3, <4>2, <6>1
          <5>2. ASSUME NEW i \in DOMAIN waitq', waitq'[i] = q PROVE pc[q] = "asleep"
            BY <3>1, <5>2 DEF SleepersQueued
          <5> QED
            BY <3>4, <4>2, <5>1, <5>2
        <4> QED
          BY <4>1, <4>2
      <3> QED
        BY <3>5, <3>7 DEF SleepersQueued
    <2>3. Holding'
      BY <1>21, ConnAssumption DEF CancelWait, Holding, OneOwner
    <2>4. SlotsCovered'
      <3>1. SlotHolders' = SlotHolders
        BY <1>21 DEF CancelWait, SlotHolders, InSlot, Holding
      <3>2. Len(idle') <= Len(idle) /\ Len(idle') \in Nat
        BY <1>21 DEF CancelWait
      <3> QED
        BY <1>21, <1>0, <3>1, <3>2 DEF CancelWait, SlotsCovered
    <2>5. OneOwner'
      BY <1>21 DEF CancelWait, OneOwner
    <2> QED
      BY <2>1, <2>2, <2>3, <2>4, <2>5
  <1>22. ASSUME NEW p \in Caller, CancelWoken(p) PROVE IInv'
    <2>0. /\ permit' \in BOOLEAN /\ waitq' \in Seq(Caller) /\ pc' \in [Caller -> PCs]
          /\ SleepersQueued'
          /\ \A q \in Caller : q # p => pc'[q] = pc[q] \/ (pc[q] = "asleep" /\ pc'[q] = "woken")
          /\ pc[p] = "woken" /\ pc'[p] = "out"
      BY <1>22, NotifyOne DEF CancelWoken
    <2>1. TypeOK'
      BY <1>22, <2>0 DEF CancelWoken
    <2>2. SleepersQueued'
      BY <2>0
    <2>3. Holding'
      BY <1>22, <2>0 DEF CancelWoken, Holding
    <2>4. SlotsCovered'
      <3>1. SlotHolders' = SlotHolders
        BY <1>22, <2>0 DEF CancelWoken, SlotHolders, InSlot
      <3> QED
        BY <1>22, <3>1 DEF CancelWoken, SlotsCovered
    <2>5. OneOwner'
      BY <1>22 DEF CancelWoken, notify_one, OneOwner
    <2> QED
      BY <2>1, <2>2, <2>3, <2>4, <2>5
  <1>23. ASSUME Close PROVE IInv'
    <2>1. TypeOK'
      BY <1>23 DEF Close, Holding, SleepersQueued
    <2>2. SleepersQueued'
      BY <1>23 DEF Close, SleepersQueued
    <2>3. Holding'
      BY <1>23, ConnAssumption DEF Close, Holding, OneOwner, SleepersQueued
    <2>4. OneOwner'
      BY <1>23, ConnAssumption DEF Close, OneOwner, Holding, SleepersQueued
    <2>5. SlotsCovered'
      <3>1. SlotHolders' = SlotHolders
        BY <1>23 DEF Close, SlotHolders, InSlot, Holding, SleepersQueued
      <3>2. Len(idle') <= Len(idle) /\ Len(idle') \in Nat
        BY <1>23 DEF Close
      <3> QED
        BY <1>23, <1>0, <3>1, <3>2 DEF Close, SlotsCovered
    <2> QED
      BY <2>1, <2>2, <2>3, <2>4, <2>5
  <1>24. ASSUME NEW c \in Conn, Settle(c) PROVE IInv'
    <2>1. TypeOK'
      BY <1>24 DEF Settle, Holding
    <2>2. Holding'
      BY <1>24, ConnAssumption DEF Settle, Holding, OneOwner
    <2>3. SleepersQueued' /\ OneOwner' /\ SlotsCovered'
      BY <1>24 DEF Settle, SleepersQueued, OneOwner, SlotsCovered, SlotHolders, InSlot
    <2> QED
      BY <2>1, <2>2, <2>3
  <1>25. ASSUME NEW c \in Conn, Abandoned(c) PROVE IInv'
    <2>1. TypeOK'
      BY <1>25 DEF Abandoned, Holding
    <2>2. Holding'
      BY <1>25, ConnAssumption DEF Abandoned, Holding, OneOwner
    <2>3. SleepersQueued' /\ OneOwner' /\ SlotsCovered'
      BY <1>25 DEF Abandoned, SleepersQueued, OneOwner, SlotsCovered, SlotHolders, InSlot
    <2> QED
      BY <2>1, <2>2, <2>3
  <1>26. ASSUME NEW c \in Conn, PeerCloses(c) PROVE IInv'
    <2>1. TypeOK'
      BY <1>26 DEF PeerCloses, Holding
    <2>2. Holding'
      BY <1>26, ConnAssumption DEF PeerCloses, Holding, OneOwner
    <2>3. SleepersQueued' /\ OneOwner' /\ SlotsCovered'
      BY <1>26 DEF PeerCloses, SleepersQueued, OneOwner, SlotsCovered, SlotHolders, InSlot
    <2> QED
      BY <2>1, <2>2, <2>3
  <1>27. ASSUME UNCHANGED vars PROVE IInv'
    BY <1>27 DEF vars, SleepersQueued, Holding, OneOwner, SlotsCovered, SlotHolders, InSlot
  <1> QED
    BY <1>1, <1>2, <1>3, <1>4, <1>5, <1>6, <1>7, <1>8, <1>9, <1>10, <1>11, <1>12, <1>13, <1>14, <1>15, <1>16, <1>17, <1>18, <1>19, <1>20, <1>21, <1>22, <1>23, <1>24, <1>25, <1>26, <1>27
    DEF Next, Acquire, Request, Cancel, Driver, DropGuard, CancelRequest

LEMMA Initial == Init => IInv
  <1> SUFFICES ASSUME Init PROVE IInv
    OBVIOUS
  <1>1. SlotHolders = {}
    BY DEF Init, SlotHolders, InSlot
  <1>2. SlotsCovered
    BY <1>1, FS_EmptySet, CapAssumption DEF Init, SlotsCovered
  <1>3. TypeOK
    <2>1. idle \in Seq(Conn) /\ waitq \in Seq(Caller)
      BY DEF Init
    <2>2. pc \in [Caller -> PCs] /\ live_count \in Int
      BY DEF Init
    <2> QED
      BY <2>1, <2>2 DEF Init, TypeOK
  <1>4. SleepersQueued /\ OneOwner
    BY DEF Init, SleepersQueued, OneOwner
  <1>5. Holding
    BY DEF Init, Holding
  <1> QED
    BY <1>2, <1>3, <1>4, <1>5 DEF IInv

\* The pool and its callers keep their types and the invariant the other
\* theorems rest on.
THEOREM Invariant == Spec => []IInv
  BY Initial, Inductive, PTL DEF Spec

\* No connection is ever in two hands, nor in a hand and in the idle queue.
THEOREM OneOwnerHolds == Spec => []OneOwner
  <1>1. IInv => OneOwner
    BY DEF IInv
  <1> QED
    BY Invariant, <1>1, PTL

\* live_count covers every tracked connection and stays within the cap, so
\* none of its decrements can underflow.
THEOREM SlotsCoveredHolds == Spec => []SlotsCovered
  <1>1. IInv => SlotsCovered
    BY DEF IInv
  <1> QED
    BY Invariant, <1>1, PTL

\* Only sleepers are queued, each once, and every sleeper is.
THEOREM SleepersQueuedHolds == Spec => []SleepersQueued
  <1>1. IInv => SleepersQueued
    BY DEF IInv
  <1> QED
    BY Invariant, <1>1, PTL

\* What a caller is about to send on stays announced, or closed by the peer: nobody
\* else has the connection, and only its own request makes it busy.
LEMMA ReadyKept == IInv /\ HandedOutReady /\ [Next]_vars => HandedOutReady'
  <1> SUFFICES ASSUME IInv, HandedOutReady, [Next]_vars, NEW q \in Caller, pc'[q] = "send"
               PROVE  sock'[conn'[q]] \in {"ready", "closed"}
    BY DEF HandedOutReady
  <1> USE DEF IInv, TypeOK, Goto, HandedOutReady
  <1>0. /\ pc[q] = "send" => conn[q] \in Conn /\ sock[conn[q]] \in {"ready", "closed"}
        /\ \A p \in Caller : p # q /\ pc[q] = "send" => conn[p] # conn[q]
        /\ pc[q] = "send" => \A i \in DOMAIN idle : idle[i] # conn[q]
    BY DEF Holding, OneOwner
  <1>1. ASSUME NEW p \in Caller, Enter(p) PROVE sock'[conn'[q]] \in {"ready", "closed"}
    BY <1>0, <1>1 DEF Enter, Holding
  <1>2. ASSUME NEW p \in Caller, RejectClosed(p) PROVE sock'[conn'[q]] \in {"ready", "closed"}
    BY <1>0, <1>2 DEF RejectClosed, Holding
  <1>3. ASSUME NEW p \in Caller, TakeIdle(p) PROVE sock'[conn'[q]] \in {"ready", "closed"}
    BY <1>0, <1>3 DEF TakeIdle, Holding
  <1>4. ASSUME NEW p \in Caller, ReserveSlot(p) PROVE sock'[conn'[q]] \in {"ready", "closed"}
    BY <1>0, <1>4 DEF ReserveSlot, Holding
  <1>5. ASSUME NEW p \in Caller, AtCap(p) PROVE sock'[conn'[q]] \in {"ready", "closed"}
    BY <1>0, <1>5 DEF AtCap, Holding
  <1>6. ASSUME NEW p \in Caller, Ready(p) PROVE sock'[conn'[q]] \in {"ready", "closed"}
    BY <1>0, <1>6 DEF Ready, Holding
  <1>7. ASSUME NEW p \in Caller, NotReady(p) PROVE sock'[conn'[q]] \in {"ready", "closed"}
    BY <1>0, <1>7 DEF NotReady, Holding
  <1>8. ASSUME NEW p \in Caller, OpenFailed(p) PROVE sock'[conn'[q]] \in {"ready", "closed"}
    BY <1>0, <1>8 DEF OpenFailed, Holding
  <1>9. ASSUME NEW p \in Caller, TransientFailed(p) PROVE sock'[conn'[q]] \in {"ready", "closed"}
    BY <1>0, <1>9 DEF TransientFailed, Holding
  <1>10. ASSUME NEW p \in Caller, PollWaiter(p) PROVE sock'[conn'[q]] \in {"ready", "closed"}
    BY <1>0, <1>10 DEF PollWaiter, Holding
  <1>11. ASSUME NEW p \in Caller, Resume(p) PROVE sock'[conn'[q]] \in {"ready", "closed"}
    BY <1>0, <1>11 DEF Resume, Holding
  <1>12. ASSUME NEW p \in Caller, Send(p) PROVE sock'[conn'[q]] \in {"ready", "closed"}
    BY <1>0, <1>12 DEF Send, Holding
  <1>13. ASSUME NEW p \in Caller, SendFailed(p) PROVE sock'[conn'[q]] \in {"ready", "closed"}
    BY <1>0, <1>13 DEF SendFailed, Holding
  <1>14. ASSUME NEW p \in Caller, HeadRead(p) PROVE sock'[conn'[q]] \in {"ready", "closed"}
    BY <1>0, <1>14 DEF HeadRead, Holding
  <1>15. ASSUME NEW p \in Caller, BodyRead(p) PROVE sock'[conn'[q]] \in {"ready", "closed"}
    BY <1>0, <1>15 DEF BodyRead, Holding
  <1>16. ASSUME NEW p \in Caller, BodyFailed(p) PROVE sock'[conn'[q]] \in {"ready", "closed"}
    BY <1>0, <1>16 DEF BodyFailed, Holding
  <1>17. ASSUME NEW p \in Caller, CancelAcquire(p) PROVE sock'[conn'[q]] \in {"ready", "closed"}
    BY <1>0, <1>17 DEF CancelAcquire, Holding
  <1>18. ASSUME NEW p \in Caller, CancelWait(p) PROVE sock'[conn'[q]] \in {"ready", "closed"}
    BY <1>0, <1>18 DEF CancelWait, Holding
  <1>19. ASSUME NEW p \in Caller, NEW c \in Conn, Opened(p, c) PROVE sock'[conn'[q]] \in {"ready", "closed"}
    BY <1>0, <1>19, ConnAssumption DEF Opened, Holding
  <1>20. ASSUME NEW p \in Caller, Notify(p) PROVE sock'[conn'[q]] \in {"ready", "closed"}
    <2>1. pc[q] = "send" /\ sock' = sock /\ conn' = conn
      BY <1>20, NotifyOne DEF Notify, guard
    <2> QED
      BY <1>0, <2>1
  <1>21. ASSUME NEW p \in Caller, CancelWoken(p) PROVE sock'[conn'[q]] \in {"ready", "closed"}
    <2>1. pc[q] = "send" /\ sock' = sock /\ conn' = conn
      BY <1>21, NotifyOne DEF CancelWoken, guard
    <2> QED
      BY <1>0, <2>1
  <1>22. ASSUME NEW p \in Caller, pc[p] \in {"head", "body", "drop"}, Release(p) PROVE sock'[conn'[q]] \in {"ready", "closed"}
    BY <1>0, <1>22 DEF Release, Holding
  <1>23. ASSUME Close PROVE sock'[conn'[q]] \in {"ready", "closed"}
    BY <1>0, <1>23 DEF Close
  <1>24. ASSUME NEW c \in Conn, Settle(c) PROVE sock'[conn'[q]] \in {"ready", "closed"}
    BY <1>0, <1>24 DEF Settle
  <1>25. ASSUME NEW c \in Conn, Abandoned(c) PROVE sock'[conn'[q]] \in {"ready", "closed"}
    BY <1>0, <1>25 DEF Abandoned
  <1>26. ASSUME NEW c \in Conn, PeerCloses(c) PROVE sock'[conn'[q]] \in {"ready", "closed"}
    BY <1>0, <1>26 DEF PeerCloses
  <1>27. ASSUME UNCHANGED vars PROVE sock'[conn'[q]] \in {"ready", "closed"}
    BY <1>0, <1>27 DEF vars
  <1> QED
    BY <1>1, <1>2, <1>3, <1>4, <1>5, <1>6, <1>7, <1>8, <1>9, <1>10, <1>11, <1>12, <1>13, <1>14, <1>15, <1>16, <1>17, <1>18, <1>19, <1>20, <1>21, <1>22, <1>23, <1>24, <1>25, <1>26, <1>27
    DEF Next, Acquire, Request, Cancel, Driver, DropGuard, CancelRequest

\* No caller sends on a connection whose write side is not announced, or that still
\* carries the answer to an earlier request.
THEOREM HandedOutReadyHolds == Spec => []HandedOutReady
  <1>1. Init => HandedOutReady
    BY DEF Init, HandedOutReady
  <1> QED
    BY Invariant, ReadyKept, <1>1, PTL DEF Spec
=============================================================================

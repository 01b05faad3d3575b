--------------------------- MODULE CommandProofs ---------------------------
(***************************************************************************)
(* Five commands that talk to the engine, or to the release server, and    *)
(* the machine of each: the self-update (UpdateInstall), `podup exec`      *)
(* (ExecSession), what `up` compares to recreate a container (ConfigHash), *)
(* the commands that follow containers (StreamFollow) and `podup run`      *)
(* (OneOffRun).  Of each its inductive invariant is proved, and its safety *)
(* properties from that.                                                   *)
(***************************************************************************)
EXTENDS UpdateInstall, ExecSession, ConfigHash, StreamFollow, OneOffRun, SequenceTheorems, TLAPS

-----------------------------------------------------------------------------
(* The self-update, for any number of updaters and releases.               *)


\* The invariant holds of the installed binary before any updater ran.
LEMMA InitIInv == Init => IInv
<1> SUFFICES ASSUME Init PROVE IInv OBVIOUS
<1> USE NameAssumption, ReleaseAssumption DEF Init, Inodes, Stages, Ended, Locked
<1>1. TypeOK BY DEF TypeOK
<1>2. LockHeld BY DEF LockHeld
<1>3. Decided BY DEF Decided
<1>4. NotYet BY DEF NotYet
<1>5. Transaction BY DEF Transaction
<1>6. Recoverable
  <2>1. PICK r \in Works : content = [i \in Inodes |-> IF i = Original THEN r ELSE Nothing] OBVIOUS
  <2>2. content[Original] = r BY <2>1
  <2> QED BY <2>2 DEF Recoverable, Runs
<1> QED BY <1>1, <1>2, <1>3, <1>4, <1>5, <1>6 DEF IInv

\* A step only moves its own process, within the known stages.
LEMMA StepTypes ==
  ASSUME TypeOK, NEW p \in Updaters, Step(p)
  PROVE  TypeOK'
<1> USE NameAssumption, ReleaseAssumption DEF TypeOK, Stages, Ended, Locked, Inodes, Goto, Leave, plan, disk
<1>1. CASE Resolve(p) BY <1>1 DEF Resolve
<1>2. CASE Stop(p) BY <1>2 DEF Stop, Refuse, CheckOnly, PackageManaged, DownloadFailed,
                       SignatureRefused, DigestMissing, NotLocated
<1>3. CASE FetchManifest(p) BY <1>3 DEF FetchManifest
<1>4. CASE FetchBinary(p) BY <1>4 DEF FetchBinary
<1>5. CASE Locate(p) BY <1>5 DEF Locate
<1>6. CASE acquire(p) BY <1>6 DEF acquire
<1>7. CASE Precheck(p) BY <1>7 DEF Precheck, installed_version, Runs
<1>8. CASE RemoveStale(p) BY <1>8 DEF RemoveStale
<1>9. CASE MoveAside(p) BY <1>9 DEF MoveAside
<1>10. CASE CreateTemp(p) BY <1>10 DEF CreateTemp
<1>11. CASE WriteTemp(p) BY <1>11 DEF WriteTemp
<1>12. CASE swap_into_place(p) BY <1>12 DEF swap_into_place
<1>13. CASE self_test(p) BY <1>13 DEF self_test
<1>14. CASE restore_from_backup(p) BY <1>14 DEF restore_from_backup
<1>15. CASE RemoveBackup(p) BY <1>15 DEF RemoveBackup
<1>16. CASE Kill(p) BY <1>16 DEF Kill
<1> QED BY <1>1, <1>2, <1>3, <1>4, <1>5, <1>6, <1>7, <1>8, <1>9, <1>10, <1>11, <1>12, <1>13,
           <1>14, <1>15, <1>16 DEF Step

\* The steps before the lock leave the disk and the lock alone.
LEMMA OutsideStep ==
  ASSUME IInv, NEW p \in Updaters,
         Resolve(p) \/ Stop(p) \/ FetchManifest(p) \/ FetchBinary(p) \/ Locate(p)
  PROVE  (LockHeld /\ Decided /\ NotYet /\ Transaction /\ Recoverable)'
<1> USE NameAssumption, ReleaseAssumption
    DEF IInv, TypeOK, Stages, Ended, Locked, Inodes, Goto, plan, disk
<1>1. TypeOK' BY StepTypes DEF Step
<1>2. CASE Resolve(p)
  <2>1. LockHeld' BY <1>1, <1>2 DEF Resolve, LockHeld
  <2>2. Decided' BY <1>1, <1>2 DEF Resolve, Decided
  <2>3. NotYet' BY <1>1, <1>2 DEF Resolve, NotYet
  <2>4. Transaction' BY <1>1, <1>2 DEF Resolve, Transaction, Runs, LockHeld
  <2>5. Recoverable' BY <1>1, <1>2 DEF Resolve, Recoverable, Runs
  <2> QED BY <2>1, <2>2, <2>3, <2>4, <2>5
<1>3. CASE Stop(p)
  BY <1>1, <1>3 DEF Stop, Refuse, CheckOnly, PackageManaged, DownloadFailed,
             SignatureRefused, DigestMissing, NotLocated, LockHeld, Decided, NotYet, Transaction, Recoverable, Runs
<1>4. CASE FetchManifest(p)
  <2>1. target # p /\ backup # p BY <1>4 DEF FetchManifest, NotYet
  <2>2. LockHeld' BY <1>1, <1>4 DEF FetchManifest, LockHeld
  <2>3. Decided' BY <1>1, <1>4, <2>1 DEF FetchManifest, Decided
  <2>4. NotYet' BY <1>1, <1>4 DEF FetchManifest, NotYet
  <2>5. \A q \in Updaters : pc[q] \in Locked \ {"precheck"} => q # p /\ was[q] # p
    BY <1>4, <2>1 DEF FetchManifest, Transaction
  <2>6. Transaction' BY <1>1, <1>4, <2>1, <2>5 DEF FetchManifest, Transaction, Runs
  <2>7. Recoverable' BY <1>1, <1>4, <2>1 DEF FetchManifest, Recoverable, Runs
  <2> QED BY <2>2, <2>3, <2>4, <2>6, <2>7
<1>5. CASE FetchBinary(p)
  BY <1>1, <1>5 DEF FetchBinary, LockHeld, Decided, NotYet, Transaction, Recoverable, Runs
<1>6. CASE Locate(p)
  BY <1>1, <1>6 DEF Locate, LockHeld, Decided, NotYet, Transaction, Recoverable, Runs
<1> QED BY <1>2, <1>3, <1>4, <1>5, <1>6

\* The steps of the transaction: no other updater is in it.
LEMMA InsideStep ==
  ASSUME IInv, NEW p \in Updaters,
         \/ acquire(p) \/ Precheck(p) \/ RemoveStale(p) \/ MoveAside(p) \/ CreateTemp(p)
         \/ WriteTemp(p) \/ swap_into_place(p) \/ self_test(p) \/ restore_from_backup(p)
         \/ RemoveBackup(p) \/ Kill(p)
  PROVE  (LockHeld /\ Decided /\ NotYet /\ Transaction /\ Recoverable)'
<1> USE NameAssumption, ReleaseAssumption
    DEF IInv, TypeOK, Stages, Ended, Locked, Inodes, Goto, Leave, plan, disk
<1>1. TypeOK' BY StepTypes DEF Step
<1>2. \A q \in Updaters \ {p} : pc[p] \in Locked => pc[q] \notin Locked
  BY DEF LockHeld
<1>3. CASE acquire(p)
  BY <1>1, <1>3 DEF acquire, LockHeld, Decided, NotYet, Transaction, Recoverable, Runs
<1>4. CASE Precheck(p)
  <2>1. target # p BY <1>4 DEF Precheck, NotYet
  <2>2. LockHeld' BY <1>1, <1>4 DEF Precheck, LockHeld
  <2>3. Decided' BY <1>1, <1>4 DEF Precheck, Decided
  <2>4. NotYet' BY <1>1, <1>4 DEF Precheck, NotYet
  <2>5. Transaction'
    BY <1>1, <1>2, <1>4, <2>1 DEF Precheck, Transaction, installed_version, ensure_not_older, Runs
  <2>6. Recoverable' BY <1>1, <1>4 DEF Precheck, Recoverable, Runs
  <2> QED BY <2>2, <2>3, <2>4, <2>5, <2>6
<1>5. CASE RemoveStale(p)
  <2>1. LockHeld' BY <1>1, <1>5 DEF RemoveStale, LockHeld
  <2>2. Decided' BY <1>1, <1>5 DEF RemoveStale, Decided
  <2>3. NotYet' BY <1>1, <1>5 DEF RemoveStale, NotYet
  <2>4. Transaction' BY <1>1, <1>2, <1>5 DEF RemoveStale, Transaction, Runs
  <2>5. Recoverable' BY <1>1, <1>5 DEF RemoveStale, Recoverable, Runs
  <2> QED BY <2>1, <2>2, <2>3, <2>4, <2>5
<1>6. CASE MoveAside(p)
  <2>1. target = was[p] /\ backup = Nothing /\ target # p BY <1>6 DEF MoveAside, Transaction
  <2>2. \A q \in Updaters : target = q => pc[q] \in {"updated", "killed", "stuck"}
    BY <1>2, <1>6, <2>1 DEF MoveAside, NotYet
  <2>3. LockHeld' BY <1>1, <1>6 DEF MoveAside, LockHeld
  <2>4. Decided' BY <1>1, <1>6 DEF MoveAside, Decided
  <2>5. NotYet' BY <1>1, <1>6, <2>1, <2>2 DEF MoveAside, NotYet
  <2>8. stale \/ Runs(was[p]) BY <2>1 DEF Recoverable, Runs
  <2>9. \A q \in Updaters \ {p} : pc'[q] = pc[q] /\ pc[q] \notin Locked
    BY <1>2, <1>6 DEF MoveAside
  <2>6. Transaction' BY <1>1, <1>6, <2>1, <2>8, <2>9 DEF MoveAside, Transaction, Runs
  <2>7. Recoverable' BY <1>1, <1>6, <2>1 DEF MoveAside, Recoverable, Runs
  <2> QED BY <2>3, <2>4, <2>5, <2>6, <2>7
<1>7. CASE CreateTemp(p)
  BY <1>1, <1>2, <1>7 DEF CreateTemp, LockHeld, Decided, NotYet, Transaction, Recoverable, Runs
<1>8. CASE WriteTemp(p)
  BY <1>1, <1>2, <1>8 DEF WriteTemp, LockHeld, Decided, NotYet, Transaction, Recoverable, Runs
<1>9. CASE swap_into_place(p)
  <2>1. backup = was[p] /\ target \in {was[p], Nothing} /\ was[p] # p /\ backup # p
    BY <1>9 DEF swap_into_place, Transaction
  <2>2. content[p] \in Releases BY <1>9 DEF swap_into_place, Decided
  <2>3. LockHeld' BY <1>1, <1>9 DEF swap_into_place, LockHeld
  <2>4. Decided' BY <1>1, <1>9, <2>2 DEF swap_into_place, Decided
  <2>5. NotYet' BY <1>1, <1>9, <2>1 DEF swap_into_place, NotYet
  <2>6. Transaction' BY <1>1, <1>2, <1>9, <2>1 DEF swap_into_place, Transaction, Runs
  <2>7. Recoverable' BY <1>1, <1>9, <2>1 DEF swap_into_place, Recoverable, Runs
  <2> QED BY <2>3, <2>4, <2>5, <2>6, <2>7
<1>10. CASE self_test(p)
  BY <1>1, <1>2, <1>10 DEF self_test, PassesTest, LockHeld, Decided, NotYet, Transaction, Recoverable, Runs
<1>11. CASE restore_from_backup(p)
  <2>1. backup = was[p] /\ backup # p BY <1>11 DEF restore_from_backup, Transaction, NotYet
  <2>2. \A q \in Updaters : backup = q => pc[q] \in {"updated", "killed", "stuck"}
    BY DEF NotYet
  <2>3. LockHeld' BY <1>1, <1>11 DEF restore_from_backup, LockHeld
  <2>4. Decided' BY <1>1, <1>11 DEF restore_from_backup, Decided
  <2>5. NotYet' BY <1>1, <1>11, <2>1, <2>2 DEF restore_from_backup, NotYet
  <2>8. \A q \in Updaters : pc'[q] \notin Locked
    <3>1. pc[p] \in Locked BY <1>11 DEF restore_from_backup
    <3>2. pc'[p] \notin Locked BY <1>11 DEF restore_from_backup
    <3>3. \A q \in Updaters \ {p} : pc'[q] = pc[q] BY <1>11 DEF restore_from_backup
    <3> QED BY <1>2, <3>1, <3>2, <3>3
  <2>6. Transaction'
    <3>1. \A q \in Updaters : pc'[q] \notin {"precheck", "aside", "link", "stage", "write", "swap",
                                            "test", "restore", "clean"}
      BY <2>8
    <3> HIDE DEF Locked, Stages, Ended, Inodes, TypeOK, IInv
    <3> QED BY <3>1 DEF Transaction, Locked
  <2>7. Recoverable' BY <1>1, <1>11, <2>1 DEF restore_from_backup, Recoverable, Runs, Transaction
  <2> QED BY <2>3, <2>4, <2>5, <2>6, <2>7
<1>12. CASE RemoveBackup(p)
  <2>1. Runs(target) BY <1>12 DEF RemoveBackup, Transaction
  <2>2. LockHeld' BY <1>1, <1>12 DEF RemoveBackup, LockHeld
  <2>3. Decided' BY <1>1, <1>12 DEF RemoveBackup, Decided
  <2>4. NotYet' BY <1>1, <1>12 DEF RemoveBackup, NotYet
  <2>5. Transaction' BY <1>1, <1>2, <1>12 DEF RemoveBackup, Transaction, Runs
  <2>6. Recoverable' BY <1>1, <1>12, <2>1 DEF RemoveBackup, Recoverable, Runs
  <2> QED BY <2>2, <2>3, <2>4, <2>5, <2>6
<1>13. CASE Kill(p)
  BY <1>1, <1>13 DEF Kill, LockHeld, Decided, NotYet, Transaction, Recoverable, Runs
<1> QED BY <1>3, <1>4, <1>5, <1>6, <1>7, <1>8, <1>9, <1>10, <1>11, <1>12, <1>13

\* The invariant of the self-update is inductive.
LEMMA NextIInv == IInv /\ [Next]_vars => IInv'
<1> SUFFICES ASSUME IInv, [Next]_vars PROVE IInv' OBVIOUS
<1>1. CASE UNCHANGED vars
  BY <1>1 DEF vars, IInv, TypeOK, LockHeld, Decided, NotYet, Transaction, Recoverable, Runs
<1>2. ASSUME NEW p \in Updaters, Step(p) PROVE IInv'
  <2>1. TypeOK' BY <1>2, StepTypes DEF IInv
  <2>2. (LockHeld /\ Decided /\ NotYet /\ Transaction /\ Recoverable)'
    BY <1>2, OutsideStep, InsideStep DEF Step
  <2> QED BY <2>1, <2>2 DEF IInv
<1> QED BY <1>1, <1>2 DEF Next

\* Types, the exclusion by the lock, the shape of the transaction, and that one
\* of the two paths always holds a binary that runs (install/mod.rs).
THEOREM Invariant == Spec => []IInv
<1>1. Init => IInv BY InitIInv
<1>2. IInv /\ [Next]_vars => IInv' BY NextIInv
<1> QED BY <1>1, <1>2, PTL DEF Spec

\* A binary that runs stays on one of the two paths, wherever an updater fails or
\* is killed, but for one case: the backup of a killed updater was the only binary
\* that ran, and the next updater deleted it (install/backup.rs, install/mod.rs).
THEOREM RecoverableHolds == Spec => []Recoverable
<1>1. IInv => Recoverable BY DEF IInv
<1> QED BY <1>1, Invariant, PTL

\* No updater replaces a version by an older one unasked (ensure_not_older).
THEOREM NoDowngradeHolds == Spec => []NoDowngrade
<1>1. IInv => NoDowngrade
  BY NameAssumption DEF IInv, TypeOK, Transaction, NoDowngrade, Locked, Inodes, Runs
<1> QED BY <1>1, Invariant, PTL

\* A failed run leaves none of its files behind (restore_from_backup, install_at).
THEOREM FailureLeavesNothingHolds == Spec => []FailureLeavesNothing
<1>1. IInv => FailureLeavesNothing
  BY DEF IInv, TypeOK, NotYet, FailureLeavesNothing, Stages, Ended, Locked
<1> QED BY <1>1, Invariant, PTL

\* What a finished update installed is the release it resolved (self_test).
THEOREM UpdatedIsResolvedHolds == Spec => []UpdatedIsResolved
<1> USE DEF UpdatedIsResolved
<1>1. Init => UpdatedIsResolved BY DEF Init
<1>2. ASSUME IInv, UpdatedIsResolved, [Next]_vars PROVE UpdatedIsResolved'
  <2>1. CASE UNCHANGED vars BY <1>2, <2>1 DEF vars
  <2>2. ASSUME NEW p \in Updaters, Step(p) PROVE UpdatedIsResolved'
    <3> USE DEF IInv, TypeOK, Stages, Ended, Locked, Goto, Leave, plan
    <3>1. CASE RemoveBackup(p)
      BY <1>2, <2>2, <3>1 DEF RemoveBackup, Transaction, Runs
    <3>2. ASSUME ~RemoveBackup(p) PROVE pc'[p] # "updated"
      <4>1. CASE Resolve(p) BY <1>2, <4>1 DEF Resolve
      <4>2. CASE Stop(p) \/ FetchManifest(p) \/ FetchBinary(p) \/ Locate(p) \/ acquire(p)
        BY <1>2, <4>2 DEF Stop, Refuse, CheckOnly, PackageManaged, DownloadFailed,
             SignatureRefused, DigestMissing, NotLocated, FetchManifest, FetchBinary, Locate, acquire
      <4>3. CASE Precheck(p) \/ RemoveStale(p) \/ MoveAside(p)
        BY <1>2, <4>3 DEF Precheck, RemoveStale, MoveAside
      <4>4. CASE CreateTemp(p) \/ WriteTemp(p) \/ swap_into_place(p) \/ self_test(p)
        BY <1>2, <4>4 DEF CreateTemp, WriteTemp, swap_into_place, self_test
      <4>5. CASE restore_from_backup(p) \/ Kill(p) BY <1>2, <4>5 DEF restore_from_backup, Kill
      <4> QED BY <2>2, <3>2, <4>1, <4>2, <4>3, <4>4, <4>5 DEF Step
    <3>3. \A q \in Updaters \ {p} :
            pc'[q] = pc[q] /\ tag'[q] = tag[q] /\ content'[q] = content[q]
      <4>1. CASE Resolve(p) BY <1>2, <4>1 DEF Resolve
      <4>2. CASE Stop(p) \/ FetchBinary(p) \/ Locate(p) \/ acquire(p)
        BY <1>2, <4>2 DEF Stop, Refuse, CheckOnly, PackageManaged, DownloadFailed,
             SignatureRefused, DigestMissing, NotLocated, FetchBinary, Locate, acquire
      <4>3. CASE FetchManifest(p) BY <1>2, <4>3 DEF FetchManifest
      <4>4. CASE Precheck(p) \/ RemoveStale(p) \/ MoveAside(p)
        BY <1>2, <4>4 DEF Precheck, RemoveStale, MoveAside
      <4>5. CASE CreateTemp(p) \/ WriteTemp(p) \/ swap_into_place(p) \/ self_test(p)
        BY <1>2, <4>5 DEF CreateTemp, WriteTemp, swap_into_place, self_test
      <4>6. CASE restore_from_backup(p) \/ RemoveBackup(p) \/ Kill(p)
        BY <1>2, <4>6 DEF restore_from_backup, RemoveBackup, Kill
      <4> QED BY <2>2, <4>1, <4>2, <4>3, <4>4, <4>5, <4>6 DEF Step
    <3>4. CASE ~RemoveBackup(p) BY <1>2, <3>2, <3>3, <3>4
    <3> QED BY <3>1, <3>4
  <2> QED BY <1>2, <2>1, <2>2 DEF Next
<1>3. IInv /\ UpdatedIsResolved /\ [Next]_vars => UpdatedIsResolved' BY <1>2
<1> QED BY <1>1, <1>3, Invariant, PTL DEF Spec

-----------------------------------------------------------------------------
(* A command on a container, for any output, input and status.             *)


\* Whether the connection still carries output, by the chunks of it.
LEMMA OpenByChunks ==
  ASSUME ExecTypeOK
  PROVE  /\ SessionOpen <=> \A i \in 1 .. Len(outq) : outq[i] \notin {"eof", "reset"}
         /\ {"part", "reset"} \cap ToSet(outq) # {} <=> \E i \in 1 .. Len(outq) : outq[i] \in {"part", "reset"}
<1>1. outq \in Seq(Chunks) BY DEF ExecTypeOK
<1>2. DOMAIN outq = 1 .. Len(outq) BY <1>1
<1>3. \A x : x \in ToSet(outq) <=> \E i \in 1 .. Len(outq) : outq[i] = x
  BY <1>2 DEF ToSet
<1>4. SessionOpen <=> "eof" \notin ToSet(outq) /\ "reset" \notin ToSet(outq) BY DEF SessionOpen
<1>5. {"part", "reset"} \cap ToSet(outq) # {} <=> "part" \in ToSet(outq) \/ "reset" \in ToSet(outq) OBVIOUS
<1> QED BY <1>3, <1>4, <1>5

\* A command is detached, on a terminal, fed by a pipe, or only read from.
LEMMA ModeValues == Mode \in {"detach", "terminal", "piped", "plain"}
BY DEF Mode

\* The mode is a matter of the request alone.
LEMMA ModeKept == xjob' = xjob => Mode' = Mode
BY DEF Mode, Interactive, WantsStdin

\* No command was asked for yet.
LEMMA ExecInitIInv == ExecInit => ExecIInv
<1> SUFFICES ASSUME ExecInit PROVE ExecIInv OBVIOUS
<1> USE ExecAssumption DEF ExecInit, NoCommand
<1>1. ExecTypeOK
  <2>1. << >> \in Seq({"text"}) /\ << >> \in Seq(Chunks) OBVIOUS
  <2> QED BY <2>1 DEF ExecTypeOK
<1>2. StartedOnce BY DEF StartedOnce
<1>3. OutputKept
  <2>1. TextsThenEnd(0) BY DEF TextsThenEnd
  <2> QED BY <2>1 DEF OutputKept
<1>4. EndsExplained BY DEF EndsExplained, SessionOpen, ToSet
<1>5. InputKept BY DEF InputKept
<1>6. StatusDue BY DEF StatusDue
<1>7. RunsOnce /\ ExecReports BY DEF RunsOnce, ExecReports, ExecDone
<1> QED BY <1>1, <1>2, <1>3, <1>4, <1>5, <1>6, <1>7 DEF ExecIInv

\* Up to the start nothing moves on the connection: what the step says of the
\* phase, of the command and of the result is all there is to look at.
LEMMA BeforePump ==
  ASSUME ExecIInv, xphase \in {"target", "create", "start"},
         UNCHANGED <<xjob, hand, inq, ineof, outq, held, printed, severed>>,
         xphase' \in {"target", "create", "start", "pump", "done"},
         lost' \in BOOLEAN, xfault' \in BOOLEAN, given' \in Nat, Mode # "terminal" => given' = 0,
         \/ command' = command /\ ran' = ran
         \/ command' = [command EXCEPT !.state = "running", !.code = xjob.code] /\ ran' = ran + 1,
         xphase' \in {"target", "create", "start"} =>
            command' = command /\ ran' = ran /\ given' = given /\ xresult' = "none",
         xphase' = "pump" => ran' = ran + 1 /\ Mode # "detach" /\ xresult' = "none",
         xphase' = "done" =>
            \/ xresult' \in {"refused", "not_running"} /\ ran' = ran /\ xfault'
            \/ xresult' \in {"no_start", "error"} /\ xfault'
            \/ xresult' = "ok" /\ Mode = "detach" /\ ran' = ran + 1
  PROVE  ExecIInv'
<1> DEFINE Begun == [NoCommand EXCEPT !.state = "running", !.code = xjob.code]
<1>1. Mode' = Mode BY ModeKept
<1>2. /\ ran = 0 /\ command = NoCommand /\ given = 0 /\ hand = "free" /\ inq = <<>> /\ ~ineof
      /\ outq = <<>> /\ ~held /\ printed = <<>> /\ ~severed
  BY DEF StartedOnce, ExecIInv
<1>3. (ran' = 0 /\ command' = NoCommand) \/ (ran' = 1 /\ command' = Begun)
  <2> HIDE DEF Begun
  <2>1. command' = [command EXCEPT !.state = "running", !.code = xjob.code] => command' = Begun
    BY <1>2 DEF Begun
  <2> QED BY <1>2, <2>1
<1>4. ran' = 1 \/ (ran' = 0 /\ command'.state = "none") BY <1>3 DEF NoCommand
<1>5. command'.wrote = <<>> /\ command'.read = 0 /\ command'.state \in {"none", "running"}
  <2>1. CASE command' = NoCommand BY <2>1 DEF NoCommand
  <2>2. CASE command' = Begun BY <2>2 DEF NoCommand
  <2> QED BY <1>3, <2>1, <2>2
<1>6. ran' = 1 => command'.state = "running" /\ command'.code = xjob.code
  <2>1. CASE command' = Begun BY <2>1 DEF NoCommand
  <2> QED BY <1>3, <2>1
<1> HIDE DEF Begun
<1>7. UNCHANGED <<hand, inq, ineof, outq, held, printed, severed>> OBVIOUS
<1>8. ExecTypeOK'
  <2>1. xjob.code \in Nat BY ExecAssumption DEF ExecTypeOK, ExecIInv
  <2>2. command' \in [state : {"none", "running", "exited"}, read : Nat, wrote : Seq({"text"}), code : Nat]
    BY <1>2, <1>3, <2>1 DEF ExecTypeOK, NoCommand, Begun, ExecIInv
  <2>3. xresult' \in {"none", "refused", "not_running", "no_start", "error", "ok"} OBVIOUS
  <2>4. ran' \in Nat BY <1>4
  <2> QED BY <2>2, <2>3, <2>4 DEF ExecTypeOK, ExecIInv
<1>9. StartedOnce'
  <2>1. CASE xphase' \in {"target", "create", "start"} BY <1>2, <2>1 DEF StartedOnce
  <2>2. CASE xphase' = "pump"
    <3>1. ran' = 1 /\ command'.state = "running" BY <1>2, <1>4, <1>6, <2>2
    <3> QED BY <1>1, <2>2, <3>1 DEF StartedOnce
  <2>3. CASE xphase' = "done" BY <2>3 DEF StartedOnce
  <2> QED BY <2>1, <2>2, <2>3
<1>10. OutputKept'
  <2>1. Len(outq') = 0 /\ Len(printed') = 0 /\ Len(command'.wrote) = 0 BY <1>2, <1>5, <1>7
  <2>2. TextsThenEnd(0)' BY <2>1 DEF TextsThenEnd
  <2> QED BY <2>1, <2>2 DEF OutputKept
<1>11. EndsExplained'
  <2>1. ToSet(outq') = {} BY <1>2, <1>7 DEF ToSet
  <2> QED BY <1>2, <1>7, <2>1 DEF EndsExplained, SessionOpen
<1>12. InputKept'
  <2>1. Mode = "piped" => given' = 0 OBVIOUS
  <2>2. Len(inq') = 0 /\ hand' = "free" /\ ~ineof' BY <1>2, <1>7
  <2>3. command'.read = 0 /\ command'.state # "exited" BY <1>5
  <2> QED BY <1>1, <2>1, <2>2, <2>3 DEF InputKept
<1>13. StatusDue' BY DEF StatusDue
<1>14. RunsOnce'
  <2>1. ran' <= 1 BY <1>4
  <2>2. xresult' \in {"refused", "not_running"} => ran' = 0 BY <1>2
  <2> QED BY <2>1, <2>2 DEF RunsOnce
<1>15. ExecReports'
  <2>1. CASE xphase' = "done"
    <3>1. CASE xresult' # "ok" BY <2>1, <3>1 DEF ExecReports, ExecDone
    <3>2. CASE xresult' = "ok"
      <4>1. Mode' = "detach" /\ ran' = 1 BY <1>1, <1>2, <2>1, <3>2
      <4> QED BY <3>2, <4>1 DEF ExecReports
    <3> QED BY <3>1, <3>2
  <2>2. CASE xphase' # "done" BY <2>2 DEF ExecReports, ExecDone
  <2> QED BY <2>1, <2>2
<1> QED BY <1>8, <1>9, <1>10, <1>11, <1>12, <1>13, <1>14, <1>15 DEF ExecIInv

\* Inspect, create, start and their refusals: nothing flows yet.
LEMMA BeforePumpSteps ==
  ASSUME ExecIInv, TargetMissing \/ TargetFound \/ CreateExec \/ StartExec \/ StartFails
  PROVE  ExecIInv'
<1> USE ExecAssumption DEF EndExec, SessionOnly
<1>1. ExecTypeOK /\ StartedOnce BY DEF ExecIInv
<1>2. CASE TargetMissing BY <1>1, <1>2, BeforePump DEF TargetMissing, ExecTypeOK, StartedOnce
<1>3. CASE TargetFound BY <1>1, <1>3, BeforePump DEF TargetFound, ExecTypeOK, StartedOnce
<1>4. CASE CreateExec
  <2>1. PICK answer \in {"made", "lost", "made_lost", "not_running", "error"} :
         /\ xfault' = (xfault \/ answer # "made")
         /\ \/ answer = "made" /\ xphase' = "start" /\ UNCHANGED <<lost, xresult>>
            \/ answer \in {"lost", "made_lost"} /\ ~lost /\ lost' = TRUE /\ UNCHANGED <<xphase, xresult>>
            \/ answer \in {"lost", "made_lost"} /\ lost /\ EndExec("error") /\ UNCHANGED lost
            \/ answer = "not_running" /\ EndExec("not_running") /\ UNCHANGED lost
            \/ answer = "error" /\ EndExec("error") /\ UNCHANGED lost
    BY <1>4 DEF CreateExec
  <2>2. xphase = "create" /\ UNCHANGED <<xjob, ran, command, given, hand, inq, ineof, outq, held, printed, severed>>
    BY <1>4 DEF CreateExec
  <2>3. xfault' \in BOOLEAN /\ lost' \in BOOLEAN BY <1>1, <2>1 DEF ExecTypeOK
  <2>4. given = 0 /\ given \in Nat /\ xresult = "none" BY <1>1, <2>2 DEF StartedOnce
  <2> QED BY <2>1, <2>2, <2>3, <2>4, BeforePump
<1>5. CASE StartExec
  <2>1. xjob.input \in Nat BY <1>1 DEF ExecTypeOK
  <2>2. given' \in Nat /\ (Mode # "terminal" => given' = 0) BY <1>5, <2>1 DEF StartExec
  <2> QED BY <1>1, <1>5, <2>2, BeforePump DEF StartExec, Begin, ExecTypeOK, StartedOnce
<1>6. CASE StartFails
  <2>1. PICK how \in {"refused", "timeout", "lost"}, begun \in BOOLEAN :
          /\ IF begun THEN Begin /\ ran' = ran + 1 ELSE UNCHANGED <<command, ran>>
          /\ EndExec(StartResult(how))
    BY <1>6 DEF StartFails
  <2>2. xresult' \in {"no_start", "error"} BY <2>1 DEF StartResult
  <2>3. (command' = command /\ ran' = ran) \/ (Begin /\ ran' = ran + 1) BY <2>1
  <2>4. given = 0 /\ given \in Nat BY <1>1, <1>6 DEF StartedOnce, StartFails
  <2> QED BY <1>1, <1>6, <2>1, <2>2, <2>3, <2>4, BeforePump DEF StartFails, Begin, ExecTypeOK
<1> QED BY <1>2, <1>3, <1>4, <1>5, <1>6

\* While the session is pumped only four parts of the invariant are at stake.
LEMMA StillPumping ==
  ASSUME ExecIInv, xphase = "pump", xphase' = "pump", xjob' = xjob, ran' = ran, xresult' = xresult,
         command'.state # "none", ExecTypeOK', OutputKept', EndsExplained', InputKept'
  PROVE  ExecIInv'
<1>1. Mode' = Mode BY ModeKept
<1>2. StartedOnce /\ RunsOnce BY DEF ExecIInv
<1>3. StartedOnce' BY <1>1, <1>2 DEF StartedOnce
<1>4. RunsOnce' BY <1>2 DEF RunsOnce
<1>5. StatusDue' /\ ExecReports' BY DEF StatusDue, ExecReports, ExecDone
<1> QED BY <1>3, <1>4, <1>5 DEF ExecIInv

\* The command wrote a text: it is last on a way out that is still open.
LEMMA TextWritten ==
  ASSUME ExecTypeOK, OutputKept, SessionOpen, xjob' = xjob, printed' = printed,
         outq' = Append(outq, "text"), command'.wrote = Append(command.wrote, "text")
  PROVE  OutputKept' /\ SessionOpen' /\ outq' \in Seq(Chunks)
         /\ ({"part", "reset"} \cap ToSet(outq') # {} => {"part", "reset"} \cap ToSet(outq) # {})
<1>1. outq \in Seq(Chunks) /\ command.wrote \in Seq({"text"}) /\ printed \in Seq({"text"}) BY DEF ExecTypeOK
<1>2. outq' \in Seq(Chunks) /\ Len(outq') = Len(outq) + 1 BY <1>1 DEF Chunks
<1>3. \A i \in 1 .. Len(outq') : outq'[i] = IF i = Len(outq) + 1 THEN "text" ELSE outq[i] BY <1>1
<1>4. \A i \in 1 .. Len(outq) : outq[i] \notin {"eof", "reset"} BY OpenByChunks
<1>5. PICK k \in 0 .. Len(outq) : TextsThenEnd(k) BY DEF OutputKept
<1>6. Len(outq) = k
  <2>1. Len(outq) # k + 1
    <3>1. SUFFICES ASSUME Len(outq) = k + 1 PROVE FALSE OBVIOUS
    <3>2. outq[k + 1] \in {"eof", "reset"} BY <1>5, <3>1 DEF TextsThenEnd
    <3> QED BY <1>1, <1>4, <3>1, <3>2
  <2>2. Len(outq) # k + 2
    <3>1. SUFFICES ASSUME Len(outq) = k + 2 PROVE FALSE OBVIOUS
    <3>2. outq[k + 2] = "eof" BY <1>5, <3>1 DEF TextsThenEnd
    <3> QED BY <1>1, <1>4, <3>1, <3>2
  <2> QED BY <1>1, <1>5, <2>1, <2>2 DEF TextsThenEnd
<1>7. Len(command'.wrote) = Len(command.wrote) + 1 BY <1>1
<1>8. TextsThenEnd(k + 1)'
  <2>1. \A i \in 1 .. k + 1 : outq'[i] = "text" BY <1>2, <1>3, <1>5, <1>6 DEF TextsThenEnd
  <2>2. xjob.stdout # "gone" => Len(printed) + (k + 1) = Len(command'.wrote)
    <3>1. Len(printed) \in Nat /\ Len(command.wrote) \in Nat /\ k \in Nat BY <1>1
    <3>2. xjob.stdout # "gone" => Len(printed) + k = Len(command.wrote) BY <1>5 DEF TextsThenEnd
    <3>3. \A a, b, c \in Nat : a + k = b /\ c = b + 1 => a + (k + 1) = c BY <3>1
    <3> QED BY <1>7, <3>1, <3>2, <3>3
  <2> QED BY <1>2, <1>6, <2>1, <2>2 DEF TextsThenEnd
<1>9. OutputKept' BY <1>2, <1>6, <1>8 DEF OutputKept
<1>10. \A x : x \in ToSet(outq') => x = "text" \/ x \in ToSet(outq)
  BY <1>1, <1>2, <1>3 DEF ToSet
<1>11. SessionOpen' BY <1>10 DEF SessionOpen
<1>12. {"part", "reset"} \cap ToSet(outq') # {} => {"part", "reset"} \cap ToSet(outq) # {} BY <1>10
<1> QED BY <1>2, <1>9, <1>11, <1>12

\* A step of the command leaves its queues queues.
LEMMA CommandTyped ==
  ASSUME NEW c \in [state : {"none", "running", "exited"}, read : Nat, wrote : Seq({"text"}), code : Nat],
         NEW r \in Nat, NEW w \in Seq({"text"})
  PROVE  /\ [c EXCEPT !.read = r, !.wrote = w] \in [state : {"none", "running", "exited"}, read : Nat, wrote : Seq({"text"}), code : Nat]
         /\ [c EXCEPT !.wrote = w] \in [state : {"none", "running", "exited"}, read : Nat, wrote : Seq({"text"}), code : Nat]
OBVIOUS

\* The command writes, reads and exits in the container, whatever podup does meanwhile.
LEMMA CommandSteps ==
  ASSUME ExecIInv, CommandAnswers \/ CommandPrints \/ CommandExits \/ CommandKilled
  PROVE  ExecIInv'
<1> USE DEF EndOnly, Pumping, Running
<1>0. ExecTypeOK /\ OutputKept /\ EndsExplained /\ InputKept BY DEF ExecIInv
<1>1. xphase = "pump" /\ command.state = "running" /\ Mode' = Mode
      /\ UNCHANGED <<xjob, xphase, xresult, lost, handles, ran, given, hand, held, printed>>
  BY ModeKept DEF CommandAnswers, CommandPrints, CommandExits, CommandKilled
<1>2. command \in [state : {"none", "running", "exited"}, read : Nat, wrote : Seq({"text"}), code : Nat]
      /\ inq \in Seq({"text"}) /\ given \in Nat
  BY <1>0 DEF ExecTypeOK
<1>3. CASE CommandAnswers
  <2>1. inq # <<>> /\ SessionOpen /\ inq' = Tail(inq) /\ outq' = Append(outq, "text")
        /\ command' = [command EXCEPT !.read = @ + 1, !.wrote = Append(@, "text")]
        /\ UNCHANGED <<ineof, severed, xfault>>
    BY <1>3 DEF CommandAnswers, Room
  <2>2. command'.wrote = Append(command.wrote, "text") /\ command'.read = command.read + 1
        /\ command'.state = command.state BY <1>2, <2>1
  <2>3. OutputKept' /\ SessionOpen' /\ outq' \in Seq(Chunks)
        /\ ({"part", "reset"} \cap ToSet(outq') # {} => {"part", "reset"} \cap ToSet(outq) # {})
    BY <1>0, <1>1, <2>1, <2>2, TextWritten
  <2>4. inq' \in Seq({"text"}) /\ Len(inq') = Len(inq) - 1 /\ Len(inq) \in Nat BY <1>2, <2>1
  <2>5. command' \in [state : {"none", "running", "exited"}, read : Nat, wrote : Seq({"text"}), code : Nat]
    <3>1. command.read + 1 \in Nat /\ Append(command.wrote, "text") \in Seq({"text"}) BY <1>2
    <3> QED BY <1>2, <2>1, <3>1, CommandTyped
  <2>6. ExecTypeOK' BY <1>0, <1>1, <2>1, <2>3, <2>4, <2>5 DEF ExecTypeOK
  <2>7. EndsExplained' BY <1>0, <1>1, <2>1, <2>3 DEF EndsExplained
  <2>8. InputKept' BY <1>0, <1>1, <1>2, <2>1, <2>2, <2>4 DEF InputKept
  <2> QED BY <1>1, <2>2, <2>3, <2>6, <2>7, <2>8, StillPumping
<1>4. CASE CommandPrints
  <2>1. xjob.program = "printer" /\ SessionOpen /\ outq' = Append(outq, "text")
        /\ command' = [command EXCEPT !.wrote = Append(@, "text")]
        /\ UNCHANGED <<inq, ineof, severed, xfault>>
    BY <1>4 DEF CommandPrints, Room
  <2>2. command'.wrote = Append(command.wrote, "text") /\ command'.state = command.state BY <1>2, <2>1
  <2>3. OutputKept' /\ SessionOpen' /\ outq' \in Seq(Chunks)
        /\ ({"part", "reset"} \cap ToSet(outq') # {} => {"part", "reset"} \cap ToSet(outq) # {})
    BY <1>0, <1>1, <2>1, <2>2, TextWritten
  <2>4. command' \in [state : {"none", "running", "exited"}, read : Nat, wrote : Seq({"text"}), code : Nat]
    <3>1. Append(command.wrote, "text") \in Seq({"text"}) BY <1>2
    <3> QED BY <1>2, <2>1, <3>1, CommandTyped
  <2>5. ExecTypeOK' BY <1>0, <1>1, <2>1, <2>3, <2>4 DEF ExecTypeOK
  <2>6. EndsExplained' BY <1>0, <1>1, <2>1, <2>3 DEF EndsExplained
  <2>7. InputKept' BY <1>0, <1>1, <2>1 DEF InputKept
  <2> QED BY <1>1, <2>2, <2>3, <2>5, <2>6, <2>7, StillPumping
<1>5. CASE CommandExits \/ CommandKilled
  <2>1. UNCHANGED <<inq, ineof, outq, severed>> /\ command' \in {[command EXCEPT !.state = "exited"], [command EXCEPT !.state = "exited", !.code = 137]}
        /\ (xfault' = xfault \/ xfault')
    BY <1>5 DEF CommandExits, CommandKilled
  <2>2. command'.wrote = command.wrote /\ command'.read = command.read /\ command'.state = "exited"
    BY <1>2, <2>1
  <2>3. command' \in [state : {"none", "running", "exited"}, read : Nat, wrote : Seq({"text"}), code : Nat]
    <3>1. CASE command' = [command EXCEPT !.state = "exited"] BY <1>2, <3>1
    <3>2. CASE command' = [command EXCEPT !.state = "exited", !.code = 137] BY <1>2, <3>2
    <3> QED BY <2>1, <3>1, <3>2
  <2>4. xfault' \in BOOLEAN /\ (xfault => xfault') BY <1>0, <1>5 DEF CommandExits, CommandKilled, ExecTypeOK
  <2>5. ExecTypeOK' BY <1>0, <1>1, <2>1, <2>3, <2>4 DEF ExecTypeOK
  <2>6. OutputKept' BY <1>0, <1>1, <2>1, <2>2 DEF OutputKept, TextsThenEnd
  <2>7. EndsExplained' BY <1>0, <1>1, <2>1, <2>2, <2>4 DEF EndsExplained, SessionOpen
  <2>8. Mode = "piped" /\ xjob.program = "filter" /\ ~xfault' => inq = <<>> /\ ineof
    BY <1>1, <1>5 DEF CommandExits, CommandKilled, Attached
  <2>9. InputKept' BY <1>0, <1>1, <2>1, <2>2, <2>4, <2>8 DEF InputKept
  <2> QED BY <1>1, <2>2, <2>5, <2>6, <2>7, <2>9, StillPumping
<1> QED BY <1>3, <1>4, <1>5

\* The end of the connection put on the way out, with what comes before it.
LEMMA EndWritten ==
  ASSUME ExecTypeOK, OutputKept, SessionOpen, UNCHANGED <<xjob, printed, command>>,
         NEW e \in {<<"eof">>, <<"reset">>, <<"noise", "eof">>, <<"part", "eof">>}, outq' = outq \o e
  PROVE  /\ OutputKept' /\ ~SessionOpen' /\ outq' \in Seq(Chunks)
         /\ e \in {<<"eof">>, <<"noise", "eof">>} /\ {"part", "reset"} \cap ToSet(outq') # {} =>
               {"part", "reset"} \cap ToSet(outq) # {}
<1>1. outq \in Seq(Chunks) /\ printed \in Seq({"text"}) /\ Len(outq) \in Nat BY DEF ExecTypeOK
<1>2. e \in Seq(Chunks) /\ Len(e) \in {1, 2} /\ e[Len(e)] \in {"eof", "reset"}
      /\ (Len(e) = 2 => e[1] \in {"noise", "part"} /\ e[2] = "eof") /\ (Len(e) = 1 => e[1] \in {"eof", "reset"})
  BY DEF Chunks
<1>3. outq' \in Seq(Chunks) /\ Len(outq') = Len(outq) + Len(e) BY <1>1, <1>2
<1>4. \A i \in 1 .. Len(outq') : outq'[i] = IF i <= Len(outq) THEN outq[i] ELSE e[i - Len(outq)]
  BY <1>1, <1>2, <1>3
<1>5. PICK k \in 0 .. Len(outq) : TextsThenEnd(k) BY DEF OutputKept
<1>6. Len(outq) = k
  <2>1. \A i \in 1 .. Len(outq) : outq[i] \notin {"eof", "reset"} BY OpenByChunks
  <2> QED BY <1>1, <1>5, <2>1 DEF TextsThenEnd
<1>7. TextsThenEnd(k)'
  <2>1. \A i \in 1 .. k : outq'[i] = "text" BY <1>1, <1>3, <1>4, <1>5, <1>6 DEF TextsThenEnd
  <2>2. outq'[k + 1] = e[1] /\ (Len(e) = 2 => outq'[k + 2] = e[2])
    BY <1>1, <1>2, <1>3, <1>4, <1>6
  <2>3. xjob'.stdout # "gone" => Len(printed') + k = Len(command'.wrote) BY <1>5 DEF TextsThenEnd
  <2> QED BY <1>2, <1>3, <1>6, <2>1, <2>2, <2>3 DEF TextsThenEnd
<1>8. OutputKept' BY <1>1, <1>2, <1>3, <1>6, <1>7 DEF OutputKept
<1>9. \A x : x \in ToSet(outq') <=> x \in ToSet(outq) \/ \E i \in 1 .. Len(e) : e[i] = x
  <2>1. \A x : x \in ToSet(outq) <=> \E i \in 1 .. Len(outq) : outq[i] = x BY <1>1 DEF ToSet
  <2>2. \A x : x \in ToSet(outq') <=> \E i \in 1 .. Len(outq') : outq'[i] = x
    <3>1. DOMAIN outq' = 1 .. Len(outq') BY <1>3
    <3> QED BY <3>1, Zenon DEF ToSet
  <2>3. ASSUME NEW i \in 1 .. Len(e) PROVE i + Len(outq) \in 1 .. Len(outq') /\ outq'[i + Len(outq)] = e[i]
    BY <1>1, <1>2, <1>3, <1>4
  <2>4. ASSUME NEW i \in 1 .. Len(outq) PROVE i \in 1 .. Len(outq') /\ outq'[i] = outq[i]
    BY <1>1, <1>2, <1>3, <1>4
  <2>5. ASSUME NEW i \in 1 .. Len(outq')
        PROVE (i \in 1 .. Len(outq) /\ outq'[i] = outq[i])
              \/ (i - Len(outq) \in 1 .. Len(e) /\ outq'[i] = e[i - Len(outq)])
    BY <1>1, <1>2, <1>3, <1>4
  <2> QED BY <2>1, <2>2, <2>3, <2>4, <2>5
<1>10. ~SessionOpen'
  <2>1. e[Len(e)] \in ToSet(outq') BY <1>2, <1>9
  <2> QED BY <1>2, <2>1 DEF SessionOpen
<1>11. e \in {<<"eof">>, <<"noise", "eof">>} => \A i \in 1 .. Len(e) : e[i] \notin {"part", "reset"}
  <2>1. CASE e = <<"eof">> BY <2>1
  <2>2. CASE e = <<"noise", "eof">> BY <2>2
  <2> QED BY <2>1, <2>2
<1>12. e \in {<<"eof">>, <<"noise", "eof">>} /\ {"part", "reset"} \cap ToSet(outq') # {} =>
          {"part", "reset"} \cap ToSet(outq) # {}
  BY <1>9, <1>11
<1> QED BY <1>3, <1>8, <1>10, <1>12

\* The pump is over: the status is asked for only after an orderly end.
LEMMA SessionEnds ==
  ASSUME ExecIInv, SessionCloses \/ SessionSevered
  PROVE  ExecIInv'
<1> USE DEF EndOnly, Pumping
<1>0. ExecTypeOK /\ OutputKept /\ EndsExplained /\ InputKept /\ StartedOnce BY DEF ExecIInv
<1>1. xphase = "pump" /\ SessionOpen /\ Mode' = Mode
      /\ UNCHANGED <<xjob, xphase, xresult, lost, handles, ran, given, hand, held, printed, command, inq, ineof>>
  BY ModeKept DEF SessionCloses, SessionSevered
<1>2. outq \in Seq(Chunks) /\ Append(outq, "eof") = outq \o <<"eof">> /\ Append(outq, "reset") = outq \o <<"reset">>
  <2>1. outq \in Seq(Chunks) /\ "eof" \in Chunks /\ "reset" \in Chunks BY <1>0 DEF ExecTypeOK, Chunks
  <2> QED BY <2>1, AppendIsConcat
<1>3. PICK e \in {<<"eof">>, <<"reset">>, <<"noise", "eof">>, <<"part", "eof">>} :
        /\ outq' = outq \o e
        /\ \/ severed' /\ xfault'
           \/ /\ e \in {<<"eof">>, <<"noise", "eof">>} /\ command.state = "exited"
              /\ UNCHANGED <<severed, xfault>>
  BY <1>2 DEF SessionCloses, SessionSevered
<1>4. OutputKept' /\ ~SessionOpen' /\ outq' \in Seq(Chunks)
      /\ (e \in {<<"eof">>, <<"noise", "eof">>} /\ {"part", "reset"} \cap ToSet(outq') # {} =>
             {"part", "reset"} \cap ToSet(outq) # {})
  BY <1>0, <1>1, <1>3, EndWritten
<1>5. severed' \in BOOLEAN /\ xfault' \in BOOLEAN /\ (xfault => xfault')
  BY <1>0 DEF SessionCloses, SessionSevered, ExecTypeOK
<1>6. ExecTypeOK' BY <1>0, <1>1, <1>4, <1>5 DEF ExecTypeOK
<1>7. EndsExplained' BY <1>0, <1>1, <1>3, <1>4 DEF EndsExplained
<1>8. InputKept' BY <1>0, <1>1, <1>5 DEF InputKept
<1>9. command'.state # "none" BY <1>0, <1>1 DEF StartedOnce
<1> QED BY <1>1, <1>4, <1>6, <1>7, <1>8, <1>9, StillPumping

\* What was typed is on the way in, or was taken; the way out is not touched.
LEMMA InputSteps ==
  ASSUME ExecIInv, TakeInput \/ WriteInput \/ WriteInputFails \/ EndInput
  PROVE  ExecIInv'
<1> USE DEF InputOnly, Pumping, Running
<1>0. ExecTypeOK /\ OutputKept /\ EndsExplained /\ InputKept /\ StartedOnce BY DEF ExecIInv
<1>1. xphase = "pump" /\ Mode' = Mode
      /\ UNCHANGED <<xjob, xresult, lost, handles, ran, command, outq, held, printed, severed>>
  BY ModeKept DEF TakeInput, WriteInput, WriteInputFails, EndInput
<1>2. command \in [state : {"none", "running", "exited"}, read : Nat, wrote : Seq({"text"}), code : Nat]
      /\ inq \in Seq({"text"}) /\ given \in Nat /\ Len(inq) \in Nat /\ hand \in {"free", "full", "closed"}
  BY <1>0 DEF ExecTypeOK
<1>3. OutputKept' BY <1>0, <1>1 DEF OutputKept, TextsThenEnd
<1>4. command.state # "none" /\ ran = 1 /\ Mode # "detach" /\ xresult = "none" BY <1>0, <1>1 DEF StartedOnce
<1>5. CASE TakeInput
  <2>1. hand = "free" /\ given' = given + 1 /\ hand' = "full" /\ UNCHANGED <<xphase, inq, ineof, xfault>>
    BY <1>5 DEF TakeInput
  <2>2. ExecTypeOK' BY <1>0, <1>1, <1>2, <2>1 DEF ExecTypeOK
  <2>3. EndsExplained' BY <1>0, <1>1, <2>1 DEF EndsExplained, SessionOpen
  <2>4. InputKept' BY <1>0, <1>1, <1>2, <2>1 DEF InputKept
  <2> QED BY <1>1, <1>3, <1>4, <2>1, <2>2, <2>3, <2>4, StillPumping
<1>6. CASE WriteInput
  <2>1. hand = "full" /\ command.state = "running" /\ inq' = Append(inq, "text") /\ hand' = "free"
        /\ UNCHANGED <<xphase, given, ineof, xfault>>
    BY <1>6 DEF WriteInput
  <2>2. inq' \in Seq({"text"}) /\ Len(inq') = Len(inq) + 1 BY <1>2, <2>1
  <2>3. ExecTypeOK' BY <1>0, <1>1, <2>1, <2>2 DEF ExecTypeOK
  <2>4. EndsExplained' BY <1>0, <1>1, <2>1 DEF EndsExplained, SessionOpen
  <2>5. InputKept' BY <1>0, <1>1, <1>2, <2>1, <2>2 DEF InputKept
  <2> QED BY <1>1, <1>3, <1>4, <2>1, <2>3, <2>4, <2>5, StillPumping
<1>7. CASE WriteInputFails
  <2>1. hand = "full" /\ hand' = "closed" /\ UNCHANGED <<given, inq, ineof, xfault>>
        /\ xphase' = (IF Mode = "terminal" THEN "status" ELSE xphase)
        /\ ~(command.state = "running" /\ SessionOpen)
    BY <1>7 DEF WriteInputFails
  <2>2. ~ineof BY <1>0, <2>1 DEF InputKept
  <2>3. ~severed => command.state = "exited" BY <1>0, <1>2, <1>4, <2>1 DEF EndsExplained
  <2>4. ExecTypeOK' BY <1>0, <1>1, <1>2, <2>1 DEF ExecTypeOK
  <2>5. EndsExplained' BY <1>0, <1>1, <2>1 DEF EndsExplained, SessionOpen
  <2>6. ~(Mode = "piped" /\ xjob.program = "filter" /\ ~xfault)
    BY <1>0, <2>2, <2>3 DEF InputKept, EndsExplained
  <2>7. InputKept' BY <1>0, <1>1, <2>1, <2>2, <2>6 DEF InputKept
  <2>8. CASE Mode = "terminal"
    <3>1. StartedOnce' BY <1>1, <1>4, <2>1, <2>8 DEF StartedOnce
    <3>2. StatusDue' BY <1>0, <1>1, <2>1, <2>3, <2>8 DEF StatusDue, EndsExplained
    <3>3. RunsOnce' /\ ExecReports' BY <1>1, <1>4, <2>1, <2>8 DEF RunsOnce, ExecReports, ExecDone
    <3> QED BY <1>3, <2>4, <2>5, <2>7, <3>1, <3>2, <3>3 DEF ExecIInv
  <2>9. CASE Mode # "terminal"
    BY <1>1, <1>3, <1>4, <2>1, <2>4, <2>5, <2>7, <2>9, StillPumping
  <2> QED BY <2>8, <2>9
<1>8. CASE EndInput
  <2>1. hand = "free" /\ given = xjob.input /\ hand' = "closed" /\ UNCHANGED <<given, inq>>
        /\ xfault' = (xfault \/ xjob.ends = "error")
        /\ \/ Mode = "terminal" /\ xjob.ends = "error" /\ xphase' = "status" /\ UNCHANGED ineof
           \/ ineof' = TRUE /\ UNCHANGED xphase
    BY <1>8 DEF EndInput
  <2>2. xfault' \in BOOLEAN /\ (xfault => xfault') /\ ineof' \in BOOLEAN BY <1>0, <2>1 DEF ExecTypeOK
  <2>3. ExecTypeOK' BY <1>0, <1>1, <1>2, <2>1, <2>2 DEF ExecTypeOK
  <2>4. EndsExplained' BY <1>0, <1>1, <2>1, <2>2 DEF EndsExplained, SessionOpen
  <2>5. InputKept' BY <1>0, <1>1, <1>2, <2>1, <2>2 DEF InputKept
  <2>6. CASE xphase' = "status"
    <3>1. Mode = "terminal" /\ xjob.ends = "error" /\ xfault' BY <1>1, <2>1, <2>6
    <3>2. StartedOnce' BY <1>1, <1>4, <2>6 DEF StartedOnce
    <3>3. StatusDue' BY <1>1, <3>1 DEF StatusDue
    <3>4. RunsOnce' /\ ExecReports' BY <1>1, <1>4, <2>6 DEF RunsOnce, ExecReports, ExecDone
    <3> QED BY <1>3, <2>3, <2>4, <2>5, <3>2, <3>3, <3>4 DEF ExecIInv
  <2>7. CASE xphase' = "pump"
    BY <1>1, <1>3, <1>4, <2>3, <2>4, <2>5, <2>7, StillPumping
  <2> QED BY <1>1, <2>1, <2>6, <2>7
<1> QED BY <1>5, <1>6, <1>7, <1>8

\* The first chunk on the way out is taken.
LEMMA ChunkTaken ==
  ASSUME ExecTypeOK, OutputKept, EndsExplained, outq # <<>>, Head(outq) \in {"text", "noise", "part"},
         UNCHANGED <<xjob, command, severed, xfault>>,
         outq' \in Seq(Chunks), Len(outq') = Len(outq) - 1, \A i \in 1 .. Len(outq') : outq'[i] = outq[i + 1],
         Head(outq) # "part" => held' = held, printed' \in Seq({"text"}),
         xjob.stdout # "gone" => Len(printed') = Len(printed) + (IF Head(outq) = "text" THEN 1 ELSE 0)
  PROVE  OutputKept' /\ EndsExplained'
<1>1. outq \in Seq(Chunks) /\ Len(outq) \in Nat /\ Len(outq) >= 1 /\ printed \in Seq({"text"})
      /\ Head(outq) = outq[1] /\ Len(printed) \in Nat /\ Len(printed') \in Nat
  BY DEF ExecTypeOK
<1>2. outq' \in Seq(Chunks) /\ Len(outq') = Len(outq) - 1
      /\ \A i \in 1 .. Len(outq') : outq'[i] = outq[i + 1]
  OBVIOUS
<1>4. PICK k \in 0 .. Len(outq) : TextsThenEnd(k) BY DEF OutputKept
<1>5. ASSUME Head(outq) = "text" PROVE OutputKept'
  <2>1. k >= 1
    <3>1. SUFFICES ASSUME k = 0 PROVE FALSE OBVIOUS
    <3>2. outq[1] \in {"eof", "reset", "noise", "part"} BY <1>1, <1>4, <3>1 DEF TextsThenEnd
    <3> QED BY <1>1, <1>5, <3>2
  <2>2. k - 1 \in 0 .. Len(outq') BY <1>1, <1>2, <2>1
  <2>3. ASSUME NEW i \in 1 .. k - 1 PROVE outq'[i] = "text"
    <3>1. i + 1 \in 1 .. k /\ i \in 1 .. Len(outq') BY <1>1, <1>2, <2>1
    <3>2. outq[i + 1] = "text" BY <1>4, <3>1 DEF TextsThenEnd
    <3> QED BY <1>2, <3>1, <3>2
  <2>4. xjob'.stdout # "gone" => Len(printed') + (k - 1) = Len(command'.wrote)
    <3>1. \A a, b, c \in Nat : a + k = b /\ c = a + 1 => c + (k - 1) = b BY <2>1
    <3>2. xjob.stdout # "gone" => Len(printed) + k = Len(command.wrote) BY <1>4 DEF TextsThenEnd
    <3>3. Len(command.wrote) \in Nat BY DEF ExecTypeOK
    <3>4. xjob.stdout # "gone" => Len(printed') = Len(printed) + 1 BY <1>5
    <3>5. xjob' = xjob /\ command' = command OBVIOUS
    <3>6. SUFFICES ASSUME xjob.stdout # "gone" PROVE Len(printed') + (k - 1) = Len(command.wrote) BY <3>5
    <3> QED BY <1>1, <3>1, <3>2, <3>3, <3>4, <3>6
  <2>5. \/ Len(outq') = k - 1
        \/ Len(outq') = (k - 1) + 1 /\ outq'[(k - 1) + 1] \in {"eof", "reset"}
        \/ Len(outq') = (k - 1) + 2 /\ outq'[(k - 1) + 1] \in {"noise", "part"} /\ outq'[(k - 1) + 2] = "eof"
    BY <1>1, <1>2, <1>4, <2>1 DEF TextsThenEnd
  <2>6. TextsThenEnd(k - 1)' BY <2>3, <2>4, <2>5 DEF TextsThenEnd
  <2> QED BY <1>2, <2>2, <2>6 DEF OutputKept
<1>6. ASSUME Head(outq) \in {"noise", "part"} PROVE OutputKept'
  <2>1. k = 0 BY <1>1, <1>4, <1>6 DEF TextsThenEnd
  <2>2. Len(outq) = 2 /\ outq[2] = "eof" BY <1>1, <1>4, <1>6, <2>1 DEF TextsThenEnd
  <2>3. Len(outq') = 1 /\ outq'[1] = "eof" BY <1>2, <2>2
  <2>4. xjob'.stdout # "gone" => Len(printed') + 0 = Len(command'.wrote) BY <1>4, <1>6, <2>1 DEF TextsThenEnd
  <2>5. TextsThenEnd(0)'
    <3>1. \A i \in 1 .. 0 : outq'[i] = "text" OBVIOUS
    <3>2. 0 + 1 = 1 OBVIOUS
    <3>3. Len(outq') = 0 + 1 /\ outq'[0 + 1] \in {"eof", "reset"} BY <2>3, <3>2, Zenon
    <3> QED BY <2>4, <3>1, <3>3 DEF TextsThenEnd
  <2>6. 0 \in 0 .. Len(outq') BY <2>3
  <2> QED BY <2>5, <2>6 DEF OutputKept
<1>7. \A x : x \in ToSet(outq) <=> \E i \in 1 .. Len(outq) : outq[i] = x
  <2>1. DOMAIN outq = 1 .. Len(outq) BY <1>1
  <2> QED BY <2>1, Zenon DEF ToSet
<1>8. \A x : x \in ToSet(outq') <=> \E i \in 1 .. Len(outq') : outq'[i] = x
  <2>1. DOMAIN outq' = 1 .. Len(outq') BY <1>2
  <2> QED BY <2>1, Zenon DEF ToSet
<1>9. \A x : x \in ToSet(outq') => x \in ToSet(outq)
  <2>1. ASSUME NEW i \in 1 .. Len(outq') PROVE i + 1 \in 1 .. Len(outq) /\ outq'[i] = outq[i + 1]
    BY <1>1, <1>2
  <2> QED BY <1>7, <1>8, <2>1
<1>10. \A x : x \in ToSet(outq) => x \in ToSet(outq') \/ x = Head(outq)
  <2>1. ASSUME NEW i \in 1 .. Len(outq) PROVE i = 1 \/ (i - 1 \in 1 .. Len(outq') /\ outq'[i - 1] = outq[i])
    BY <1>1, <1>2
  <2> QED BY <1>1, <1>7, <1>8, <2>1
<1>11. SessionOpen' <=> SessionOpen BY <1>9, <1>10 DEF SessionOpen
<1>12. held' \/ {"part", "reset"} \cap ToSet(outq') # {} => severed
  <2>1. Head(outq) \in ToSet(outq) BY <1>1, <1>7
  <2> QED BY <1>9, <2>1 DEF EndsExplained
<1>13. EndsExplained' BY <1>11, <1>12 DEF EndsExplained
<1> QED BY <1>5, <1>6, <1>13

\* Each chunk that arrives is printed, or ends the session.
LEMMA OutputSteps ==
  ASSUME ExecIInv, ShowOutput \/ ShowOutputFails \/ HoldPart \/ OutputEnds \/ OutputReset
  PROVE  ExecIInv'
<1> USE DEF OutputOnly, Pumping, Listening
<1>0. ExecTypeOK /\ OutputKept /\ EndsExplained /\ InputKept /\ StartedOnce BY DEF ExecIInv
<1>1. xphase = "pump" /\ outq # <<>> /\ Mode' = Mode
      /\ UNCHANGED <<xjob, lost, handles, ran, command, given, hand, inq, ineof, severed, xfault>>
  BY ModeKept DEF ShowOutput, ShowOutputFails, HoldPart, OutputEnds, OutputReset
<1>2. command.state # "none" /\ ran = 1 /\ Mode # "detach" /\ xresult = "none" BY <1>0, <1>1 DEF StartedOnce
<1>3. InputKept' BY <1>0, <1>1 DEF InputKept
<1>4. CASE ShowOutput \/ HoldPart
  <2>1. Head(outq) \in {"text", "noise", "part"} /\ outq' = Tail(outq) /\ UNCHANGED <<xphase, xresult>>
        /\ held' = (IF Head(outq) = "part" THEN TRUE ELSE held)
        /\ printed' = (IF Head(outq) = "text" /\ xjob.stdout # "gone" THEN Append(printed, Head(outq)) ELSE printed)
    BY <1>4 DEF ShowOutput, HoldPart, Hides
  <2>0. outq' \in Seq(Chunks) /\ Len(outq') = Len(outq) - 1 /\ \A i \in 1 .. Len(outq') : outq'[i] = outq[i + 1]
    <3>1. outq \in Seq(Chunks) BY <1>0 DEF ExecTypeOK
    <3> QED BY <1>1, <2>1, <3>1
  <2>4. printed' \in Seq({"text"})
        /\ (xjob.stdout # "gone" => Len(printed') = Len(printed) + (IF Head(outq) = "text" THEN 1 ELSE 0))
    <3>1. printed \in Seq({"text"}) /\ Append(printed, "text") \in Seq({"text"})
          /\ Len(Append(printed, "text")) = Len(printed) + 1 /\ Len(printed) \in Nat
      BY <1>0 DEF ExecTypeOK
    <3> QED BY <2>1, <3>1
  <2>2. OutputKept' /\ EndsExplained'
    BY <1>0, <1>1, <2>0, <2>1, <2>4, ChunkTaken
  <2>3. ExecTypeOK' BY <1>0, <1>1, <2>0, <2>1, <2>4 DEF ExecTypeOK
  <2> QED BY <1>1, <1>2, <1>3, <2>1, <2>2, <2>3, StillPumping
<1>5. CASE ShowOutputFails \/ OutputEnds \/ OutputReset
  <2>1. UNCHANGED <<outq, held, printed>> BY <1>5 DEF ShowOutputFails, OutputEnds, OutputReset
  <2>2. (xphase' = "done" /\ xresult' = "error") \/ (xphase' = "status" /\ xresult' = xresult)
    BY <1>5 DEF ShowOutputFails, OutputEnds, OutputReset, EndExec
  <2>3. ExecTypeOK' BY <1>0, <1>1, <1>2, <2>1, <2>2 DEF ExecTypeOK
  <2>4. OutputKept' BY <1>0, <1>1, <2>1 DEF OutputKept, TextsThenEnd
  <2>5. EndsExplained' BY <1>0, <1>1, <2>1 DEF EndsExplained, SessionOpen
  <2>6. StartedOnce' BY <1>1, <1>2, <2>2 DEF StartedOnce
  <2>7. RunsOnce' BY <1>1, <1>2, <2>2 DEF RunsOnce
  <2>8. outq \in Seq(Chunks) /\ Len(outq) \in Nat /\ Len(outq) >= 1 /\ Head(outq) = outq[1]
        /\ printed \in Seq({"text"}) /\ command.wrote \in Seq({"text"})
    BY <1>0, <1>1 DEF ExecTypeOK
  <2>9. \A x : x \in ToSet(outq) <=> \E i \in 1 .. Len(outq) : outq[i] = x BY <2>8 DEF ToSet
  <2>10. Head(outq) \in ToSet(outq) BY <2>8, <2>9
  <2>11. Head(outq) = "reset" => severed BY <1>0, <2>10 DEF EndsExplained
  <2>12. held => severed BY <1>0 DEF EndsExplained
  <2>13. ExecReports'
    <3>1. xphase' = "done" => xfault \/ xjob.stdout = "gone"
      <4>1. CASE ShowOutputFails BY <4>1 DEF ShowOutputFails, Shows
      <4>2. CASE OutputEnds BY <1>0, <2>12, <4>2 DEF OutputEnds, EndsExplained
      <4>3. CASE OutputReset BY <1>0, <2>11, <4>3 DEF OutputReset, EndsExplained
      <4> QED BY <1>5, <4>1, <4>2, <4>3
    <3> QED BY <1>1, <2>2, <3>1 DEF ExecReports, ExecDone
  <2>14. StatusDue'
    <3>1. CASE xphase' = "done" BY <3>1 DEF StatusDue
    <3>2. CASE xphase' = "status" /\ severed BY <1>0, <1>1, <3>2 DEF StatusDue, EndsExplained
    <3>3. CASE xphase' = "status" /\ ~severed
      <4>1. Head(outq) = "eof" BY <1>5, <2>11, <3>3 DEF ShowOutputFails, OutputEnds, OutputReset, EndExec
      <4>2. command.state = "exited" BY <1>0, <2>10, <3>3, <4>1 DEF EndsExplained, SessionOpen
      <4>3. PICK k \in 0 .. Len(outq) : TextsThenEnd(k) BY <1>0 DEF OutputKept
      <4>4. k = 0
        <5>1. SUFFICES ASSUME k >= 1 PROVE FALSE OBVIOUS
        <5>2. outq[1] = "text" BY <4>3, <5>1 DEF TextsThenEnd
        <5> QED BY <2>8, <4>1, <5>2
      <4>5. xjob.stdout # "gone" => Len(printed) = Len(command.wrote)
        BY <2>8, <4>3, <4>4 DEF TextsThenEnd
      <4>6. Len(printed) = Len(command.wrote) => printed = command.wrote BY <2>8
      <4>7. Seen' BY <1>1, <2>1, <4>5, <4>6 DEF Seen
      <4> QED BY <1>1, <4>2, <4>7 DEF StatusDue
    <3> QED BY <2>2, <3>1, <3>2, <3>3
  <2> QED BY <1>3, <2>3, <2>4, <2>5, <2>6, <2>7, <2>13, <2>14 DEF ExecIInv
<1> QED BY <1>4, <1>5

\* The status that is reported is the one the command ended with.
LEMMA StatusRead == ExecIInv /\ ReadStatus => ExecIInv'
<1> SUFFICES ASSUME ExecIInv, ReadStatus PROVE ExecIInv' OBVIOUS
<1>0. ExecTypeOK /\ OutputKept /\ EndsExplained /\ InputKept /\ StartedOnce /\ StatusDue BY DEF ExecIInv
<1>1. xphase = "status" /\ xphase' = "done" /\ Mode' = Mode
      /\ UNCHANGED <<xjob, lost, handles, ran, command, given, hand, inq, ineof, outq, held, printed, severed>>
  BY ModeKept DEF ReadStatus, SessionOnly, EndExec
<1>2. PICK answered \in BOOLEAN :
        xresult' = (IF answered THEN ExitStatus ELSE "error") /\ xfault' = (xfault \/ ~answered)
  BY DEF ReadStatus, EndExec
<1>3. ran = 1 /\ Mode # "detach" BY <1>0, <1>1 DEF StartedOnce
<1>4. xfault' \in BOOLEAN /\ (xfault => xfault') /\ (~xfault' => answered)
      /\ xresult' \in {"ok", "exit_code", "error"}
  BY <1>0, <1>2 DEF ExecTypeOK, ExitStatus
<1>5. ExecTypeOK' BY <1>0, <1>1, <1>4 DEF ExecTypeOK
<1>6. OutputKept' BY <1>0, <1>1 DEF OutputKept, TextsThenEnd
<1>7. EndsExplained' BY <1>0, <1>1, <1>4 DEF EndsExplained, SessionOpen
<1>8. InputKept' BY <1>0, <1>1, <1>4 DEF InputKept
<1>9. StartedOnce' /\ StatusDue' BY <1>1 DEF StartedOnce, StatusDue
<1>10. RunsOnce' BY <1>1, <1>3, <1>4 DEF RunsOnce
<1>11. ExecReports'
  <2>1. xresult' = "ok" => (command.state = "exited" => command.code = 0)
    BY <1>2 DEF ExitStatus
  <2>2. xresult' = "exit_code" => command.state = "exited" /\ command.code # 0 BY <1>2 DEF ExitStatus
  <2>3. xresult' = "ok" /\ ~severed /\ ~(Mode = "terminal" /\ xjob.ends = "error") =>
           command.state = "exited" /\ command.code = 0 /\ (Seen \/ (Mode = "terminal" /\ hand = "closed"))
    BY <1>0, <1>1, <2>1 DEF StatusDue
  <2>4. ~xfault' => command.state = "exited" /\ xresult' = (IF command.code = 0 THEN "ok" ELSE "exit_code")
    BY <1>0, <1>1, <1>2, <1>4 DEF StatusDue, ExitStatus
  <2>5. ~xfault' /\ xjob.program = "filter" /\ Mode = "piped" => command.read = xjob.input
    <3>1. SUFFICES ASSUME ~xfault', xjob.program = "filter", Mode = "piped" PROVE command.read = xjob.input
      OBVIOUS
    <3>2. ~xfault /\ command.state = "exited" BY <1>4, <2>4, <3>1
    <3>3. inq = <<>> /\ ineof BY <1>0, <3>1, <3>2 DEF InputKept
    <3>4. hand = "closed" /\ given = xjob.input BY <1>0, <3>3 DEF InputKept
    <3>5. command.read + Len(inq) + (IF hand = "full" THEN 1 ELSE 0) = given
      BY <1>0, <3>1, <3>2 DEF InputKept
    <3>6. command.read \in Nat /\ Len(inq) = 0 BY <1>0, <3>3 DEF ExecTypeOK
    <3> QED BY <3>4, <3>5, <3>6
  <2>6. Seen' = Seen BY <1>1 DEF Seen
  <2> QED BY <1>1, <1>3, <2>2, <2>3, <2>4, <2>5, <2>6 DEF ExecReports
<1> QED BY <1>5, <1>6, <1>7, <1>8, <1>9, <1>10, <1>11 DEF ExecIInv

\* The invariant of a command is inductive.
LEMMA ExecNextIInv == ExecIInv /\ [ExecNext]_execVars => ExecIInv'
<1> SUFFICES ASSUME ExecIInv, [ExecNext]_execVars PROVE ExecIInv' OBVIOUS
<1>1. CASE ExecNext
  BY <1>1, BeforePumpSteps, CommandSteps, SessionEnds, InputSteps, OutputSteps, StatusRead DEF ExecNext
<1>2. CASE UNCHANGED execVars
  BY <1>2, ModeKept DEF execVars, ExecIInv, ExecTypeOK, StartedOnce, OutputKept, TextsThenEnd, EndsExplained,
     SessionOpen, InputKept, StatusDue, Seen, RunsOnce, ExecReports, ExecDone
<1> QED BY <1>1, <1>2

(* A command is executed at most once and an exit code is its own, whatever *)
(* the capacity of the connection, the input and the trouble.  Success says *)
(* it ended with zero and its output was seen, but for three sessions whose *)
(* end proves nothing: a connection closed between two frames, a terminal   *)
(* that cannot be read, and one typed into as the command ends (session/exec*)
(* and terminal/pump.rs).                                                   *)
THEOREM ExecIsFaithful == ExecSpec => []ExecFaithful
<1>1. ExecInit => ExecIInv BY ExecInitIInv
<1>2. ExecIInv /\ [ExecNext]_execVars => ExecIInv' BY ExecNextIInv
<1>3. ExecIInv => ExecFaithful BY DEF ExecIInv, ExecFaithful
<1> QED BY <1>1, <1>2, <1>3, PTL DEF ExecSpec

-----------------------------------------------------------------------------
(* Configuration hashes, for any file and any state of the machine.        *)


\* Optional values: a value is not the absence of one.
LEMMA Options ==
  /\ \A x : Some(x) # None /\ Some(x)[1] = x
  /\ \A x, y : Some(x) = Some(y) => x = y
BY DEF Some, None

\* The fields of a compose file.
LEMMA FileFields ==
  ASSUME NEW f \in Files
  PROVE  /\ f.own \in 1 .. 2 /\ f.pod \in BOOLEAN
         /\ f.secret[1] \in {"content", "environment", "file", "external"}
         /\ f.secret[1] = "content" => f.secret[2] \in 1 .. 2
<1>1. f.own \in 1 .. 2 /\ f.pod \in BOOLEAN /\ f.secret \in SecretSources BY DEF Files, Values
<1>2. CASE f.secret \in {<<"content", 1>>, <<"content", 2>>} BY <1>1, <1>2
<1>3. CASE f.secret \in {<<"environment">>, <<"file">>} BY <1>1, <1>3
<1>4. CASE f.secret \in {<<"external", "x">>, <<"external", "y">>} BY <1>1, <1>4
<1> QED BY <1>1, <1>2, <1>3, <1>4 DEF SecretSources

\* The fields of a machine.
LEMMA MachineFields ==
  ASSUME NEW h \in Machines
  PROVE  /\ h.bytes \in 1 .. 2 /\ h.bits \in {292, 256} /\ h.env_file \in 1 .. 2
         /\ h.variable \in 1 .. 2 /\ h.label_file \in 1 .. 2
BY DEF Machines, HostValues

hashed_payload(f, digests, variable, h) ==
    hash_inline_payload(f, variable) \cup hash_file_payload(f, digests, h)

\* The payloads hashed for two secrets are one only when the secrets are of a kind
\* and hold the same.
LEMMA PayloadTells ==
  ASSUME NEW f \in Files, NEW d, NEW v \in 1 .. 2, NEW p, SecretRead(f, d, v, p),
         NEW g \in Files, NEW h \in Machines, NEW m,
         hashed_payload(f, d, v, m) = hashed_payload(g, None, h.variable, h)
  PROVE  /\ f.secret[1] = "file" <=> g.secret[1] = "file"
         /\ f.secret[1] = "external" <=> g.secret[1] = "external"
         /\ f.secret[1] = "file" => d = <<h.bits, h.bytes>>
         /\ p = Payload(g, h, h.variable)
<1> DEFINE F == hashed_payload(f, d, v, m)
           G == hashed_payload(g, None, h.variable, h)
<1>1. F = G OBVIOUS
<1>2. /\ f.secret[1] = "content" => F = {<<"inline", f.secret[2]>>}
      /\ f.secret[1] = "environment" => F = {<<"inline", v>>}
      /\ f.secret[1] = "external" => F = {}
  BY DEF hashed_payload, hash_inline_payload, hash_file_payload
<1>3. ASSUME f.secret[1] = "file" PROVE d # None /\ F = {<<"file", d>>}
  <2>1. PICK b \in HostValues.bits : d = <<b, p>> BY <1>3 DEF SecretRead
  <2>2. d # None BY <2>1 DEF None
  <2> QED BY <1>3, <2>2 DEF hashed_payload, hash_inline_payload, hash_file_payload
<1>4. /\ g.secret[1] = "content" => G = {<<"inline", g.secret[2]>>}
      /\ g.secret[1] = "environment" => G = {<<"inline", h.variable>>}
      /\ g.secret[1] = "external" => G = {}
      /\ g.secret[1] = "file" => G = {<<"file", <<h.bits, h.bytes>>>>}
  BY DEF hashed_payload, hash_inline_payload, hash_file_payload, None
<1>5. /\ f.secret[1] = "content" => p = f.secret[2]
      /\ f.secret[1] = "environment" => p = v
      /\ f.secret[1] = "external" => p = 0
      /\ f.secret[1] = "file" => d = <<d[1], p>>
  BY DEF SecretRead
<1>6. /\ g.secret[1] = "content" => Payload(g, h, h.variable) = g.secret[2]
      /\ g.secret[1] = "environment" => Payload(g, h, h.variable) = h.variable
      /\ g.secret[1] = "external" => Payload(g, h, h.variable) = 0
      /\ g.secret[1] = "file" => Payload(g, h, h.variable) = h.bytes
  BY DEF Payload
<1>7. \A x, y : <<"inline", x>> # <<"file", y>> OBVIOUS
<1>8. \A x, y : <<"inline", x>> = <<"inline", y>> => x = y OBVIOUS
<1>9. \A x, y : <<"file", x>> = <<"file", y>> => x = y OBVIOUS
<1>10. \A x, y : {x} = {y} => x = y OBVIOUS
<1>11. \A x : {x} # {} OBVIOUS
<1>12. f.secret[1] \in {"content", "environment", "file", "external"}
       /\ g.secret[1] \in {"content", "environment", "file", "external"} BY FileFields
<1> HIDE DEF F, G
<1>13. CASE f.secret[1] = "external"
  <2>1. g.secret[1] = "external" BY <1>1, <1>2, <1>4, <1>11, <1>12, <1>13
  <2> QED BY <1>5, <1>6, <1>13, <2>1
<1>14. CASE f.secret[1] = "file"
  <2>1. g.secret[1] = "file"
    BY <1>1, <1>3, <1>4, <1>7, <1>10, <1>11, <1>12, <1>14
  <2>2. d = <<h.bits, h.bytes>> BY <1>1, <1>3, <1>4, <1>9, <1>10, <1>14, <2>1
  <2>3. p = h.bytes BY <1>5, <1>14, <2>2
  <2> QED BY <1>6, <1>14, <2>1, <2>2, <2>3
<1>15. CASE f.secret[1] \in {"content", "environment"}
  <2>1. F = {<<"inline", p>>} BY <1>2, <1>5, <1>15
  <2>2. g.secret[1] \in {"content", "environment"}
    BY <1>1, <1>4, <1>7, <1>10, <1>11, <1>12, <2>1
  <2>3. G = {<<"inline", Payload(g, h, h.variable)>>} BY <1>4, <1>6, <2>2
  <2>4. p = Payload(g, h, h.variable) BY <1>1, <1>8, <1>10, <2>1, <2>3
  <2> QED BY <1>15, <2>2, <2>4
<1> QED BY <1>12, <1>13, <1>14, <1>15

\* The names hashed tell the volumes and the networks.
LEMMA IdentitiesTell ==
  ASSUME NEW f \in Files, NEW g \in Files,
         overridden_resource_identities(f) = overridden_resource_identities(g)
  PROVE  /\ resolve_network_name(f.network) = resolve_network_name(g.network)
         /\ resolve_volume_name(f.volume) = resolve_volume_name(g.volume)
<1> DEFINE N(x) == resolve_network_name(x.network)
           V(x) == resolve_volume_name(x.volume)
           Net == default_network_name("network")
           Vol == default_volume_name("volume")
<1>1. \A x, y : <<"network", x>> # <<"volume", y>> OBVIOUS
<1>2. \A x, y : (<<"network", x>> = <<"network", y>> => x = y) /\ (<<"volume", x>> = <<"volume", y>> => x = y) OBVIOUS
<1>3. \A x : <<"network", x>> \in overridden_resource_identities(f) <=> x = N(f) /\ x # Net
  BY <1>1, <1>2 DEF overridden_resource_identities
<1>4. \A x : <<"network", x>> \in overridden_resource_identities(g) <=> x = N(g) /\ x # Net
  BY <1>1, <1>2 DEF overridden_resource_identities
<1>5. \A x : <<"volume", x>> \in overridden_resource_identities(f) <=> x = V(f) /\ x # Vol
  BY <1>1, <1>2 DEF overridden_resource_identities
<1>6. \A x : <<"volume", x>> \in overridden_resource_identities(g) <=> x = V(g) /\ x # Vol
  BY <1>1, <1>2 DEF overridden_resource_identities
<1> HIDE DEF N, V, Net, Vol
<1>7. N(f) = N(g)
  <2>1. \A x : x = N(f) /\ x # Net <=> x = N(g) /\ x # Net BY <1>3, <1>4
  <2>2. CASE N(f) # Net
    <3>1. N(f) = N(f) /\ N(f) # Net <=> N(f) = N(g) /\ N(f) # Net BY <2>1
    <3> QED BY <2>2, <3>1
  <2>3. CASE N(f) = Net
    <3>1. N(g) = N(f) /\ N(g) # Net <=> N(g) = N(g) /\ N(g) # Net BY <2>1
    <3> QED BY <2>3, <3>1
  <2> QED BY <2>2, <2>3
<1>8. V(f) = V(g)
  <2>1. \A x : x = V(f) /\ x # Vol <=> x = V(g) /\ x # Vol BY <1>5, <1>6
  <2>2. CASE V(f) # Vol
    <3>1. V(f) = V(f) /\ V(f) # Vol <=> V(f) = V(g) /\ V(f) # Vol BY <2>1
    <3> QED BY <2>2, <3>1
  <2>3. CASE V(f) = Vol
    <3>1. V(g) = V(f) /\ V(g) # Vol <=> V(g) = V(g) /\ V(g) # Vol BY <2>1
    <3> QED BY <2>3, <3>1
  <2> QED BY <2>2, <2>3
<1> QED BY <1>7, <1>8 DEF N, V

\* What the process read decides the hash: the files as they are now do not matter.
LEMMA HashOfRead ==
  ASSUME NEW f \in Files, NEW d, NEW v, NEW p, SecretRead(f, d, v, p), NEW e, NEW h, NEW m
  PROVE  config_hash(f, d, e, h, v) = config_hash(f, d, e, m, v)
<1>1. hash_file_payload(f, d, h) = hash_file_payload(f, d, m)
  <2>1. CASE f.secret[1] = "file"
    <3>1. d # None BY <2>1 DEF SecretRead, None
    <3> QED BY <2>1, <3>1 DEF hash_file_payload
  <2>2. CASE f.secret[1] # "file" BY <2>2 DEF hash_file_payload
  <2> QED BY <2>1, <2>2
<1> QED BY <1>1 DEF config_hash

\* A container made of what was read is told from any other by its hash.
LEMMA RequestHonest ==
  ASSUME NEW f \in Files, NEW d, NEW v \in 1 .. 2, NEW p, SecretRead(f, d, v, p), NEW e, NEW m, NEW c,
         c.made.own = f.own, c.made.pod = f.pod,
         c.made.networks = (IF f.pod THEN None ELSE resolve_network_name(f.network)),
         c.made.volume = resolve_volume_name(f.volume), c.made.env = e,
         c.made.secret.mode = (IF f.secret[1] = "file" /\ f.mode = None THEN Some(d[1]) ELSE push_plan_mode(f)),
         c.made.secret.bytes = (IF f.secret[1] = "external" THEN 0 ELSE p),
         c.hash = config_hash(f, d, e, m, v),
         NEW g \in Files, NEW h \in Machines
  PROVE  Honest(c, g, h)
<1> DEFINE made == c.made
           env == effective_env(h, h.variable)
           asked == build_spec_generator(g, env, h.bits, Payload(g, h, h.variable), h.label_file)
<1>1. SUFFICES ASSUME c.hash = config_hash(g, None, env, h, h.variable)
               PROVE  Described(made) = Described(asked) /\ (made.pod = asked.pod => made.networks = asked.networks)
  BY DEF Honest
<1> HIDE DEF env
<1>2. config_hash(f, d, e, m, v) = config_hash(g, None, env, h, h.variable) BY <1>1
<1>3. /\ <<f.own, f.mode>> = <<g.own, g.mode>>
      /\ overridden_resource_identities(f) = overridden_resource_identities(g)
      /\ hashed_payload(f, d, v, m) = hashed_payload(g, None, h.variable, h)
      /\ e = env
  BY <1>2 DEF config_hash, hashed_payload
<1>4. f.own = g.own /\ f.mode = g.mode BY <1>3
<1>5. /\ resolve_network_name(f.network) = resolve_network_name(g.network)
      /\ resolve_volume_name(f.volume) = resolve_volume_name(g.volume)
  BY <1>3, IdentitiesTell
<1>6. /\ f.secret[1] = "file" <=> g.secret[1] = "file"
      /\ f.secret[1] = "external" <=> g.secret[1] = "external"
      /\ f.secret[1] = "file" => d = <<h.bits, h.bytes>>
      /\ p = Payload(g, h, h.variable)
  BY <1>3, PayloadTells
<1>7. /\ asked.own = g.own /\ asked.pod = g.pod /\ asked.volume = resolve_volume_name(g.volume) /\ asked.env = env
      /\ asked.networks = (IF g.pod THEN None ELSE resolve_network_name(g.network))
      /\ asked.secret = build_native_secrets(g, h.bits, Payload(g, h, h.variable))
  BY DEF build_spec_generator
<1>8. /\ asked.secret.mode = (IF g.secret[1] = "file" /\ g.mode = None THEN Some(h.bits) ELSE push_plan_mode(g))
      /\ asked.secret.bytes = (IF g.secret[1] = "external" THEN 0 ELSE Payload(g, h, h.variable))
  BY <1>7 DEF build_native_secrets
<1> HIDE DEF asked, made
<1>9. push_plan_mode(f) = push_plan_mode(g) BY <1>4, <1>6 DEF push_plan_mode
<1>10. f.secret[1] = "file" => d[1] = h.bits BY <1>6
<1>11. made.secret.mode = asked.secret.mode BY <1>4, <1>6, <1>8, <1>9, <1>10 DEF made
<1>12. made.secret.bytes = asked.secret.bytes BY <1>6, <1>8 DEF made
<1>13. Described(made) = Described(asked) BY <1>3, <1>4, <1>5, <1>7, <1>11, <1>12 DEF Described, made
<1>14. made.pod = asked.pod => made.networks = asked.networks BY <1>5, <1>7 DEF made
<1> QED BY <1>13, <1>14

-----------------------------------------------------------------------------
\* What holds of a file the user may write.
LEMMA FileEdited ==
  ASSUME NEW f \in Files, NEW key \in DOMAIN Values, NEW value \in Values[key]
  PROVE  [f EXCEPT ![key] = value] \in Files
<1>1. key \in {"own", "mode", "network", "volume", "secret", "sibling", "pod"} BY DEF Values
<1>2. CASE key = "own" BY <1>2 DEF Files
<1>3. CASE key = "mode" BY <1>3 DEF Files
<1>4. CASE key = "network" BY <1>4 DEF Files
<1>5. CASE key = "volume" BY <1>5 DEF Files
<1>6. CASE key = "secret" BY <1>6 DEF Files
<1>7. CASE key = "sibling" BY <1>7 DEF Files
<1>8. CASE key = "pod" BY <1>8 DEF Files
<1> QED BY <1>1, <1>2, <1>3, <1>4, <1>5, <1>6, <1>7, <1>8

\* What holds of a machine the user may edit.
LEMMA MachineEdited ==
  ASSUME NEW h \in Machines, NEW key \in DOMAIN HostValues, NEW value \in HostValues[key]
  PROVE  [h EXCEPT ![key] = value] \in Machines
<1>1. key \in {"bytes", "bits", "env_file", "variable", "label_file"} BY DEF HostValues
<1>2. CASE key = "bytes" BY <1>2 DEF Machines
<1>3. CASE key = "bits" BY <1>3 DEF Machines
<1>4. CASE key = "env_file" BY <1>4 DEF Machines
<1>5. CASE key = "variable" BY <1>5 DEF Machines
<1>6. CASE key = "label_file" BY <1>6 DEF Machines
<1> QED BY <1>1, <1>2, <1>3, <1>4, <1>5, <1>6

\* With nothing edited, what the process hashes is what anyone would hash now.
LEMMA ExpectedWhileCalm ==
  ASSUME HashTypeOK, ReadOnce, calm, apply.step \notin {"idle", "secrets"}
  PROVE  config_hash(apply.file, apply.digests, effective_env(machine, apply.variable), machine, apply.variable)
            = expected_config_hash
<1>1. apply.file = compose /\ apply.variable = machine.variable BY DEF ReadOnce
<1>2. hash_file_payload(compose, apply.digests, machine) = hash_file_payload(compose, None, machine)
  <2>1. CASE compose.secret[1] = "file"
    <3>1. apply.digests = <<machine.bits, machine.bytes>> BY <1>1, <2>1 DEF ReadOnce
    <3> QED BY <2>1, <3>1 DEF hash_file_payload
  <2>2. CASE compose.secret[1] # "file" BY <2>2 DEF hash_file_payload
  <2> QED BY <2>1, <2>2
<1> QED BY <1>1, <1>2 DEF config_hash, expected_config_hash

\* Nothing is up before the first `up`.
LEMMA HashInitIInv == HashInit => HashIInv
<1> SUFFICES ASSUME HashInit PROVE HashIInv OBVIOUS
<1>1. PICK m \in Values.mode, s \in SecretSources, p \in BOOLEAN : compose = UneditedFile(m, s, p)
  BY DEF HashInit, Values
<1>2. compose \in Files BY <1>1 DEF Files, Values, UneditedFile, ObjectConfigs
<1>3. machine \in Machines BY DEF HashInit, HashStart, Machines, HostValues
<1>4. HashTypeOK BY <1>2, <1>3 DEF HashInit, HashStart, HashTypeOK, NotUp
<1>5. apply.step = "idle" /\ replica = None /\ calm = FALSE /\ wasted = FALSE
  BY DEF HashInit, HashStart, NotUp
<1> QED BY <1>4, <1>5 DEF HashIInv, ReadOnce, Requested, AlwaysHonest, Current, PodReady, ExistingSeen,
                          UpSettles, KeptWhenUnchanged

\* A step of the user's leaves the process what it was and only takes the calm away.
LEMMA UserSteps ==
  ASSUME HashIInv, EditFile \/ EditHost
  PROVE  HashIInv'
<1> USE DEF HashIInv
<1>1. /\ apply' = apply /\ podSecret' = podSecret /\ replica' = replica /\ projectPod' = projectPod
      /\ wasted' = wasted /\ calm' = FALSE /\ since' = TRUE
  BY DEF EditFile, EditHost, Touched, unchangedPodman
<1>2. compose' \in Files /\ machine' \in Machines
  <2>1. CASE EditFile
    <3>1. PICK key \in Editable \cap DOMAIN Values :
             \E value \in Values[key] \ {compose[key]} : compose' = [compose EXCEPT ![key] = value]
      BY <2>1 DEF EditFile
    <3>2. PICK value \in Values[key] : compose' = [compose EXCEPT ![key] = value] BY <3>1
    <3> QED BY <2>1, <3>2, FileEdited DEF EditFile, HashTypeOK
  <2>2. CASE EditHost
    <3>1. PICK key \in Editable \cap DOMAIN HostValues :
             \E value \in HostValues[key] \ {machine[key]} : machine' = [machine EXCEPT ![key] = value]
      BY <2>2 DEF EditHost
    <3>2. PICK value \in HostValues[key] : machine' = [machine EXCEPT ![key] = value] BY <3>1
    <3> QED BY <2>2, <3>2, MachineEdited DEF EditHost, HashTypeOK
  <2> QED BY <2>1, <2>2
<1>3. HashTypeOK' BY <1>1, <1>2 DEF HashTypeOK
<1>4. ReadOnce' BY <1>1 DEF ReadOnce
<1>5. Requested'
  <2>1. SUFFICES ASSUME apply.step = "post" PROVE Requested' BY <1>1 DEF Requested
  <2>2. config_hash(apply.file, apply.digests, apply.env, machine', apply.variable)
           = config_hash(apply.file, apply.digests, apply.env, machine, apply.variable)
    BY <2>1, HashOfRead DEF ReadOnce, HashTypeOK
  <2> QED BY <1>1, <2>1, <2>2 DEF Requested
<1>6. AlwaysHonest' BY <1>1 DEF AlwaysHonest, Honest
<1>7. Current' BY <1>1 DEF Current
<1>8. PodReady' /\ ExistingSeen' BY <1>1 DEF PodReady, ExistingSeen, PodCurrent
<1>9. UpSettles' /\ KeptWhenUnchanged' BY <1>1 DEF UpSettles, KeptWhenUnchanged
<1> QED BY <1>3, <1>4, <1>5, <1>6, <1>7, <1>8, <1>9

\* What a step of the process leaves alone, when the file and the host stay.
LEMMA SameHost ==
  ASSUME UNCHANGED <<compose, machine>>
  PROVE  /\ expected_config_hash' = expected_config_hash
         /\ \A x : pod_config_hash(x)' = pod_config_hash(x)
BY DEF expected_config_hash, config_hash, effective_env, overridden_resource_identities,
       hash_inline_payload, hash_file_payload, pod_config_hash

\* The process reads the file and the machine as they are now.
LEMMA UpBegins ==
  ASSUME HashIInv, begin_up
  PROVE  HashIInv'
<1> USE DEF HashIInv
<1>1. /\ compose' = compose /\ machine' = machine /\ podSecret' = podSecret /\ replica' = replica
      /\ projectPod' = projectPod /\ wasted' = wasted /\ since' = since /\ calm' = TRUE
      /\ apply' = [NotUp EXCEPT !.step = "secrets", !.file = compose, !.variable = machine.variable,
                          !.existing = IF replica = None THEN None ELSE Some(replica[1].hash)]
  BY DEF begin_up, unchangedPodman, unchangedUser
<1>2. /\ DOMAIN apply' = DOMAIN NotUp /\ apply'.step = "secrets" /\ apply'.file = compose
      /\ apply'.variable = machine.variable
      /\ apply'.existing = IF replica = None THEN None ELSE Some(replica[1].hash)
  BY <1>1 DEF NotUp
<1>3. HashTypeOK' BY <1>1, <1>2 DEF HashTypeOK, Machines, NotUp
<1>4. ReadOnce' BY <1>1, <1>2 DEF ReadOnce
<1>5. Requested' BY <1>2 DEF Requested
<1>6. AlwaysHonest' BY <1>1 DEF AlwaysHonest, Honest
<1>7. Current' BY <1>1, <1>2, SameHost DEF Current, PodCurrent
<1>8. PodReady' BY <1>2 DEF PodReady
<1>9. ExistingSeen' BY <1>1, <1>2 DEF ExistingSeen
<1>10. UpSettles' /\ KeptWhenUnchanged' BY <1>1, <1>2 DEF UpSettles, KeptWhenUnchanged
<1> QED BY <1>3, <1>4, <1>5, <1>6, <1>7, <1>8, <1>9, <1>10

\* The process reads the sources of the secrets, and never again.
LEMMA SecretsAreRead ==
  ASSUME HashIInv, create_project_secrets
  PROVE  HashIInv'
<1> USE DEF HashIInv
<1> DEFINE digests == IF apply.file.secret[1] = "file" THEN <<machine.bits, machine.bytes>> ELSE None
           payload == Payload(apply.file, machine, apply.variable)
<1>1. /\ compose' = compose /\ machine' = machine /\ podSecret' = podSecret /\ replica' = replica
      /\ projectPod' = projectPod /\ wasted' = wasted /\ since' = since /\ calm' = calm
      /\ apply.step = "secrets"
      /\ apply' = [apply EXCEPT !.step = "upload", !.digests = digests, !.payload = payload]
  BY DEF create_project_secrets, unchangedPodman, unchangedUser
<1>2. /\ DOMAIN apply' = DOMAIN NotUp /\ apply'.step = "upload" /\ apply'.file = apply.file
      /\ apply'.variable = apply.variable /\ apply'.existing = apply.existing
      /\ apply'.digests = digests /\ apply'.payload = payload
  BY <1>1 DEF HashTypeOK, NotUp
<1>3. apply.file \in Files /\ machine \in Machines BY <1>1 DEF HashTypeOK
<1>4. SecretRead(apply.file, digests, apply.variable, payload)
  <2>1. apply.file.secret[1] \in {"content", "environment", "file", "external"} BY <1>3, FileFields
  <2>2. machine.bits \in HostValues.bits BY <1>3 DEF Machines
  <2> QED BY <2>1, <2>2 DEF SecretRead, Payload
<1> HIDE DEF digests, payload
<1>5. HashTypeOK' BY <1>1, <1>2, <1>3 DEF HashTypeOK
<1>7. ReadOnce'
  <2>1. SecretRead(apply'.file, apply'.digests, apply'.variable, apply'.payload) BY <1>2, <1>4
  <2>2. apply'.file.secret[1] = "file" => apply'.digests = <<machine'.bits, machine'.bytes>>
    BY <1>1, <1>2 DEF digests
  <2>3. calm => apply'.file = compose /\ apply'.variable = machine.variable BY <1>1, <1>2 DEF ReadOnce
  <2> QED BY <1>1, <1>2, <2>1, <2>2, <2>3 DEF ReadOnce
<1>8. Requested' /\ PodReady' BY <1>2 DEF Requested, PodReady
<1>9. AlwaysHonest' BY <1>1 DEF AlwaysHonest, Honest
<1>10. Current' BY <1>1, <1>2, SameHost DEF Current, PodCurrent
<1>11. ExistingSeen' BY <1>1, <1>2 DEF ExistingSeen
<1>12. UpSettles' /\ KeptWhenUnchanged' BY <1>1, <1>2 DEF UpSettles, KeptWhenUnchanged
<1> QED BY <1>5, <1>7, <1>8, <1>9, <1>10, <1>11, <1>12

\* A step that changes nothing of the process but where it is.
Moves(step) ==
    /\ compose' = compose /\ machine' = machine /\ calm' = calm
    /\ DOMAIN apply' = DOMAIN NotUp /\ apply'.step = step /\ apply'.file = apply.file
    /\ apply'.variable = apply.variable /\ apply'.digests = apply.digests /\ apply'.payload = apply.payload

\* A step that only moves on keeps what was read.
LEMMA MovesKeep ==
  ASSUME HashIInv, NEW step \in {"pod", "service", "create", "post", "done"}, Moves(step),
         apply.step \notin {"idle", "secrets"},
         \/ (apply.step # "upload" /\ podSecret' = podSecret)
         \/ apply.file.secret[1] # "external" => podSecret' = Some(apply.payload),
         step \in {"create", "post"} => apply'.env = effective_env(machine, apply.variable)
                                          \/ (apply.step = "create" /\ apply'.env = apply.env),
         since' \in BOOLEAN, wasted' \in BOOLEAN
  PROVE  HashTypeOK' /\ ReadOnce'
<1> USE DEF HashIInv, Moves
<1>1. HashTypeOK' BY DEF HashTypeOK
<1>2. SecretRead(apply'.file, apply'.digests, apply'.variable, apply'.payload) BY DEF ReadOnce
<1>3. apply.file.secret[1] # "external" => podSecret' = Some(apply.payload) BY DEF ReadOnce
<1>4. calm => (apply.file.secret[1] = "file" => apply.digests = <<machine.bits, machine.bytes>>)
              /\ apply.file = compose /\ apply.variable = machine.variable BY DEF ReadOnce
<1>5. calm /\ step \in {"create", "post"} => apply'.env = effective_env(machine, apply.variable)
  BY DEF ReadOnce
<1>6. effective_env(machine, apply.variable)' = effective_env(machine, apply.variable) BY DEF effective_env
<1>7. ReadOnce' BY <1>2, <1>3, <1>4, <1>5, <1>6 DEF ReadOnce
<1> QED BY <1>1, <1>7

\* The secret gets the bytes that were read.
LEMMA SecretIsCreated ==
  ASSUME HashIInv, create_secret
  PROVE  HashIInv'
<1> USE DEF HashIInv
<1>1. /\ replica' = replica /\ projectPod' = projectPod /\ wasted' = wasted /\ since' = since
      /\ apply.step = "upload" /\ Moves("pod") /\ apply'.existing = apply.existing
      /\ compose' = compose /\ machine' = machine /\ calm' = calm
      /\ apply.file.secret[1] # "external" => podSecret' = Some(apply.payload)
  BY DEF create_secret, unchangedUser, Moves, HashTypeOK, NotUp
<1>2. HashTypeOK' /\ ReadOnce' BY <1>1, MovesKeep DEF HashTypeOK
<1>3. apply'.step = "pod" BY <1>1 DEF Moves
<1>4. Requested' /\ PodReady' /\ UpSettles' /\ KeptWhenUnchanged'
  BY <1>1, <1>3 DEF Requested, PodReady, UpSettles, KeptWhenUnchanged
<1>5. AlwaysHonest' BY <1>1 DEF AlwaysHonest, Honest
<1>6. Current' BY <1>1, <1>3, SameHost DEF Current, PodCurrent
<1>7. ExistingSeen' BY <1>1, <1>3 DEF ExistingSeen
<1> QED BY <1>2, <1>4, <1>5, <1>6, <1>7

\* A pod that is kept is current, and a new one is made of the file read.
LEMMA PodSteps ==
  ASSUME HashIInv, keep_pod \/ create_pod_now
  PROVE  HashIInv'
<1> USE DEF HashIInv
<1>1. /\ replica' = replica /\ wasted' = wasted /\ since' = since /\ podSecret' = podSecret
      /\ apply.step = "pod" /\ Moves("service") /\ apply'.existing = apply.existing
      /\ compose' = compose /\ machine' = machine /\ calm' = calm
  BY DEF keep_pod, create_pod_now, unchangedUser, unchangedPodman, Moves, HashTypeOK, NotUp
<1>2. HashTypeOK' /\ ReadOnce' BY <1>1, MovesKeep DEF HashTypeOK
<1>3. apply'.step = "service" /\ apply'.file = apply.file BY <1>1 DEF Moves
<1>4. Requested' /\ UpSettles' /\ KeptWhenUnchanged'
  BY <1>1, <1>3 DEF Requested, UpSettles, KeptWhenUnchanged
<1>5. apply.file.pod => projectPod' # None /\ projectPod'[1].hash = pod_config_hash(apply.file)
  BY Options DEF keep_pod, create_pod_now, PodStale, build_pod_spec_with_hash, unchangedPodman
<1>6. PodReady' BY <1>3, <1>5, SameHost DEF PodReady, PodCurrent, pod_config_hash
<1>7. AlwaysHonest' BY <1>1 DEF AlwaysHonest, Honest
<1>8. Current'
  <2>1. SUFFICES ASSUME replica # None, ~since PROVE Current' BY <1>1 DEF Current
  <2>2. /\ calm /\ replica[1].hash = expected_config_hash /\ replica[1].made.pod = compose.pod
        /\ apply.existing = Some(replica[1].hash)
    BY <1>1, <2>1 DEF Current
  <2>3. apply.file = compose BY <1>1, <2>2 DEF ReadOnce
  <2>4. compose'.pod => PodCurrent(compose)' BY <1>1, <1>5, <2>3 DEF PodCurrent, pod_config_hash
  <2> QED BY <1>1, <1>3, <2>2, <2>4, SameHost DEF Current
<1>9. ExistingSeen' BY <1>1, <1>3 DEF ExistingSeen
<1> QED BY <1>2, <1>4, <1>6, <1>7, <1>8, <1>9

\* A stale pod is one the file was edited under.
LEMMA StalePodIsDeleted ==
  ASSUME HashIInv, delete_stale_pod
  PROVE  HashIInv'
<1> USE DEF HashIInv
<1>1. /\ since' = since /\ podSecret' = podSecret /\ apply.step = "pod" /\ Moves("pod")
      /\ apply'.existing = None /\ compose' = compose /\ machine' = machine /\ calm' = calm
      /\ replica' = IF replica # None /\ replica[1].made.pod THEN None ELSE replica
  BY DEF delete_stale_pod, unchangedUser, Moves, HashTypeOK, NotUp
<1>2. replica # None => since
  <2>1. SUFFICES ASSUME replica # None, ~since PROVE FALSE BY DEF HashTypeOK
  <2>2. calm /\ (compose.pod => PodCurrent(compose)) BY <2>1 DEF Current
  <2>3. apply.file = compose BY <1>1, <2>2 DEF ReadOnce
  <2> QED BY <2>2, <2>3 DEF delete_stale_pod, PodStale, PodCurrent
<1>3. wasted' = FALSE BY <1>2 DEF delete_stale_pod, Replaces, KeptWhenUnchanged, HashTypeOK
<1>4. HashTypeOK' /\ ReadOnce' BY <1>1, <1>3, MovesKeep DEF HashTypeOK
<1>5. apply'.step = "pod" BY <1>1 DEF Moves
<1>6. Requested' /\ PodReady' /\ UpSettles' /\ KeptWhenUnchanged' /\ ExistingSeen'
  BY <1>1, <1>3, <1>5 DEF Requested, PodReady, UpSettles, KeptWhenUnchanged, ExistingSeen
<1>7. AlwaysHonest' BY <1>1 DEF AlwaysHonest, Honest
<1>8. Current' BY <1>1, <1>2 DEF Current
<1> QED BY <1>4, <1>6, <1>7, <1>8

\* A container nothing was edited under is kept, and a kept one is current.
LEMMA ServiceIsUp ==
  ASSUME HashIInv, up_one_service
  PROVE  HashIInv'
<1> USE DEF HashIInv
<1> DEFINE env == effective_env(machine, apply.variable)
           new_hash == config_hash(apply.file, apply.digests, env, machine, apply.variable)
           step == IF apply.existing = Some(new_hash) THEN "done" ELSE "create"
<1>1. /\ replica' = replica /\ projectPod' = projectPod /\ wasted' = wasted /\ since' = since
      /\ podSecret' = podSecret /\ apply.step = "service" /\ Moves(step) /\ apply'.env = env
      /\ compose' = compose /\ machine' = machine /\ calm' = calm
  BY DEF up_one_service, unchangedUser, unchangedPodman, Moves, HashTypeOK, NotUp
<1>2. step \in {"done", "create"} OBVIOUS
<1>3. calm => new_hash = expected_config_hash BY <1>1, ExpectedWhileCalm
<1>4. step = "done" <=> apply.existing = Some(new_hash) OBVIOUS
<1> HIDE DEF new_hash, step
<1>5. HashTypeOK' /\ ReadOnce'
  <2>1. PICK s \in {"pod", "service", "create", "post", "done"} : s = step BY <1>2
  <2>2. apply.step \notin {"idle", "secrets", "upload"} BY <1>1
  <2>3. since' \in BOOLEAN /\ wasted' \in BOOLEAN BY <1>1 DEF HashTypeOK
  <2> QED BY <1>1, <2>1, <2>2, <2>3, MovesKeep
<1>6. apply'.step = step /\ apply'.file = apply.file BY <1>1 DEF Moves
<1>7. Requested' /\ ExistingSeen' BY <1>2, <1>6 DEF Requested, ExistingSeen
<1>8. PodReady' BY <1>1, <1>2, <1>6 DEF PodReady, PodCurrent, pod_config_hash
<1>9. AlwaysHonest' BY <1>1 DEF AlwaysHonest, Honest
<1>10. Current'
  <2>1. SUFFICES ASSUME replica # None, ~since PROVE Current' BY <1>1 DEF Current
  <2>2. /\ calm /\ replica[1].hash = expected_config_hash /\ replica[1].made.pod = compose.pod
        /\ compose.pod => PodCurrent(compose)
        /\ apply.existing = Some(replica[1].hash)
    BY <1>1, <2>1 DEF Current
  <2>3. step = "done" BY <1>3, <1>4, <2>2
  <2>4. compose'.pod => PodCurrent(compose)' BY <1>1, <2>2 DEF PodCurrent, pod_config_hash
  <2> QED BY <1>1, <1>6, <2>2, <2>3, <2>4, SameHost DEF Current
<1>11. UpSettles'
  <2>1. SUFFICES ASSUME step = "done", calm PROVE UpSettles' BY <1>1, <1>6 DEF UpSettles
  <2>2. apply.existing = Some(expected_config_hash) BY <1>3, <1>4, <2>1
  <2>3. replica # None /\ replica[1].hash = expected_config_hash
    BY <1>1, <2>2, Options DEF ExistingSeen
  <2> QED BY <1>1, <2>3, SameHost DEF UpSettles
<1>12. KeptWhenUnchanged' BY <1>1 DEF KeptWhenUnchanged
<1> QED BY <1>5, <1>7, <1>8, <1>9, <1>10, <1>11, <1>12

\* Nothing is deleted that was current, and what is asked for is what was read.
LEMMA ContainerIsRequested ==
  ASSUME HashIInv, create_container
  PROVE  HashIInv'
<1> USE DEF HashIInv
<1>1. /\ replica' = None /\ projectPod' = projectPod /\ since' = since /\ podSecret' = podSecret
      /\ apply.step = "create" /\ Moves("post") /\ apply'.env = apply.env
      /\ apply'.request = Some(Request(apply.env))
      /\ compose' = compose /\ machine' = machine /\ calm' = calm
  BY DEF create_container, unchangedUser, Moves, HashTypeOK, NotUp
<1>2. replica # None => since BY <1>1 DEF Current, HashTypeOK
<1>3. wasted' = FALSE BY <1>2 DEF create_container, Replaces, KeptWhenUnchanged, HashTypeOK
<1>4. HashTypeOK' /\ ReadOnce' BY <1>1, <1>3, MovesKeep DEF HashTypeOK
<1>5. apply'.step = "post" /\ apply'.file = apply.file /\ apply'.digests = apply.digests
      /\ apply'.variable = apply.variable
  BY <1>1 DEF Moves
<1>6. Requested'
  <2>1. machine.label_file \in HostValues.label_file BY DEF HashTypeOK, Machines
  <2>2. config_hash(apply.file, apply.digests, apply.env, machine, apply.variable)
           = config_hash(apply'.file, apply'.digests, apply'.env, machine', apply'.variable)
    BY <1>1, <1>5
  <2>3. build_spec_generator(apply.file, apply.env, IF apply.digests = None THEN 0 ELSE apply.digests[1],
                             0, machine.label_file)
           = build_spec_generator(apply'.file, apply'.env,
                                  IF apply'.digests = None THEN 0 ELSE apply'.digests[1],
                                  0, machine.label_file)
    BY <1>1, <1>5
  <2> QED BY <1>1, <2>1, <2>2, <2>3 DEF Requested, Request
<1>7. PodReady' BY <1>1, <1>5 DEF PodReady, PodCurrent, pod_config_hash
<1>8. AlwaysHonest' /\ Current' BY <1>1 DEF AlwaysHonest, Current
<1>9. ExistingSeen' /\ UpSettles' /\ KeptWhenUnchanged'
  BY <1>3, <1>5 DEF ExistingSeen, UpSettles, KeptWhenUnchanged
<1> QED BY <1>4, <1>6, <1>7, <1>8, <1>9

\* The container has what was read, whatever was edited since.
LEMMA ContainerIsCreated ==
  ASSUME HashIInv, post_create
  PROVE  HashIInv'
<1> USE DEF HashIInv
<1> DEFINE new_hash == config_hash(apply.file, apply.digests, apply.env, machine, apply.variable)
           bits == IF apply.digests = None THEN 0 ELSE apply.digests[1]
           held_bytes == IF podSecret = None \/ apply.file.secret[1] = "external" THEN 0 ELSE podSecret[1]
           c == replica'[1]
<1>1. /\ projectPod' = projectPod /\ podSecret' = podSecret /\ wasted' = wasted /\ since' = ~calm
      /\ apply.step = "post" /\ Moves("done")
      /\ compose' = compose /\ machine' = machine /\ calm' = calm
      /\ replica' = Some([apply.request[1] EXCEPT !.made.secret.bytes = held_bytes])
  BY DEF post_create, unchangedUser, Moves, HashTypeOK, NotUp
<1>2. PICK labels \in HostValues.label_file :
         apply.request = Some([hash |-> new_hash,
                               made |-> build_spec_generator(apply.file, apply.env, bits, 0, labels)])
  BY <1>1 DEF Requested
<1> DEFINE asked == build_spec_generator(apply.file, apply.env, bits, 0, labels)
<1>3. c = [[hash |-> new_hash, made |-> asked] EXCEPT !.made.secret.bytes = held_bytes]
  BY <1>1, <1>2, Options
<1>4. c = [hash |-> new_hash, made |-> [asked EXCEPT !.secret.bytes = held_bytes]] BY <1>3
<1>5. /\ c.hash = new_hash /\ c.made.own = apply.file.own /\ c.made.pod = apply.file.pod
      /\ c.made.networks = (IF apply.file.pod THEN None ELSE resolve_network_name(apply.file.network))
      /\ c.made.volume = resolve_volume_name(apply.file.volume) /\ c.made.env = apply.env
      /\ c.made.secret = [asked.secret EXCEPT !.bytes = held_bytes]
      /\ asked.secret = build_native_secrets(apply.file, bits, 0)
  BY <1>4 DEF build_spec_generator
<1>6. /\ c.made.secret.bytes = held_bytes
      /\ c.made.secret.mode = (IF apply.file.secret[1] = "file" /\ apply.file.mode = None
                               THEN Some(bits) ELSE push_plan_mode(apply.file))
  BY <1>5 DEF build_native_secrets
<1> HIDE DEF new_hash, bits, held_bytes, c, asked
<1>7. /\ apply.file \in Files /\ apply.variable \in 1 .. 2
      /\ SecretRead(apply.file, apply.digests, apply.variable, apply.payload)
  BY <1>1 DEF HashTypeOK, ReadOnce, HostValues
<1>8. apply.file.secret[1] = "file" => bits = apply.digests[1]
  BY <1>7 DEF SecretRead, bits, None
<1>9. held_bytes = (IF apply.file.secret[1] = "external" THEN 0 ELSE apply.payload)
  BY <1>1, Options DEF ReadOnce, held_bytes
<1>10. AlwaysHonest'
  <2>1. SUFFICES ASSUME NEW g \in Files, NEW h \in Machines PROVE Honest(c, g, h)
    BY DEF AlwaysHonest, Honest, c
  <2>2. c.made.secret.mode = (IF apply.file.secret[1] = "file" /\ apply.file.mode = None
                              THEN Some(apply.digests[1]) ELSE push_plan_mode(apply.file))
    BY <1>6, <1>8
  <2>3. c.made.secret.bytes = (IF apply.file.secret[1] = "external" THEN 0 ELSE apply.payload)
    BY <1>6, <1>9
  <2>4. c.hash = config_hash(apply.file, apply.digests, apply.env, machine, apply.variable) BY <1>5 DEF new_hash
  <2>5. PICK f, d, v, p, e, m, k : /\ f = apply.file /\ d = apply.digests /\ v = apply.variable
                                   /\ p = apply.payload /\ e = apply.env /\ m = machine /\ k = c
    OBVIOUS
  <2>6. f \in Files /\ v \in 1 .. 2 /\ SecretRead(f, d, v, p) BY <1>7, <2>5
  <2>7. /\ k.made.own = f.own /\ k.made.pod = f.pod
        /\ k.made.networks = (IF f.pod THEN None ELSE resolve_network_name(f.network))
        /\ k.made.volume = resolve_volume_name(f.volume) /\ k.made.env = e
        /\ k.made.secret.mode = (IF f.secret[1] = "file" /\ f.mode = None THEN Some(d[1]) ELSE push_plan_mode(f))
        /\ k.made.secret.bytes = (IF f.secret[1] = "external" THEN 0 ELSE p)
        /\ k.hash = config_hash(f, d, e, m, v)
    BY <1>5, <2>2, <2>3, <2>4, <2>5
  <2>8. Honest(k, g, h) BY <2>6, <2>7, RequestHonest
  <2> QED BY <2>5, <2>8
<1>11. apply'.step = "done" /\ apply'.file = apply.file BY <1>1 DEF Moves
<1>12. HashTypeOK' /\ ReadOnce' BY <1>1, MovesKeep DEF HashTypeOK
<1>13. replica' # None BY <1>1, Options
<1>14. calm => c.hash = expected_config_hash /\ c.made.pod = compose.pod
  BY <1>1, <1>5, ExpectedWhileCalm DEF new_hash, ReadOnce
<1>15. calm /\ compose.pod => PodCurrent(compose)'
  BY <1>1 DEF PodReady, PodCurrent, ReadOnce, pod_config_hash
<1>16. Current' BY <1>1, <1>11, <1>14, <1>15, SameHost DEF Current, c, HashTypeOK
<1>17. UpSettles' BY <1>1, <1>13, <1>14, SameHost DEF UpSettles, c
<1>18. Requested' /\ PodReady' /\ ExistingSeen' /\ KeptWhenUnchanged'
  BY <1>1, <1>11 DEF Requested, PodReady, ExistingSeen, KeptWhenUnchanged
<1> QED BY <1>10, <1>12, <1>16, <1>17, <1>18

\* A killed `up` leaves what it made as it was.
LEMMA UpIsKilled ==
  ASSUME HashIInv, KillUp
  PROVE  HashIInv'
<1> USE DEF HashIInv
<1>1. /\ replica' = replica /\ projectPod' = projectPod /\ wasted' = wasted /\ since' = since
      /\ compose' = compose /\ machine' = machine /\ calm' = calm /\ apply' = NotUp
  BY DEF KillUp, unchangedUser
<1>2. apply'.step = "idle" BY <1>1 DEF NotUp
<1>3. HashTypeOK' BY <1>1, <1>2 DEF HashTypeOK
<1>4. ReadOnce' /\ Requested' /\ PodReady' /\ ExistingSeen' /\ UpSettles'
  BY <1>2 DEF ReadOnce, Requested, PodReady, ExistingSeen, UpSettles
<1>5. AlwaysHonest' /\ KeptWhenUnchanged' BY <1>1 DEF AlwaysHonest, Honest, KeptWhenUnchanged
<1>6. Current' BY <1>1, <1>2, SameHost DEF Current, PodCurrent
<1> QED BY <1>3, <1>4, <1>5, <1>6

\* The invariant of the hashes is inductive.
LEMMA HashNextIInv == HashIInv /\ [HashNext]_hashVars => HashIInv'
<1> SUFFICES ASSUME HashIInv, [HashNext]_hashVars PROVE HashIInv' OBVIOUS
<1>1. CASE EditFile \/ EditHost BY <1>1, UserSteps
<1>2. CASE begin_up BY <1>2, UpBegins
<1>3. CASE create_project_secrets BY <1>3, SecretsAreRead
<1>4. CASE create_secret BY <1>4, SecretIsCreated
<1>5. CASE keep_pod \/ create_pod_now BY <1>5, PodSteps
<1>6. CASE delete_stale_pod BY <1>6, StalePodIsDeleted
<1>7. CASE up_one_service BY <1>7, ServiceIsUp
<1>8. CASE create_container BY <1>8, ContainerIsRequested
<1>9. CASE post_create BY <1>9, ContainerIsCreated
<1>10. CASE KillUp BY <1>10, UpIsKilled
<1>11. CASE UNCHANGED hashVars
  <2>1. /\ compose' = compose /\ machine' = machine /\ apply' = apply /\ podSecret' = podSecret
        /\ replica' = replica /\ projectPod' = projectPod /\ calm' = calm /\ since' = since
        /\ wasted' = wasted
    BY <1>11 DEF hashVars
  <2>2. (HashTypeOK /\ ReadOnce /\ Requested)' BY <2>1 DEF HashIInv, HashTypeOK, ReadOnce, Requested
  <2>3. (AlwaysHonest /\ PodReady /\ ExistingSeen)'
    BY <2>1 DEF HashIInv, AlwaysHonest, Honest, PodReady, PodCurrent, ExistingSeen
  <2>4. Current' BY <2>1, SameHost DEF HashIInv, Current, PodCurrent
  <2>5. (UpSettles /\ KeptWhenUnchanged)' BY <2>1, SameHost DEF HashIInv, UpSettles, KeptWhenUnchanged
  <2> QED BY <2>2, <2>3, <2>4, <2>5 DEF HashIInv
<1> QED BY <1>1, <1>2, <1>3, <1>4, <1>5, <1>6, <1>7, <1>8, <1>9, <1>10, <1>11 DEF HashNext

(* A container that wears the hash of the present file was made of it, what *)
(* an `up` leaves is current, and nothing is replaced for nothing           *)
(* (container/resolve/hash).  The invariant says it of every file and host  *)
(* there could be, so of the present ones.                                  *)
THEOREM HashIsFaithful == HashSpec => []HashFaithful
<1>1. HashIInv => HashFaithful
  <2> SUFFICES ASSUME HashIInv PROVE HashFaithful OBVIOUS
  <2>1. compose \in Files /\ machine \in Machines BY DEF HashIInv, HashTypeOK
  <2>2. LabelHonest
    <3>1. SUFFICES ASSUME replica # None, replica[1].hash = expected_config_hash PROVE LabelHonest
      BY DEF LabelHonest
    <3>2. Honest(replica[1], compose, machine) BY <2>1, <3>1 DEF HashIInv, AlwaysHonest
    <3> QED BY <3>1, <3>2 DEF LabelHonest, Honest, AskedFor, expected_config_hash
  <2> QED BY <2>2 DEF HashFaithful, HashIInv
<1> QED BY HashInitIInv, HashNextIInv, <1>1, PTL DEF HashSpec

-----------------------------------------------------------------------------
(* Followed streams, for any number of containers and chunks.              *)


\* What is held back after a chunk is empty or an unfinished line.
LEMMA AfterChunkHolds ==
  ASSUME NEW h \in Holdings, NEW x \in FollowChunks
  PROVE  AfterChunk(h, x) \in Holdings /\ Completes(x) \in {0, 1}
BY DEF AfterChunk, Holdings, Completes, FollowChunks

\* One more chunk on the way extends the account by what reading it would show.
LEMMA ChainLonger ==
  ASSUME NEW wire \in Seq(FollowChunks), NEW x \in FollowChunks,
         NEW shown \in [1 .. Len(wire) + 1 -> Nat], NEW holding \in [1 .. Len(wire) + 1 -> Holdings],
         Chain(wire, shown, holding)
  PROVE  \E shown2 \in [1 .. Len(Append(wire, x)) + 1 -> Nat],
            holding2 \in [1 .. Len(Append(wire, x)) + 1 -> Holdings] :
            /\ Chain(Append(wire, x), shown2, holding2)
            /\ shown2[1] = shown[1] /\ holding2[1] = holding[1]
            /\ shown2[Len(wire) + 2] = shown[Len(wire) + 1] + Completes(x)
            /\ holding2[Len(wire) + 2] = AfterChunk(holding[Len(wire) + 1], x)
<1> DEFINE n == Len(wire)
           w == Append(wire, x)
           a == shown[n + 1] + Completes(x)
           b == AfterChunk(holding[n + 1], x)
           shown2 == [j \in 1 .. n + 2 |-> IF j = n + 2 THEN a ELSE shown[j]]
           holding2 == [j \in 1 .. n + 2 |-> IF j = n + 2 THEN b ELSE holding[j]]
<1>1. n \in Nat /\ w \in Seq(FollowChunks) /\ Len(w) = n + 1 OBVIOUS
<1>2. \A j \in 1 .. n : w[j] = wire[j] OBVIOUS
<1>3. w[n + 1] = x OBVIOUS
<1>4. a \in Nat /\ b \in Holdings
  <2>1. shown[n + 1] \in Nat /\ holding[n + 1] \in Holdings BY <1>1
  <2> QED BY <2>1, AfterChunkHolds
<1> HIDE DEF w, a, b
<1>5. shown2 \in [1 .. n + 2 -> Nat] /\ holding2 \in [1 .. n + 2 -> Holdings] BY <1>1, <1>4
<1>6. Chain(w, shown2, holding2)
  <2>1. SUFFICES ASSUME NEW j \in 1 .. n + 1
                 PROVE  shown2[j + 1] = shown2[j] + Completes(w[j])
                        /\ holding2[j + 1] = AfterChunk(holding2[j], w[j])
    BY <1>1 DEF Chain
  <2>2. CASE j \in 1 .. n BY <1>1, <1>2, <2>2 DEF Chain
  <2>3. CASE j = n + 1 BY <1>1, <1>3, <2>3 DEF a, b
  <2> QED BY <1>1, <2>2, <2>3
<1>7. shown2[1] = shown[1] /\ holding2[1] = holding[1] /\ shown2[n + 2] = a /\ holding2[n + 2] = b
  BY <1>1
<1>8. Len(w) + 1 = n + 2 BY <1>1
<1> HIDE DEF shown2, holding2, n
<1>9. /\ shown2 \in [1 .. Len(w) + 1 -> Nat] /\ holding2 \in [1 .. Len(w) + 1 -> Holdings]
      /\ Chain(w, shown2, holding2) /\ shown2[1] = shown[1] /\ holding2[1] = holding[1]
      /\ shown2[n + 2] = shown[n + 1] + Completes(x)
      /\ holding2[n + 2] = AfterChunk(holding[n + 1], x)
  BY <1>5, <1>6, <1>7, <1>8 DEF a, b
<1> QED BY <1>9 DEF w, n

\* Once its first chunk was read the rest of the account stands.
LEMMA ChainShorter ==
  ASSUME NEW wire \in Seq(FollowChunks), wire # <<>>,
         NEW shown \in [1 .. Len(wire) + 1 -> Nat], NEW holding \in [1 .. Len(wire) + 1 -> Holdings],
         Chain(wire, shown, holding)
  PROVE  \E shown2 \in [1 .. Len(Tail(wire)) + 1 -> Nat],
            holding2 \in [1 .. Len(Tail(wire)) + 1 -> Holdings] :
            /\ Chain(Tail(wire), shown2, holding2)
            /\ shown2[1] = shown[1] + Completes(Head(wire))
            /\ holding2[1] = AfterChunk(holding[1], Head(wire))
            /\ shown2[Len(Tail(wire)) + 1] = shown[Len(wire) + 1]
            /\ holding2[Len(Tail(wire)) + 1] = holding[Len(wire) + 1]
<1> DEFINE n == Len(wire)
           w == Tail(wire)
           shown2 == [j \in 1 .. n |-> shown[j + 1]]
           holding2 == [j \in 1 .. n |-> holding[j + 1]]
<1>1. n \in Nat /\ n > 0 /\ w \in Seq(FollowChunks) /\ Len(w) = n - 1 OBVIOUS
<1>2. \A j \in 1 .. n - 1 : w[j] = wire[j + 1] OBVIOUS
<1>3. Head(wire) = wire[1] OBVIOUS
<1> HIDE DEF w
<1>4. shown2 \in [1 .. n -> Nat] /\ holding2 \in [1 .. n -> Holdings] BY <1>1
<1>5. Chain(w, shown2, holding2)
  <2>1. SUFFICES ASSUME NEW j \in 1 .. n - 1
                 PROVE  shown2[j + 1] = shown2[j] + Completes(w[j])
                        /\ holding2[j + 1] = AfterChunk(holding2[j], w[j])
    BY <1>1 DEF Chain
  <2>2. j + 1 \in 1 .. n /\ j \in 1 .. n BY <1>1
  <2>3. /\ shown[(j + 1) + 1] = shown[j + 1] + Completes(wire[j + 1])
        /\ holding[(j + 1) + 1] = AfterChunk(holding[j + 1], wire[j + 1])
    BY <2>2 DEF Chain
  <2> QED BY <1>2, <2>2, <2>3
<1>6. shown2[1] = shown[1] + Completes(Head(wire)) /\ holding2[1] = AfterChunk(holding[1], Head(wire))
  BY <1>1, <1>3 DEF Chain
<1>7. shown2[n] = shown[n + 1] /\ holding2[n] = holding[n + 1] BY <1>1
<1>8. Len(w) + 1 = n BY <1>1
<1> HIDE DEF shown2, holding2, n
<1>9. /\ shown2 \in [1 .. Len(w) + 1 -> Nat] /\ holding2 \in [1 .. Len(w) + 1 -> Holdings]
      /\ Chain(w, shown2, holding2)
      /\ shown2[Len(w) + 1] = shown[n + 1] /\ holding2[Len(w) + 1] = holding[n + 1]
  BY <1>4, <1>5, <1>7, <1>8
<1> QED BY <1>6, <1>9 DEF w, n

\* A chunk that leaves: whole, a part of a record, or the end of the body.
LEMMA ChunkSent ==
  ASSUME NEW r, StreamOK(r), r.at = "reading", IsAhead(r),
         \A j \in 1 .. Len(r.wire) : r.wire[j] \notin Terminal,
         NEW x \in FollowChunks, NEW n \in Nat, NEW h \in BOOLEAN,
         NEW s, s = [r EXCEPT !.wire = Append(@, x), !.sent = n, !.half = h],
         \/ x = "whole" /\ ~r.half /\ n = r.sent + 1 /\ ~h
         \/ x = "first" /\ ~r.half /\ n = r.sent /\ h
         \/ x = "second" /\ r.half /\ n = r.sent + 1 /\ ~h
         \/ x \in Terminal /\ n = r.sent /\ h = r.half /\ (x = "closed" => r.half \/ r.sent = r.wrote)
  PROVE  StreamOK(s) /\ IsAhead(s)
<1> DEFINE k == Len(r.wire)
<1>0. r.wire \in Seq(FollowChunks) /\ r.sent \in Nat /\ r.half \in BOOLEAN BY DEF StreamOK
<1>1. k \in Nat BY <1>0, LenProperties
<1> HIDE DEF k
<1>2. PICK shown \in [1 .. k + 1 -> Nat], holding \in [1 .. k + 1 -> Holdings] : ReadAhead(r, shown, holding)
  BY DEF IsAhead, k
<1>3. PICK shown2 \in [1 .. Len(Append(r.wire, x)) + 1 -> Nat],
           holding2 \in [1 .. Len(Append(r.wire, x)) + 1 -> Holdings] :
            /\ Chain(Append(r.wire, x), shown2, holding2)
            /\ shown2[1] = shown[1] /\ holding2[1] = holding[1]
            /\ shown2[k + 2] = shown[k + 1] + Completes(x)
            /\ holding2[k + 2] = AfterChunk(holding[k + 1], x)
  BY <1>0, <1>2, ChainLonger DEF ReadAhead, k
<1>4. /\ s.wire = Append(r.wire, x) /\ s.sent = n /\ s.half = h /\ s.shown = r.shown /\ s.held = r.held
      /\ s.wrote = r.wrote /\ s.at = r.at /\ DOMAIN s = DOMAIN r
  BY DEF StreamOK, NewStream
<1>5. Len(s.wire) = k + 1 /\ s.wire \in Seq(FollowChunks) /\ s.wire[k + 1] = x
      /\ \A j \in 1 .. k : s.wire[j] = r.wire[j]
  BY <1>0, <1>4 DEF k
<1>6. StreamOK(s) BY <1>0, <1>4, <1>5 DEF StreamOK
<1>7. holding[k + 1] \in Holdings /\ shown[k + 1] \in Nat BY <1>1, <1>2
<1>8. /\ r.sent = shown[k + 1] + (IF holding[k + 1] = "record" THEN 1 ELSE 0)
      /\ r.half <=> holding[k + 1] = "part"
      /\ holding[k + 1] = "record" => k > 0 /\ r.wire[k] = "closed"
      /\ shown[1] = r.shown /\ holding[1] = r.held
  BY <1>2 DEF ReadAhead, k
<1>9. holding[k + 1] # "record"
  <2>1. SUFFICES ASSUME k > 0, r.wire[k] = "closed" PROVE FALSE BY <1>8
  <2> QED BY <1>1, <2>1 DEF Terminal, k
<1>10. \A j \in 1 .. k + 1 : s.wire[j] \in Terminal => j = k + 1 BY <1>1, <1>5
<1>11. /\ n = shown2[k + 2] + (IF holding2[k + 2] = "record" THEN 1 ELSE 0)
       /\ h <=> holding2[k + 2] = "part"
       /\ holding2[k + 2] # "record"
  BY <1>3, <1>7, <1>8, <1>9 DEF AfterChunk, Completes, Terminal, Holdings
<1>12. x = "closed" => h \/ n = r.wrote OBVIOUS
<1>13. (k + 1) + 1 = k + 2 BY <1>1
<1>14. ReadAhead(s, shown2, holding2)
  BY <1>3, <1>4, <1>5, <1>8, <1>10, <1>11, <1>12, <1>13 DEF ReadAhead
<1>15. IsAhead(s) BY <1>3, <1>4, <1>14 DEF IsAhead
<1> QED BY <1>6, <1>15

\* A last line and the end of the body, put on the way at once.
LEMMA TwoAppended ==
  ASSUME NEW S, NEW w \in Seq(S), NEW a \in S, NEW b \in S
  PROVE  w \o <<a, b>> = Append(Append(w, a), b)
<1> DEFINE p == <<a, b>>
           l == w \o p
           r == Append(Append(w, a), b)
<1>1. p \in Seq(S) /\ Len(p) = 2 /\ p[1] = a /\ p[2] = b OBVIOUS
<1> HIDE DEF p
<1>2. Len(w) \in Nat BY LenProperties
<1>3. l \in Seq(S) BY <1>1, ConcatProperties
<1>4. Len(l) = Len(w) + 2
  <2>1. Len(l) = Len(w) + Len(p) BY <1>1, ConcatProperties
  <2> QED BY <1>1, <2>1
<1>5. r \in Seq(S) /\ Len(r) = Len(w) + 2 BY <1>2
<1>6. \A i \in 1 .. Len(w) + 2 : l[i] = r[i]
  <2>1. SUFFICES ASSUME NEW i \in 1 .. Len(w) + 2 PROVE l[i] = r[i] OBVIOUS
  <2>2. l[i] = IF i <= Len(w) THEN w[i] ELSE p[i - Len(w)]
    <3>1. i \in 1 .. Len(w) + Len(p) BY <1>1, <2>1
    <3> QED BY <1>1, <3>1, ConcatProperties
  <2>3. CASE i <= Len(w) BY <1>2, <2>1, <2>2, <2>3
  <2>4. CASE i = Len(w) + 1 BY <1>1, <1>2, <2>2, <2>4
  <2>5. CASE i = Len(w) + 2 BY <1>1, <1>2, <2>2, <2>5
  <2>6. i <= Len(w) \/ i = Len(w) + 1 \/ i = Len(w) + 2 BY <1>2, <2>1
  <2> QED BY <2>3, <2>4, <2>5, <2>6
<1> HIDE DEF l, r
<1>7. l = r BY <1>3, <1>4, <1>5, <1>6, SeqEqual
<1> QED BY <1>7 DEF l, r, p

\* A body of lines that ends without its last newline.
LEMMA LastLineSent ==
  ASSUME NEW r, StreamOK(r), r.at = "reading", IsAhead(r), ~r.half,
         \A j \in 1 .. Len(r.wire) : r.wire[j] \notin Terminal, r.sent + 1 = r.wrote,
         NEW s, s = [r EXCEPT !.wire = @ \o <<"bare", "closed">>, !.sent = @ + 1]
  PROVE  StreamOK(s) /\ IsAhead(s)
<1> DEFINE k == Len(r.wire)
           w == Append(r.wire, "bare")
           v == Append(w, "closed")
<1>0. r.wire \in Seq(FollowChunks) /\ r.sent \in Nat /\ r.half \in BOOLEAN BY DEF StreamOK
<1>1. k \in Nat BY <1>0, LenProperties
<1> HIDE DEF k
<1>2. PICK shown \in [1 .. k + 1 -> Nat], holding \in [1 .. k + 1 -> Holdings] : ReadAhead(r, shown, holding)
  BY DEF IsAhead, k
<1>3. "bare" \in FollowChunks /\ "closed" \in FollowChunks BY DEF FollowChunks
<1>4. PICK shown2 \in [1 .. Len(w) + 1 -> Nat], holding2 \in [1 .. Len(w) + 1 -> Holdings] :
            /\ Chain(w, shown2, holding2)
            /\ shown2[1] = shown[1] /\ holding2[1] = holding[1]
            /\ shown2[k + 2] = shown[k + 1] + Completes("bare")
            /\ holding2[k + 2] = AfterChunk(holding[k + 1], "bare")
  BY <1>0, <1>2, <1>3, ChainLonger DEF ReadAhead, k
<1>5. w \in Seq(FollowChunks) /\ Len(w) = k + 1 /\ w[k + 1] = "bare" /\ \A j \in 1 .. k : w[j] = r.wire[j]
  BY <1>0, <1>3 DEF k
<1> HIDE DEF w
<1>6. PICK shown3 \in [1 .. Len(v) + 1 -> Nat], holding3 \in [1 .. Len(v) + 1 -> Holdings] :
            /\ Chain(v, shown3, holding3)
            /\ shown3[1] = shown2[1] /\ holding3[1] = holding2[1]
            /\ shown3[Len(w) + 2] = shown2[Len(w) + 1] + Completes("closed")
            /\ holding3[Len(w) + 2] = AfterChunk(holding2[Len(w) + 1], "closed")
  BY <1>3, <1>4, <1>5, ChainLonger, ZenonT(30)
<1>7. Len(v) = k + 2 /\ v \in Seq(FollowChunks) /\ v[k + 2] = "closed" /\ \A j \in 1 .. k + 1 : v[j] = w[j]
  BY <1>1, <1>3, <1>5
<1>8. r.wire \o <<"bare", "closed">> = v
  <2>1. r.wire \o <<"bare", "closed">> = Append(Append(r.wire, "bare"), "closed")
    <3>1. PICK a \in FollowChunks, b \in FollowChunks : a = "bare" /\ b = "closed" BY <1>3
    <3>2. r.wire \o <<a, b>> = Append(Append(r.wire, a), b) BY <1>0, TwoAppended
    <3> QED BY <3>1, <3>2, Zenon
  <2> QED BY <2>1, Zenon DEF w, v
<1> HIDE DEF v
<1>9. /\ s.wire = v /\ s.sent = r.sent + 1 /\ s.half = r.half /\ s.shown = r.shown /\ s.held = r.held
      /\ s.wrote = r.wrote /\ s.at = r.at /\ DOMAIN s = DOMAIN r
  BY <1>8 DEF StreamOK, NewStream
<1>10. StreamOK(s) BY <1>0, <1>7, <1>9 DEF StreamOK
<1>11. holding[k + 1] \in Holdings /\ shown[k + 1] \in Nat BY <1>1, <1>2
<1>12. /\ r.sent = shown[k + 1] + (IF holding[k + 1] = "record" THEN 1 ELSE 0)
       /\ r.half <=> holding[k + 1] = "part"
       /\ holding[k + 1] = "record" => k > 0 /\ r.wire[k] = "closed"
       /\ shown[1] = r.shown /\ holding[1] = r.held
  BY <1>2 DEF ReadAhead, k
<1>13. holding[k + 1] # "record"
  <2>1. SUFFICES ASSUME k > 0, r.wire[k] = "closed" PROVE FALSE BY <1>12
  <2>2. k \in 1 .. k BY <1>1, <2>1
  <2> QED BY <2>1, <2>2 DEF Terminal, k
<1>14. \A j \in 1 .. k + 2 : v[j] \in Terminal => j = k + 2
  <2>1. SUFFICES ASSUME NEW j \in 1 .. k + 1 PROVE v[j] \notin Terminal BY <1>1
  <2>2. CASE j \in 1 .. k BY <1>1, <1>5, <1>7, <2>2 DEF k
  <2>3. CASE j = k + 1 BY <1>1, <1>5, <1>7, <2>3 DEF Terminal
  <2> QED BY <1>1, <2>2, <2>3
<1>15. shown2[k + 2] = shown[k + 1] /\ holding2[k + 2] = "record"
  BY <1>4, <1>11 DEF AfterChunk, Completes
<1>16. (k + 1) + 1 = k + 2 /\ (k + 1) + 2 = k + 3 /\ (k + 2) + 1 = k + 3 BY <1>1
<1>17. shown3[k + 3] = shown[k + 1] /\ holding3[k + 3] = "record"
  BY <1>5, <1>6, <1>11, <1>15, <1>16 DEF AfterChunk, Completes
<1>18. r.sent + 1 = shown3[k + 3] + 1 BY <1>11, <1>12, <1>13, <1>17
<1>19. ReadAhead(s, shown3, holding3)
  <2>1. shown3[1] = s.shown /\ holding3[1] = s.held /\ Chain(s.wire, shown3, holding3)
    BY <1>4, <1>6, <1>9, <1>12
  <2>2. Len(s.wire) = k + 2 /\ Len(s.wire) + 1 = k + 3 /\ Len(s.wire) > 0 BY <1>1, <1>7, <1>9
  <2>3. \A j \in 1 .. k + 2 : s.wire[j] \in Terminal => j = k + 2 BY <1>9, <1>14
  <2>4. s.sent = shown3[k + 3] + 1 /\ holding3[k + 3] = "record" /\ ~s.half /\ s.wire[k + 2] = "closed"
        /\ s.sent = s.wrote
    BY <1>7, <1>9, <1>17, <1>18
  <2> QED BY <2>1, <2>2, <2>3, <2>4 DEF ReadAhead
<1>20. IsAhead(s) BY <1>6, <1>9, <1>19 DEF IsAhead
<1> QED BY <1>10, <1>20

\* The first chunk is read: it is shown, or held back until its line is whole.
LEMMA ChunkRead ==
  ASSUME NEW r, StreamOK(r), r.at = "reading", IsAhead(r), r.wire # <<>>,
         NEW x, x = Head(r.wire), x \in {"whole", "first", "second", "bare"},
         NEW s, s = [r EXCEPT !.wire = Tail(@), !.held = AfterChunk(r.held, x), !.shown = @ + Completes(x)]
  PROVE  StreamOK(s) /\ IsAhead(s)
<1> DEFINE k == Len(r.wire)
           w == Tail(r.wire)
<1>0. /\ r.wire \in Seq(FollowChunks) /\ r.sent \in Nat /\ r.shown \in Nat /\ r.half \in BOOLEAN
      /\ r.held \in Holdings
  BY DEF StreamOK
<1>1. k \in Nat /\ k > 0
  <2>1. Len(r.wire) \in Nat \ {0} BY <1>0, EmptySeq
  <2> QED BY <2>1
<1>2. PICK shown \in [1 .. k + 1 -> Nat], holding \in [1 .. k + 1 -> Holdings] : ReadAhead(r, shown, holding)
  BY DEF IsAhead
<1>3. w \in Seq(FollowChunks) /\ Len(w) = k - 1 /\ \A j \in 1 .. k - 1 : w[j] = r.wire[j + 1]
  BY <1>0
<1>4. PICK shown2 \in [1 .. Len(w) + 1 -> Nat], holding2 \in [1 .. Len(w) + 1 -> Holdings] :
            /\ Chain(w, shown2, holding2)
            /\ shown2[1] = shown[1] + Completes(x)
            /\ holding2[1] = AfterChunk(holding[1], x)
            /\ shown2[Len(w) + 1] = shown[k + 1]
            /\ holding2[Len(w) + 1] = holding[k + 1]
  BY <1>0, <1>2, ChainShorter DEF ReadAhead
<1>5. x \in FollowChunks /\ r.wire[1] = x
  <2>1. x \in FollowChunks BY DEF FollowChunks
  <2>2. Head(r.wire) = r.wire[1] BY <1>0
  <2> QED BY <2>1, <2>2
<1>6. AfterChunk(r.held, x) \in Holdings /\ Completes(x) \in {0, 1} BY <1>0, <1>5, AfterChunkHolds
<1> HIDE DEF w, k
<1>7. /\ s.wire = w /\ s.sent = r.sent /\ s.half = r.half /\ s.shown = r.shown + Completes(x)
      /\ s.held = AfterChunk(r.held, x) /\ s.wrote = r.wrote /\ s.at = r.at /\ DOMAIN s = DOMAIN r
  BY DEF StreamOK, NewStream, w
<1>8. StreamOK(s)
  <2>1. s.shown \in Nat BY <1>0, <1>6, <1>7
  <2> QED BY <1>0, <1>3, <1>6, <1>7, <2>1 DEF StreamOK
<1>9. /\ r.sent = shown[k + 1] + (IF holding[k + 1] = "record" THEN 1 ELSE 0)
      /\ r.half <=> holding[k + 1] = "part"
      /\ holding[k + 1] = "record" => r.wire[k] = "closed"
      /\ r.wire[k] = "closed" => r.half \/ r.sent = r.wrote
      /\ shown[1] = r.shown /\ holding[1] = r.held
      /\ \A j \in 1 .. k : r.wire[j] \in Terminal => j = k
  BY <1>1, <1>2 DEF ReadAhead, k
<1>10. Len(w) + 1 = k BY <1>1, <1>3
<1>11. Len(w) > 0 => w[Len(w)] = r.wire[k]
  <2>1. SUFFICES ASSUME Len(w) > 0 PROVE w[k - 1] = r.wire[k] BY <1>3
  <2>2. k - 1 \in 1 .. k - 1 /\ (k - 1) + 1 = k BY <1>1, <1>10, <2>1
  <2> QED BY <1>3, <2>2
<1>12. k = 1 => r.wire[k] # "closed" BY <1>5
<1>13. \A j \in 1 .. Len(w) : w[j] \in Terminal => j = Len(w)
  <2>1. SUFFICES ASSUME NEW j \in 1 .. k - 1, w[j] \in Terminal PROVE j = k - 1 BY <1>3
  <2>2. r.wire[j + 1] \in Terminal /\ j + 1 \in 1 .. k BY <1>1, <1>3, <2>1
  <2>3. j + 1 = k BY <1>9, <2>2
  <2> QED BY <1>1, <2>1, <2>3
<1>14. ReadAhead(s, shown2, holding2)
  <2>1. shown2[1] = s.shown /\ holding2[1] = s.held /\ Chain(s.wire, shown2, holding2) BY <1>4, <1>7, <1>9
  <2>2. s.sent = shown2[Len(w) + 1] + (IF holding2[Len(w) + 1] = "record" THEN 1 ELSE 0) BY <1>4, <1>7, <1>9
  <2>3. s.half <=> holding2[Len(w) + 1] = "part" BY <1>4, <1>7, <1>9
  <2>4. holding2[Len(w) + 1] = "record" => Len(w) > 0 /\ w[Len(w)] = "closed"
    <3>1. SUFFICES ASSUME holding[k + 1] = "record" PROVE Len(w) > 0 /\ w[Len(w)] = "closed" BY <1>4
    <3>2. r.wire[k] = "closed" BY <1>9, <3>1
    <3>3. Len(w) > 0 BY <1>1, <1>3, <1>12, <3>2
    <3> QED BY <1>11, <3>2, <3>3
  <2>5. Len(w) > 0 /\ w[Len(w)] = "closed" => s.half \/ s.sent = s.wrote BY <1>7, <1>9, <1>11
  <2> QED BY <1>7, <1>13, <2>1, <2>2, <2>3, <2>4, <2>5 DEF ReadAhead
<1>15. IsAhead(s) BY <1>4, <1>7, <1>14 DEF IsAhead
<1> QED BY <1>8, <1>15

\* A body that was closed in order kept all that was written.
LEMMA ClosedIsWhole ==
  ASSUME NEW r, StreamOK(r), r.at = "reading", IsAhead(r), r.wire # <<>>, Head(r.wire) = "closed",
         r.held # "part"
  PROVE  r.shown + (IF r.held = "record" THEN 1 ELSE 0) = r.wrote
<1> DEFINE k == Len(r.wire)
<1>0. r.wire \in Seq(FollowChunks) /\ r.sent \in Nat /\ r.half \in BOOLEAN BY DEF StreamOK
<1>1. k \in Nat /\ k > 0
  <2>1. Len(r.wire) \in Nat \ {0} BY <1>0, EmptySeq
  <2> QED BY <2>1
<1>2. PICK shown \in [1 .. k + 1 -> Nat], holding \in [1 .. k + 1 -> Holdings] : ReadAhead(r, shown, holding)
  BY DEF IsAhead
<1>3. r.wire[1] = "closed"
  <2>1. Head(r.wire) = r.wire[1] BY <1>0
  <2> QED BY <2>1
<1> HIDE DEF k
<1>4. k = 1
  <2>1. \A j \in 1 .. k : r.wire[j] \in Terminal => j = k BY <1>2 DEF ReadAhead, k
  <2>2. 1 \in 1 .. k BY <1>1
  <2> QED BY <1>3, <2>1, <2>2 DEF Terminal
<1>5. shown[2] = shown[1] + Completes("closed") /\ holding[2] = AfterChunk(holding[1], "closed")
  BY <1>2, <1>3, <1>4 DEF ReadAhead, Chain, k
<1>6. shown[1] \in Nat BY <1>1
<1>7. shown[2] = shown[1] /\ holding[2] = holding[1] BY <1>5, <1>6 DEF Completes, AfterChunk
<1>8. /\ r.sent = shown[2] + (IF holding[2] = "record" THEN 1 ELSE 0)
      /\ r.half <=> holding[2] = "part"
      /\ r.half \/ r.sent = r.wrote
      /\ shown[1] = r.shown /\ holding[1] = r.held
  BY <1>2, <1>3, <1>4 DEF ReadAhead, k
<1> QED BY <1>7, <1>8

-----------------------------------------------------------------------------
\* A step of one stream: the command has not ended, so only the stream is to be looked at.
LEMMA StreamStep ==
  ASSUME FollowIInv, NEW i \in DOMAIN lines, NEW s, lines' = [lines EXCEPT ![i] = s],
         UNCHANGED <<watch, up, listed, fphase, fresult>>,
         lines[i].at # "over", lines[i].at = "asking" => watch.cmd # "events",
         s.about = lines[i].about, StreamOK(s), IsAhead(s), Justified(s, Bounded, JudgesFaults, Live(i))
  PROVE  FollowIInv'
<1> USE DEF FollowIInv
<1>1. DOMAIN lines' = DOMAIN lines /\ lines'[i] = s /\ \A j \in DOMAIN lines : j # i => lines'[j] = lines[j]
  OBVIOUS
<1>2. \A j \in DOMAIN lines : lines'[j].about = lines[j].about BY <1>1
<1>3. Bounded' = Bounded /\ JudgesFaults' = JudgesFaults /\ \A j \in DOMAIN lines : Live(j)' = Live(j)
  <2>1. Bounded' = Bounded /\ JudgesFaults' = JudgesFaults BY DEF Bounded, JudgesFaults
  <2>2. \A j \in DOMAIN lines : Live(j)' = Live(j) BY <1>2 DEF Live
  <2> QED BY <2>1, <2>2
<1>4. fphase # "done" /\ fphase' # "done" BY DEF Settled, Over
<1>5. FollowTypeOK' BY <1>1 DEF FollowTypeOK
<1>6. SentIsAhead' BY <1>1 DEF SentIsAhead
<1>7. EndsJustified'
  <2>1. SUFFICES ASSUME NEW j \in DOMAIN lines
                 PROVE  Justified(lines'[j], Bounded, JudgesFaults, Live(j))
    BY <1>1, <1>3 DEF EndsJustified
  <2> QED BY <1>1, <2>1 DEF EndsJustified
<1>8. Settled' BY <1>1, <1>4 DEF Settled
<1>9. FollowAccounted' BY <1>4 DEF FollowAccounted, LossIsReported, NoFalseAlarm, FollowDone
<1> QED BY <1>5, <1>6, <1>7, <1>8, <1>9

\* While it is read a stream has no end, and not looked at it is justified.
LEMMA StillReading ==
  ASSUME NEW s, s.at = "reading", s.end = "none", NEW b, NEW g, NEW l
  PROVE  Justified(s, b, g, l)
BY DEF Justified

\* The server writes, sends, stops or breaks the body of one stream.
LEMMA ServerSteps ==
  ASSUME FollowIInv, NEW i \in DOMAIN lines,
         RecordWritten(i) \/ RecordSent(i) \/ AnswerEnds(i) \/ AnswerBreaks(i)
  PROVE  FollowIInv'
<1> DEFINE r == lines[i]
<1>1. Serving(i) /\ UNCHANGED <<watch, up, listed, fphase, fresult>>
  BY DEF RecordWritten, RecordSent, AnswerEnds, AnswerBreaks, ServeOnly
<1>2. r.at = "reading" /\ r.end = "none" /\ StreamOK(r) /\ IsAhead(r)
  BY <1>1 DEF Serving, FollowIInv, EndsJustified, Justified, FollowTypeOK, SentIsAhead
<1>3. \A j \in 1 .. Len(r.wire) : r.wire[j] \notin Terminal
  <2>1. r.wire \in Seq(FollowChunks) BY <1>2 DEF StreamOK
  <2>2. DOMAIN r.wire = 1 .. Len(r.wire) BY <2>1, LenProperties
  <2>3. \A j \in DOMAIN r.wire : r.wire[j] \in ToSet(r.wire) BY DEF ToSet
  <2> QED BY <1>1, <2>2, <2>3 DEF Serving, Terminal
<1>4. PICK w, n, h, t : w = r.wire /\ n = r.sent /\ h = r.half /\ t = r.wrote OBVIOUS
<1>5. n \in Nat /\ h \in BOOLEAN /\ t \in Nat BY <1>2, <1>4 DEF StreamOK
<1>6. ASSUME NEW s, lines' = [lines EXCEPT ![i] = s], s.about = r.about, s.at = "reading", s.end = "none",
             StreamOK(s), IsAhead(s)
      PROVE  FollowIInv'
  <2>1. Justified(s, Bounded, JudgesFaults, Live(i)) BY <1>6, StillReading
  <2> QED BY <1>1, <1>2, <1>6, <2>1, StreamStep
<1> HIDE DEF r
<1>7. \A x \in FollowChunks, m \in Nat, g \in BOOLEAN :
         LET s == [r EXCEPT !.wire = Append(@, x), !.sent = m, !.half = g]
         IN s.about = r.about /\ s.at = "reading" /\ s.end = "none"
  BY <1>2 DEF StreamOK, NewStream
<1>8. ASSUME NEW x \in FollowChunks, NEW m \in Nat, NEW g \in BOOLEAN,
             lines' = [lines EXCEPT ![i] = [r EXCEPT !.wire = Append(@, x), !.sent = m, !.half = g]],
             \/ x = "whole" /\ ~r.half /\ m = r.sent + 1 /\ ~g
             \/ x = "first" /\ ~r.half /\ m = r.sent /\ g
             \/ x = "second" /\ r.half /\ m = r.sent + 1 /\ ~g
             \/ x \in Terminal /\ m = r.sent /\ g = r.half /\ (x = "closed" => r.half \/ r.sent = r.wrote)
      PROVE  FollowIInv'
  <2>1. PICK s : s = [r EXCEPT !.wire = Append(@, x), !.sent = m, !.half = g] OBVIOUS
  <2>2. StreamOK(s) /\ IsAhead(s) BY <1>2, <1>3, <1>8, <2>1, ChunkSent
  <2>3. s.about = r.about /\ s.at = "reading" /\ s.end = "none" BY <1>7, <2>1
  <2> QED BY <1>6, <1>8, <2>1, <2>2, <2>3
<1>10. \A x : [r EXCEPT !.wire = Append(@, x)] = [r EXCEPT !.wire = Append(@, x), !.sent = r.sent, !.half = r.half]
  BY <1>2 DEF StreamOK, NewStream
<1>11. CASE RecordWritten(i)
  <2>1. PICK s : s = [r EXCEPT !.wrote = @ + 1] OBVIOUS
  <2>2. lines' = [lines EXCEPT ![i] = s] BY <1>11, <2>1 DEF RecordWritten, r
  <2>3. s.about = r.about /\ s.at = "reading" /\ s.end = "none" BY <1>2, <2>1 DEF StreamOK, NewStream
  <2>4. StreamOK(s) BY <1>2, <2>1 DEF StreamOK, NewStream
  <2>5. IsAhead(s)
    <3>1. s.wire = r.wire /\ s.sent = r.sent /\ s.shown = r.shown /\ s.held = r.held /\ s.half = r.half
      BY <1>2, <2>1 DEF StreamOK, NewStream
    <3>2. PICK shown \in [1 .. Len(r.wire) + 1 -> Nat], holding \in [1 .. Len(r.wire) + 1 -> Holdings] :
             ReadAhead(r, shown, holding)
      BY <1>2 DEF IsAhead
    <3>3. Len(r.wire) > 0 => r.wire[Len(r.wire)] # "closed"
      <4>1. Len(r.wire) \in Nat BY <1>2, LenProperties DEF StreamOK
      <4>2. Len(r.wire) > 0 => Len(r.wire) \in 1 .. Len(r.wire) BY <4>1
      <4> QED BY <1>3, <4>2 DEF Terminal
    <3>4. ReadAhead(s, shown, holding) BY <3>1, <3>2, <3>3 DEF ReadAhead
    <3> QED BY <3>1, <3>4 DEF IsAhead
  <2> QED BY <1>6, <2>2, <2>3, <2>4, <2>5
<1>12. CASE RecordSent(i)
  <2>1. r.half \in BOOLEAN /\ r.sent \in Nat BY <1>2 DEF StreamOK
  <2>2. ASSUME ~r.half, lines' = [lines EXCEPT ![i].wire = Append(@, "whole"), ![i].sent = @ + 1]
        PROVE  FollowIInv'
    <3>1. lines' = [lines EXCEPT ![i] = [r EXCEPT !.wire = Append(@, "whole"), !.sent = r.sent + 1, !.half = FALSE]]
      BY <1>2, <2>2 DEF r, StreamOK, NewStream
    <3>2. PICK m \in Nat, x \in FollowChunks, g \in BOOLEAN : m = r.sent + 1 /\ x = "whole" /\ g = FALSE
      <4>1. r.sent + 1 \in Nat BY <2>1
      <4>2. "whole" \in FollowChunks BY DEF FollowChunks
      <4> QED BY <4>1, <4>2, Zenon
    <3> QED BY <1>8, <2>2, <3>1, <3>2
  <2>3. ASSUME ~r.half, lines' = [lines EXCEPT ![i].wire = Append(@, "first"), ![i].half = TRUE]
        PROVE  FollowIInv'
    <3>1. lines' = [lines EXCEPT ![i] = [r EXCEPT !.wire = Append(@, "first"), !.sent = r.sent, !.half = TRUE]]
      BY <1>2, <2>3 DEF r, StreamOK, NewStream
    <3> QED BY <1>8, <2>1, <2>3, <3>1 DEF FollowChunks
  <2>4. ASSUME r.half,
               lines' = [lines EXCEPT ![i].wire = Append(@, "second"), ![i].half = FALSE, ![i].sent = @ + 1]
        PROVE  FollowIInv'
    <3>1. lines' = [lines EXCEPT ![i] = [r EXCEPT !.wire = Append(@, "second"), !.sent = r.sent + 1, !.half = FALSE]]
      BY <1>2, <2>4 DEF r, StreamOK, NewStream
    <3>2. PICK m \in Nat, x \in FollowChunks, g \in BOOLEAN : m = r.sent + 1 /\ x = "second" /\ g = FALSE
      <4>1. r.sent + 1 \in Nat BY <2>1
      <4>2. "second" \in FollowChunks BY DEF FollowChunks
      <4> QED BY <4>1, <4>2, Zenon
    <3> QED BY <1>8, <2>4, <3>1, <3>2
  <2> QED BY <1>12, <2>2, <2>3, <2>4 DEF RecordSent, r
<1>13. ASSUME NEW x \in Terminal, lines' = [lines EXCEPT ![i].wire = Append(@, x)],
              x = "closed" => r.half \/ r.sent = r.wrote
       PROVE  FollowIInv'
  <2>1. r.half \in BOOLEAN /\ r.sent \in Nat BY <1>2 DEF StreamOK
  <2>2. x \in FollowChunks BY DEF FollowChunks, Terminal
  <2>3. lines' = [lines EXCEPT ![i] = [r EXCEPT !.wire = Append(@, x), !.sent = r.sent, !.half = r.half]]
    BY <1>10, <1>13 DEF r
  <2>4. PICK m \in Nat, g \in BOOLEAN : m = r.sent /\ g = r.half BY <2>1
  <2>5. /\ lines' = [lines EXCEPT ![i] = [r EXCEPT !.wire = Append(@, x), !.sent = m, !.half = g]]
        /\ x \in Terminal /\ m = r.sent /\ g = r.half /\ (x = "closed" => r.half \/ r.sent = r.wrote)
    BY <1>13, <2>3, <2>4
  <2> QED BY <1>8, <2>2, <2>5
<1>14. CASE AnswerEnds(i)
  <2>1. ~r.half BY <1>14 DEF AnswerEnds, r
  <2>2. CASE r.sent = r.wrote /\ lines' = [lines EXCEPT ![i].wire = Append(@, "closed")]
    <3>1. "closed" \in Terminal BY DEF Terminal
    <3> QED BY <1>13, <2>2, <3>1
  <2>3. CASE r.sent + 1 = r.wrote
             /\ lines' = [lines EXCEPT ![i].wire = @ \o <<"bare", "closed">>, ![i].sent = @ + 1]
    <3>1. PICK s : s = [r EXCEPT !.wire = @ \o <<"bare", "closed">>, !.sent = @ + 1] OBVIOUS
    <3>2. lines' = [lines EXCEPT ![i] = s] BY <1>2, <2>3, <3>1 DEF r
    <3>3. StreamOK(s) /\ IsAhead(s) BY <1>2, <1>3, <2>1, <2>3, <3>1, LastLineSent
    <3>4. s.about = r.about /\ s.at = "reading" /\ s.end = "none" BY <1>2, <3>1 DEF StreamOK, NewStream
    <3> QED BY <1>6, <3>2, <3>3, <3>4
  <2> QED BY <1>14, <2>2, <2>3 DEF AnswerEnds, Wire, r
<1>15. CASE AnswerBreaks(i)
  <2>1. "closed" \in Terminal /\ "cut" \in Terminal /\ "unreadable" \in Terminal BY DEF Terminal
  <2>2. CASE Wire(i, "cut") BY <1>13, <2>1, <2>2 DEF Wire
  <2>3. CASE r.half /\ Wire(i, "closed") BY <1>13, <2>1, <2>3 DEF Wire
  <2>4. CASE Wire(i, "unreadable") BY <1>13, <2>1, <2>4 DEF Wire
  <2> QED BY <1>15, <2>2, <2>3, <2>4 DEF AnswerBreaks, r
<1> QED BY <1>11, <1>12, <1>14, <1>15

\* The command reads one stream to its end, or gives it up.
LEMMA ClientSteps ==
  ASSUME FollowIInv, NEW i \in DOMAIN lines,
         OpenStream(i) \/ ReadRecord(i) \/ ReadEnd(i) \/ ReadError(i) \/ PipeGone(i) \/ Ask(i)
  PROVE  FollowIInv'
<1> DEFINE r == lines[i]
<1>1. UNCHANGED <<watch, up, listed, fphase, fresult>>
  BY DEF OpenStream, ReadRecord, ReadEnd, ReadError, PipeGone, Ask, ReadOnly
<1>2. StreamOK(r) /\ IsAhead(r) /\ Justified(r, Bounded, JudgesFaults, Live(i))
  BY DEF FollowIInv, EndsJustified, FollowTypeOK, SentIsAhead
<1>3. /\ r.at \in {"unopened", "reading", "asking", "over"} /\ r.wrote \in Nat /\ r.sent \in Nat
      /\ r.shown \in Nat /\ r.half \in BOOLEAN /\ r.held \in Holdings /\ r.wire \in Seq(FollowChunks)
      /\ DOMAIN r = DOMAIN NewStream("", {})
  BY <1>2 DEF StreamOK
<1>4. watch.cmd \in {"logs", "console", "foreground", "stats", "events"}
  BY FollowAssumption DEF FollowIInv, FollowTypeOK
<1>5. ASSUME NEW s, lines' = [lines EXCEPT ![i] = s], s.about = r.about, StreamOK(s), IsAhead(s),
             Justified(s, Bounded, JudgesFaults, Live(i)), r.at # "over", r.at = "asking" => watch.cmd # "events"
      PROVE  FollowIInv'
  BY <1>1, <1>5, StreamStep
<1> HIDE DEF r
<1>6. CASE OpenStream(i)
  <2>1. r.at = "unopened" /\ r.end = "none" BY <1>2, <1>6 DEF OpenStream, r, Justified
  <2>2. CASE CloseStream(i, "not_opened")
    <3>1. PICK s : s = [r EXCEPT !.at = "over", !.end = "not_opened"] OBVIOUS
    <3>2. lines' = [lines EXCEPT ![i] = s] BY <1>3, <2>2, <3>1 DEF CloseStream, r
    <3>3. s.at = "over" /\ s.end = "not_opened" /\ s.about = r.about BY <1>3, <3>1 DEF NewStream
    <3>4. StreamOK(s) BY <1>3, <3>1 DEF StreamOK, NewStream
    <3>5. IsAhead(s) /\ Justified(s, Bounded, JudgesFaults, Live(i)) BY <3>3 DEF IsAhead, Justified
    <3> QED BY <1>5, <2>1, <3>2, <3>3, <3>4, <3>5
  <2>3. CASE lines' = [lines EXCEPT ![i].at = "reading", ![i].wrote = IF Bounded THEN MaxWrites ELSE 0]
    <3>1. PICK n \in Nat : n = IF Bounded THEN MaxWrites ELSE 0 BY FollowAssumption
    <3>2. PICK s : s = [r EXCEPT !.at = "reading", !.wrote = n] OBVIOUS
    <3>3. lines' = [lines EXCEPT ![i] = s] BY <1>3, <2>3, <3>1, <3>2 DEF r
    <3>4. /\ s.at = "reading" /\ s.end = "none" /\ s.about = r.about /\ s.wire = r.wire /\ s.held = r.held
          /\ s.half = r.half /\ s.shown = r.shown /\ s.sent = r.sent /\ s.wrote = n /\ DOMAIN s = DOMAIN r
      BY <1>3, <2>1, <3>2 DEF NewStream
    <3>5. StreamOK(s) BY <1>3, <3>4 DEF StreamOK
    <3>6. s.wire = <<>> /\ s.held = "nothing" /\ ~s.half /\ s.shown = 0 /\ s.sent = 0
      BY <1>2, <2>1, <3>4 DEF Justified
    <3>7. IsAhead(s)
      <4> DEFINE shown == [j \in 1 .. 1 |-> 0]
                 holding == [j \in 1 .. 1 |-> "nothing"]
      <4>1. Len(s.wire) = 0 BY <3>6
      <4>2. shown \in [1 .. 1 -> Nat] /\ holding \in [1 .. 1 -> Holdings] BY DEF Holdings
      <4>3. shown[1] = 0 /\ holding[1] = "nothing" OBVIOUS
      <4> HIDE DEF shown, holding
      <4>4. Chain(s.wire, shown, holding) BY <4>1 DEF Chain
      <4>5. ReadAhead(s, shown, holding) BY <3>6, <4>1, <4>3, <4>4 DEF ReadAhead
      <4>6. Len(s.wire) + 1 = 1 BY <4>1
      <4> QED BY <4>2, <4>5, <4>6 DEF IsAhead
    <3>8. Justified(s, Bounded, JudgesFaults, Live(i)) BY <3>4, StillReading
    <3> QED BY <1>5, <2>1, <3>3, <3>4, <3>5, <3>7, <3>8
  <2> QED BY <1>6, <2>2, <2>3 DEF OpenStream
<1>7. CASE ReadRecord(i)
  <2>1. /\ r.at = "reading" /\ r.end = "none" /\ r.wire # <<>>
        /\ Head(r.wire) \in {"whole", "first", "second", "bare"}
    BY <1>2, <1>7 DEF ReadRecord, Ready, Got, r, Justified
  <2>2. PICK x : x = Head(r.wire) OBVIOUS
  <2>3. PICK s : s = [r EXCEPT !.wire = Tail(@), !.held = AfterChunk(r.held, x), !.shown = @ + Completes(x)]
    OBVIOUS
  <2>4. /\ AfterChunk(r.held, x) = CASE x \in {"whole", "second"} -> "nothing"
                                     [] x = "first"               -> "part"
                                     [] OTHER                     -> "record"
        /\ Completes(x) = IF x \in {"whole", "second"} THEN 1 ELSE 0
    BY <2>1, <2>2 DEF AfterChunk, Completes
  <2>5. lines' = [lines EXCEPT ![i].wire = Tail(@), ![i].held = AfterChunk(r.held, x),
                               ![i].shown = @ + Completes(x)]
    BY <1>7, <2>2, <2>4 DEF ReadRecord, Got, r
  <2>6. lines' = [lines EXCEPT ![i] = s] BY <1>3, <2>3, <2>5 DEF r
  <2>7. StreamOK(s) /\ IsAhead(s) BY <1>2, <2>1, <2>2, <2>3, ChunkRead
  <2>8. s.about = r.about /\ s.at = "reading" /\ s.end = "none" BY <1>3, <2>1, <2>3 DEF NewStream
  <2>9. Justified(s, Bounded, JudgesFaults, Live(i)) BY <2>8, StillReading
  <2> QED BY <1>5, <2>1, <2>6, <2>7, <2>8, <2>9
<1>8. CASE ReadEnd(i)
  <2>1. r.at = "reading" /\ r.end = "none" /\ r.wire # <<>> /\ Head(r.wire) = "closed"
    BY <1>2, <1>8 DEF ReadEnd, Ready, Got, r, Justified
  <2>2. PICK n \in Nat : n = r.shown + (IF r.held = "record" THEN 1 ELSE 0)
    <3>1. r.shown \in Nat BY <1>3
    <3>2. r.shown + (IF r.held = "record" THEN 1 ELSE 0) \in Nat BY <3>1
    <3> QED BY <3>2
  <2>3. PICK a, e : /\ a = IF r.held = "part" THEN "asking" ELSE "over"
                    /\ e = IF r.held = "part" THEN "fault" ELSE "finished"
    OBVIOUS
  <2>4. PICK s : s = [r EXCEPT !.wire = <<>>, !.shown = n, !.at = a, !.end = e] OBVIOUS
  <2>5. lines' = [lines EXCEPT ![i] = s] BY <1>3, <1>8, <2>2, <2>3, <2>4 DEF ReadEnd, r
  <2>6. /\ s.wire = <<>> /\ s.shown = n /\ s.at = a /\ s.end = e /\ s.about = r.about /\ s.held = r.held
        /\ s.half = r.half /\ s.sent = r.sent /\ s.wrote = r.wrote /\ DOMAIN s = DOMAIN r
    BY <1>3, <2>4 DEF NewStream
  <2>7. StreamOK(s) BY <1>3, <2>3, <2>6, EmptySeq DEF StreamOK
  <2>8. IsAhead(s) BY <2>3, <2>6 DEF IsAhead
  <2>9. e = "finished" => n = r.wrote BY <1>2, <2>1, <2>2, <2>3, ClosedIsWhole
  <2>10. Justified(s, Bounded, JudgesFaults, Live(i)) BY <2>3, <2>6, <2>9 DEF Justified
  <2> QED BY <1>5, <2>1, <2>5, <2>6, <2>7, <2>8, <2>10
<1>9. CASE ReadError(i)
  <2>1. r.at = "reading" BY <1>9 DEF ReadError, Ready, r
  <2>2. PICK e \in {"severed", "fault"} : e = IF Got(i) = "cut" THEN "severed" ELSE "fault" OBVIOUS
  <2>3. PICK s : s = [r EXCEPT !.wire = <<>>, !.at = "asking", !.end = e] OBVIOUS
  <2>4. lines' = [lines EXCEPT ![i] = s] BY <1>3, <1>9, <2>2, <2>3 DEF ReadError, r
  <2>5. /\ s.wire = <<>> /\ s.at = "asking" /\ s.end = e /\ s.about = r.about
        /\ s.held = r.held /\ s.half = r.half /\ s.sent = r.sent /\ s.wrote = r.wrote /\ s.shown = r.shown
        /\ DOMAIN s = DOMAIN r
    BY <1>3, <2>3 DEF NewStream
  <2>6. StreamOK(s) BY <1>3, <2>5, EmptySeq DEF StreamOK
  <2>7. IsAhead(s) /\ Justified(s, Bounded, JudgesFaults, Live(i)) BY <2>2, <2>5 DEF IsAhead, Justified
  <2> QED BY <1>5, <2>1, <2>4, <2>5, <2>6, <2>7
<1>10. CASE PipeGone(i)
  <2>1. r.at = "reading" BY <1>10 DEF PipeGone, Ready, r
  <2>2. PICK e \in {"unwanted", "lost"} : e = IF watch.cmd = "logs" THEN "unwanted" ELSE "lost" OBVIOUS
  <2>3. PICK s : s = [r EXCEPT !.at = "over", !.end = e] OBVIOUS
  <2>4. lines' = [lines EXCEPT ![i] = s] BY <1>3, <1>10, <2>2, <2>3 DEF PipeGone, CloseStream, r
  <2>5. s.at = "over" /\ s.end = e /\ s.about = r.about BY <1>3, <2>3 DEF NewStream
  <2>6. StreamOK(s) BY <1>3, <2>3 DEF StreamOK, NewStream
  <2>7. IsAhead(s) /\ Justified(s, Bounded, JudgesFaults, Live(i)) BY <2>2, <2>5 DEF IsAhead, Justified
  <2> QED BY <1>5, <2>1, <2>4, <2>5, <2>6, <2>7
<1>11. CASE Ask(i)
  <2>1. r.at = "asking" /\ watch.cmd # "events" BY <1>11 DEF Ask, r
  <2>2. PICK asked \in {"unknown", IF Live(i) THEN "running" ELSE "stopped"} :
           CloseStream(i, IF (IF JudgesFaults THEN StreamLostOutput(r.end, Bounded, asked)
                                            ELSE StreamBrokeMidOutput(asked))
                        THEN "lost" ELSE IF r.end = "fault" THEN "overlooked" ELSE "stopped")
    BY <1>11 DEF Ask, r
  <2>3. PICK e \in {"lost", "overlooked", "stopped"} :
           e = IF (IF JudgesFaults THEN StreamLostOutput(r.end, Bounded, asked) ELSE StreamBrokeMidOutput(asked))
               THEN "lost" ELSE IF r.end = "fault" THEN "overlooked" ELSE "stopped"
    OBVIOUS
  <2>4. /\ e = "stopped" => ~Bounded /\ ~Live(i)
        /\ e = "overlooked" => ~JudgesFaults /\ ~Live(i)
    <3>1. ~JudgesFaults => ~Bounded BY <1>4, <2>1 DEF JudgesFaults, Bounded
    <3>2. e # "lost" => asked = "stopped" BY <2>3 DEF StreamLostOutput, StreamBrokeMidOutput
    <3>3. e # "lost" /\ JudgesFaults => ~Bounded /\ r.end # "fault" BY <2>3 DEF StreamLostOutput
    <3>4. asked = "stopped" => ~Live(i) BY <2>2
    <3>5. e = "overlooked" => r.end = "fault" BY <2>3
    <3> QED BY <3>1, <3>2, <3>3, <3>4, <3>5
  <2>5. PICK s : s = [r EXCEPT !.at = "over", !.end = e] OBVIOUS
  <2>6. lines' = [lines EXCEPT ![i] = s] BY <1>3, <2>2, <2>3, <2>5 DEF CloseStream, r
  <2>7. s.at = "over" /\ s.end = e /\ s.about = r.about BY <1>3, <2>5 DEF NewStream
  <2>8. StreamOK(s) BY <1>3, <2>5 DEF StreamOK, NewStream
  <2>9. IsAhead(s) /\ Justified(s, Bounded, JudgesFaults, Live(i)) BY <2>3, <2>4, <2>7 DEF IsAhead, Justified
  <2> QED BY <1>5, <2>1, <2>6, <2>7, <2>8, <2>9
<1> QED BY <1>6, <1>7, <1>8, <1>9, <1>10, <1>11

-----------------------------------------------------------------------------
\* A stream that was just opened has nothing to account for.
LEMMA NewStreamOK ==
  ASSUME NEW name, NEW about, NEW b, NEW g, NEW l
  PROVE  /\ StreamOK(NewStream(name, about)) /\ IsAhead(NewStream(name, about))
         /\ Justified(NewStream(name, about), b, g, l) /\ NewStream(name, about).at = "unopened"
<1>1. PICK s : s = NewStream(name, about) OBVIOUS
<1>2. /\ s.at = "unopened" /\ s.wrote = 0 /\ s.sent = 0 /\ s.shown = 0 /\ s.half = FALSE
      /\ s.held = "nothing" /\ s.wire = <<>> /\ s.end = "none" /\ DOMAIN s = DOMAIN NewStream("", {})
  BY <1>1 DEF NewStream
<1>3. StreamOK(s)
  <2>1. s.wire \in Seq(FollowChunks) BY <1>2, EmptySeq
  <2>2. s.half \in BOOLEAN BY <1>2
  <2>3. s.wrote \in Nat /\ s.sent \in Nat /\ s.shown \in Nat
    <3>1. s.wrote = 0 /\ s.sent = 0 /\ s.shown = 0 BY <1>2, Zenon
    <3> QED BY <3>1
  <2>4. s.held \in Holdings BY <1>2 DEF Holdings
  <2> QED BY <1>2, <2>1, <2>2, <2>3, <2>4, Zenon DEF StreamOK
<1>4. IsAhead(s) /\ Justified(s, b, g, l) BY <1>2 DEF IsAhead, Justified
<1> QED BY <1>1, <1>2, <1>3, <1>4

\* Nothing is followed yet.
LEMMA FollowInitIInv == FollowInit => FollowIInv
<1> SUFFICES ASSUME FollowInit PROVE FollowIInv OBVIOUS
<1>1. watch \in Follows /\ lines = <<>> /\ listed = TRUE /\ fphase = "start" BY DEF FollowInit
<1>2. DOMAIN lines = {} BY <1>1
<1>3. FollowTypeOK /\ SentIsAhead /\ EndsJustified BY <1>1, <1>2 DEF FollowTypeOK, SentIsAhead, EndsJustified
<1>4. Settled BY <1>1 DEF Settled
<1>5. FollowAccounted BY <1>1 DEF FollowAccounted, LossIsReported, NoFalseAlarm, FollowDone
<1> QED BY <1>3, <1>4, <1>5 DEF FollowIInv

\* The command begins, opens its streams, or is refused one.
LEMMA StartSteps ==
  ASSUME FollowIInv, RefuseFollow \/ FollowStart
  PROVE  FollowIInv'
<1> USE DEF FollowIInv
<1>1. watch' = watch /\ up' = up /\ fphase = "start" /\ lines = <<>> /\ listed \in BOOLEAN /\ watch \in Follows
      /\ (watch.cmd \in {"events", "foreground"} => listed)
  BY DEF RefuseFollow, FollowStart, Settled, FollowTypeOK
<1>2. CASE RefuseFollow
  <2>1. lines' = <<>> /\ listed' = listed /\ fphase' = "done" /\ fresult' = "refused"
    BY <1>1, <1>2 DEF RefuseFollow, EndFollow
  <2>2. DOMAIN lines' = {} BY <2>1
  <2>3. (FollowTypeOK /\ SentIsAhead /\ EndsJustified)'
    BY <1>1, <2>1, <2>2 DEF FollowTypeOK, SentIsAhead, EndsJustified
  <2>4. Settled' BY <1>1, <2>1, <2>2 DEF Settled
  <2>5. FollowAccounted' BY <2>1 DEF FollowAccounted, LossIsReported, NoFalseAlarm, FollowDone
  <2> QED BY <2>3, <2>4, <2>5
<1>3. CASE FollowStart
  <2>1. PICK ok \in BOOLEAN :
         /\ listed' = (ok \/ watch.cmd \in {"events", "foreground"})
         /\ lines' = CASE watch.cmd = "events" -> <<NewStream("feed", {})>>
                       [] watch.cmd = "foreground" -> StreamsOf(LogTargets)
                       [] watch.cmd = "stats" /\ ok /\ Sampled # {} -> <<NewStream("stats", Sampled)>>
                       [] watch.cmd = "logs" /\ ok -> StreamsOf(LogTargets)
                       [] watch.cmd = "console" /\ ok -> StreamsOf(SelectSeq(LogTargets, LAMBDA c : c \in up))
                       [] OTHER -> <<>>
    BY <1>3 DEF FollowStart
  <2>2. fphase' = "reading" BY <1>3 DEF FollowStart
  <2>3. ASSUME NEW names, lines' = StreamsOf(names)
        PROVE  /\ lines' = <<>> \/ DOMAIN lines' # {}
               /\ \A i \in DOMAIN lines' : \E n, a : lines'[i] = NewStream(n, a)
    <3>1. DOMAIN lines' = DOMAIN names /\ \A i \in DOMAIN names : lines'[i] = NewStream(names[i], {names[i]})
      BY <2>3 DEF StreamsOf
    <3>2. ASSUME DOMAIN names = {} PROVE lines' = <<>> BY <2>3, <3>2 DEF StreamsOf
    <3> QED BY <3>1, <3>2
  <2>4. ASSUME NEW s, lines' = <<s>>, \E n, a : s = NewStream(n, a)
        PROVE  /\ lines' = <<>> \/ DOMAIN lines' # {}
               /\ \A i \in DOMAIN lines' : \E n, a : lines'[i] = NewStream(n, a)
    BY <2>4
  <2>5. ASSUME lines' = <<>>
        PROVE  /\ lines' = <<>> \/ DOMAIN lines' # {}
               /\ \A i \in DOMAIN lines' : \E n, a : lines'[i] = NewStream(n, a)
    BY <2>5
  <2>6. /\ lines' = <<>> \/ DOMAIN lines' # {}
        /\ \A i \in DOMAIN lines' : \E n, a : lines'[i] = NewStream(n, a)
    <3>1. CASE watch.cmd = "events" BY <2>1, <2>4, <3>1
    <3>2. CASE watch.cmd = "foreground" BY <2>1, <2>3, <3>2
    <3>3. CASE watch.cmd = "stats" /\ ok /\ Sampled # {} BY <2>1, <2>4, <3>3
    <3>4. CASE watch.cmd = "logs" /\ ok BY <2>1, <2>3, <3>4
    <3>5. CASE watch.cmd = "console" /\ ok BY <2>1, <2>3, <3>5
    <3>6. CASE ~(\/ watch.cmd \in {"events", "foreground"}
                 \/ watch.cmd = "stats" /\ ok /\ Sampled # {}
                 \/ watch.cmd \in {"logs", "console"} /\ ok)
      BY <2>1, <2>5, <3>6
    <3> QED BY <3>1, <3>2, <3>3, <3>4, <3>5, <3>6
  <2>7. \A i \in DOMAIN lines' : StreamOK(lines'[i]) /\ IsAhead(lines'[i])
            /\ Justified(lines'[i], Bounded', JudgesFaults', Live(i)')
    BY <2>6, NewStreamOK
  <2>8. lines' # <<>> \/ watch'.cmd \in {"events", "foreground"} => listed' BY <1>1, <2>1
  <2>9. (FollowTypeOK /\ SentIsAhead /\ EndsJustified)'
    BY <1>1, <2>1, <2>2, <2>6, <2>7 DEF FollowTypeOK, SentIsAhead, EndsJustified
  <2>12. watch'.cmd = "events" => \A i, j \in DOMAIN lines' : i = j
    <3>1. SUFFICES ASSUME watch.cmd = "events" PROVE \A i, j \in DOMAIN lines' : i = j BY <1>1
    <3>2. lines' = <<NewStream("feed", {})>> BY <2>1, <3>1
    <3>3. DOMAIN lines' = {1} BY <3>2
    <3> QED BY <3>3
  <2>10. Settled' BY <2>2, <2>8, <2>12 DEF Settled
  <2>11. FollowAccounted' BY <2>2 DEF FollowAccounted, LossIsReported, NoFalseAlarm, FollowDone
  <2> QED BY <2>9, <2>10, <2>11
<1> QED BY <1>2, <1>3

\* A container that stops writes no more.
LEMMA ContainerStops ==
  ASSUME FollowIInv, NEW c \in up, Stops(c)
  PROVE  FollowIInv'
<1> USE DEF FollowIInv
<1>1. watch' = watch /\ lines' = lines /\ listed' = listed /\ fphase' = "reading" /\ up' = up \ {c}
  BY DEF Stops
<1>2. Bounded' = Bounded /\ JudgesFaults' = JudgesFaults BY <1>1 DEF Bounded, JudgesFaults
<1>3. \A i \in DOMAIN lines : Live(i)' => Live(i) BY <1>1 DEF Live
<1>4. (FollowTypeOK /\ SentIsAhead)' BY <1>1 DEF FollowTypeOK, SentIsAhead
<1>5. EndsJustified' BY <1>1, <1>2, <1>3 DEF EndsJustified, Justified
<1>6. Settled' BY <1>1 DEF Settled
<1>7. FollowAccounted' BY <1>1 DEF FollowAccounted, LossIsReported, NoFalseAlarm, FollowDone
<1> QED BY <1>4, <1>5, <1>6, <1>7

\* What the command says is what the ends of its streams were.
LEMMA EndSteps ==
  ASSUME FollowIInv, FollowEnds \/ EventsBroke
  PROVE  FollowIInv'
<1> USE DEF FollowIInv
<1>1. watch' = watch /\ up' = up /\ lines' = lines /\ listed' = listed /\ fphase' = "done"
  BY DEF FollowEnds, EventsBroke, EndFollow
<1>2. Bounded' = Bounded /\ JudgesFaults' = JudgesFaults /\ \A i \in DOMAIN lines : Live(i)' = Live(i)
  BY <1>1 DEF Bounded, JudgesFaults, Live
<1>3. (FollowTypeOK /\ SentIsAhead /\ EndsJustified)'
  BY <1>1, <1>2 DEF FollowTypeOK, SentIsAhead, EndsJustified
<1>4. watch.cmd \in {"logs", "console", "foreground", "stats", "events"} BY FollowAssumption DEF FollowTypeOK
<1>5. Ends' = Ends BY <1>1 DEF Ends
<1>6. \A i \in DOMAIN lines : Justified(lines[i], Bounded, JudgesFaults, Live(i)) BY DEF EndsJustified
<1>7. CASE EventsBroke
  <2>1. fresult' = "error" /\ watch.cmd = "events" BY <1>7 DEF EventsBroke, EndFollow
  <2>2. PICK i \in DOMAIN lines : lines[i].at = "asking" BY <1>7 DEF EventsBroke
  <2>3. lines[i].end \in {"fault", "severed"} /\ lines[i].end \in Ends BY <1>6, <2>2 DEF Justified, Ends
  <2>4. FollowAccounted' BY <1>1, <1>5, <2>1, <2>3 DEF FollowAccounted, LossIsReported, NoFalseAlarm, FollowDone
  <2>5. Settled' BY <1>1, <2>1, <2>2 DEF Settled
  <2> QED BY <1>3, <2>4, <2>5
<1>8. CASE FollowEnds
  <2>1. \A i \in DOMAIN lines : Over(i) BY <1>8 DEF FollowEnds, AllOver
  <2>2. Settled' BY <1>1, <2>1 DEF Settled, Over
  <2>3. fresult' = CASE watch.cmd = "logs"       -> LogsResult
                     [] watch.cmd = "foreground" -> ForegroundResult
                     [] watch.cmd = "console"    -> ConsoleResult
                     [] watch.cmd = "events"     -> EventsResult
                     [] watch.cmd = "stats"      -> OneStreamResult
    BY <1>8 DEF FollowEnds, EndFollow
  <2>4. \A i \in DOMAIN lines : lines[i].end \in Ends BY DEF Ends
  <2>5. \A i \in DOMAIN lines :
           lines[i].end \in {"not_opened", "finished", "unwanted", "lost", "stopped", "overlooked"}
    BY <1>6, <2>1 DEF Over, Justified
  <2>6. lines # <<>> => \E i \in DOMAIN lines : TRUE BY DEF FollowTypeOK
  <2>7. ASSUME fresult' = "ok"
        PROVE  "lost" \notin Ends /\ listed /\ (lines # <<>> => \E i \in DOMAIN lines : Opened(i))
    <3>1. ASSUME watch.cmd = "logs"
          PROVE  "lost" \notin Ends /\ listed /\ (lines # <<>> => \E i \in DOMAIN lines : Opened(i))
      <4>1. LogsResult = "ok" BY <2>3, <2>7, <3>1
      <4>2. "lost" \notin Ends /\ ~(Ends \subseteq {"not_opened"} /\ Ends # {}) /\ ~(lines = <<>> /\ ~listed)
        BY <4>1 DEF LogsResult
      <4>3. listed BY <4>2 DEF Settled
      <4>4. ASSUME lines # <<>> PROVE \E i \in DOMAIN lines : Opened(i)
        <5>1. PICK e \in Ends : e # "not_opened" BY <2>4, <2>6, <4>2, <4>4
        <5> QED BY <5>1 DEF Ends, Opened
      <4> QED BY <4>2, <4>3, <4>4
    <3>2. ASSUME "lost" \notin Ends, "not_opened" \notin Ends, listed
          PROVE  "lost" \notin Ends /\ listed /\ (lines # <<>> => \E i \in DOMAIN lines : Opened(i))
      BY <2>4, <2>6, <3>2 DEF Opened
    <3>3. ASSUME watch.cmd = "foreground" PROVE "lost" \notin Ends /\ "not_opened" \notin Ends /\ listed
      <4>1. ForegroundResult = "ok" BY <2>3, <2>7, <3>3
      <4> QED BY <3>3, <4>1 DEF ForegroundResult, Settled
    <3>4. ASSUME watch.cmd \in {"console", "events", "stats"}
          PROVE  "lost" \notin Ends /\ "not_opened" \notin Ends /\ listed
      <4>1. OneStreamResult = "ok" BY <2>3, <2>7, <3>4 DEF ConsoleResult, EventsResult
      <4> QED BY <4>1 DEF OneStreamResult
    <3> QED BY <1>4, <3>1, <3>2, <3>3, <3>4
  <2>8. LossIsReported'
    <3>1. SUFFICES ASSUME fresult' = "ok" PROVE LossIsReported' BY DEF LossIsReported
    <3>2. "lost" \notin Ends /\ listed /\ (lines # <<>> => \E i \in DOMAIN lines : Opened(i)) BY <2>7, <3>1
    <3>3. ASSUME NEW i \in DOMAIN lines, Opened(i), lines[i].end # "unwanted"
          PROVE  Whole(i) \/ StoppedByNow(i) \/ Overlooked(i)
      <4>1. lines[i].end \in {"finished", "stopped", "overlooked"} BY <2>4, <2>5, <3>2, <3>3 DEF Opened
      <4> QED BY <1>6, <4>1 DEF Justified, Whole, StoppedByNow, Overlooked
    <3>4. \A i \in DOMAIN lines : /\ Whole(i)' = Whole(i) /\ Opened(i)' = Opened(i)
                                  /\ StoppedByNow(i)' = StoppedByNow(i) /\ Overlooked(i)' = Overlooked(i)
      BY <1>1, <1>2 DEF Whole, Opened, StoppedByNow, Overlooked
    <3> QED BY <1>1, <1>2, <3>2, <3>3, <3>4 DEF LossIsReported
  <2>9. NoFalseAlarm'
    <3>1. SUFFICES ASSUME listed, lines # <<>>, Ends \subseteq {"finished", "unwanted"}
                   PROVE  fresult' = "ok" <=> watch.cmd # "events" \/ Bounded
      BY <1>1, <1>2, <1>5 DEF NoFalseAlarm
    <3>2. "lost" \notin Ends /\ "not_opened" \notin Ends /\ ~(Ends \subseteq {"not_opened"} /\ Ends # {})
      BY <3>1
    <3>3. LogsResult = "ok" /\ ForegroundResult = "ok" /\ OneStreamResult = "ok" /\ ConsoleResult = "ok"
      BY <3>1, <3>2 DEF LogsResult, ForegroundResult, OneStreamResult, ConsoleResult
    <3>4. EventsResult = "ok" <=> Bounded BY <3>3 DEF EventsResult
    <3> QED BY <1>4, <2>3, <3>3, <3>4
  <2> QED BY <1>3, <2>2, <2>8, <2>9 DEF FollowAccounted
<1> QED BY <1>7, <1>8

\* The invariant of the streams is inductive.
LEMMA FollowNextIInv == FollowIInv /\ [FollowNext]_followVars => FollowIInv'
<1> SUFFICES ASSUME FollowIInv, [FollowNext]_followVars PROVE FollowIInv' OBVIOUS
<1>1. CASE RefuseFollow \/ FollowStart BY <1>1, StartSteps
<1>2. CASE FollowEnds \/ EventsBroke BY <1>2, EndSteps
<1>3. CASE \E c \in up : Stops(c) BY <1>3, ContainerStops
<1>4. ASSUME NEW i \in DOMAIN lines,
             RecordWritten(i) \/ RecordSent(i) \/ AnswerEnds(i) \/ AnswerBreaks(i)
      PROVE  FollowIInv'
  BY <1>4, ServerSteps
<1>5. ASSUME NEW i \in DOMAIN lines,
             OpenStream(i) \/ ReadRecord(i) \/ ReadEnd(i) \/ ReadError(i) \/ PipeGone(i) \/ Ask(i)
      PROVE  FollowIInv'
  BY <1>5, ClientSteps
<1>6. CASE UNCHANGED followVars
  <2>1. watch' = watch /\ up' = up /\ lines' = lines /\ listed' = listed /\ fphase' = fphase /\ fresult' = fresult
    BY <1>6 DEF followVars
  <2>2. Bounded' = Bounded /\ JudgesFaults' = JudgesFaults /\ \A i \in DOMAIN lines : Live(i)' = Live(i)
    BY <2>1 DEF Bounded, JudgesFaults, Live
  <2>3. (FollowTypeOK /\ SentIsAhead /\ EndsJustified /\ Settled)'
    BY <2>1, <2>2 DEF FollowIInv, FollowTypeOK, SentIsAhead, EndsJustified, Settled, Over
  <2>4. FollowAccounted'
    BY <2>1, <2>2 DEF FollowIInv, FollowAccounted, LossIsReported, NoFalseAlarm, FollowDone, Whole, Opened,
                      StoppedByNow, Overlooked, Ends
  <2> QED BY <2>3, <2>4 DEF FollowIInv
<1> QED BY <1>1, <1>2, <1>3, <1>4, <1>5, <1>6 DEF FollowNext

(* Whoever follows containers is told of output that was lost, however the  *)
(* server cuts the stream, but for that of a container that had stopped by  *)
(* the time it was asked for: behind a lost connection, or, under `up` and  *)
(* `stats`, in a record that could not be read; and a command whose streams *)
(* ended in order does not fail (libpod/stream, logs, stats, attach).       *)
THEOREM FollowIsAccounted == FollowSpec => []FollowAccounted
<1>1. FollowIInv => FollowAccounted BY DEF FollowIInv
<1> QED BY FollowInitIInv, FollowNextIInv, <1>1, PTL DEF FollowSpec

-----------------------------------------------------------------------------
(* The one-off run, for every service, flags and host it may be asked for. *)

\* The fields of the service that the flags are applied to, each in turn.
LEMMA FlagsApplied ==
  ASSUME rjob \in Oneoffs
  PROVE  /\ ServiceFields \subseteq DOMAIN Overridden
         /\ Overridden.volumes = rjob.service.volumes \o rjob.volumes
         /\ Overridden.pre_start = rjob.service.pre_start
         /\ Overridden.env_file = rjob.service.env_file
         /\ Overridden.restart = "no"
         /\ Overridden.ports = (IF rjob.servicePorts THEN rjob.service.ports ELSE <<>>) \o rjob.publish
         /\ Overridden.labels = Above(MapOf(Append(rjob.labels, <<"podup.oneoff", "true">>)), rjob.service.labels)
         /\ Overridden.environment =
              IF DOMAIN Layers(rjob.envFiles) = {} /\ rjob.env = <<>> THEN rjob.service.environment
              ELSE merge_run_environment(Layers(rjob.envFiles), rjob.service.environment, rjob.env)
         /\ rjob.entry.given => Overridden.entrypoint # <<>> /\ Overridden.command = rjob.cmd
<1> DEFINE a == apply_entrypoint_and_command(rjob.service, rjob.entry, rjob.cmd)
           s == run_once(a)
<1>1. ServiceFields \subseteq DOMAIN rjob.service BY OneoffAssumption
<1>2. /\ DOMAIN a = DOMAIN rjob.service
      /\ \A f \in ServiceFields \ {"entrypoint", "command"} : a[f] = rjob.service[f]
      /\ rjob.entry.given => a.entrypoint # <<>> /\ a.command = rjob.cmd
  <2>1. << <<>> >> # <<>> OBVIOUS
  <2> QED BY <1>1, <2>1 DEF ServiceFields, apply_entrypoint_and_command
<1>3. /\ DOMAIN s = DOMAIN a /\ s.restart = "no"
      /\ \A f \in ServiceFields \ {"restart"} : s[f] = a[f]
  BY <1>1, <1>2 DEF ServiceFields, run_once
<1>4. /\ DOMAIN s = DOMAIN rjob.service /\ s.restart = "no"
      /\ \A f \in ServiceFields \ {"entrypoint", "command", "restart"} : s[f] = rjob.service[f]
      /\ rjob.entry.given => s.entrypoint # <<>> /\ s.command = rjob.cmd
  BY <1>2, <1>3 DEF ServiceFields
<1>5. Overridden = [s EXCEPT
          !.user = IF rjob.user # "" THEN rjob.user ELSE @,
          !.working_dir = IF rjob.workdir # "" THEN rjob.workdir ELSE @,
          !.stdin_open = @ \/ rjob.interactive \/ wants_interactive_run,
          !.tty = wants_interactive_run,
          !.volumes = @ \o rjob.volumes,
          !.labels = Above(MapOf(Append(rjob.labels, <<"podup.oneoff", "true">>)), @),
          !.environment = IF DOMAIN Layers(rjob.envFiles) = {} /\ rjob.env = <<>> THEN @
                          ELSE merge_run_environment(Layers(rjob.envFiles), @, rjob.env),
          !.ports = (IF rjob.servicePorts THEN @ ELSE <<>>) \o rjob.publish]
  BY DEF Overridden
<1> HIDE DEF a, s
<1> QED BY <1>1, <1>4, <1>5 DEF ServiceFields

\* The label of a one-off is above those of the user.
LEMMA LabelledOneOff ==
  ASSUME rjob \in Oneoffs
  PROVE  Overridden.labels["podup.oneoff"] = "true"
<1> DEFINE list == Append(rjob.labels, <<"podup.oneoff", "true">>)
           n == Len(rjob.labels) + 1
           S == {i \in DOMAIN list : list[i][1] = "podup.oneoff"}
<1>1. rjob.labels \in Seq(STRING \X STRING) BY OneoffAssumption
<1>2. DOMAIN list = 1 .. n /\ list[n] = <<"podup.oneoff", "true">> /\ n \in Nat BY <1>1
<1>3. n \in S /\ S \subseteq 1 .. n BY <1>2
<1>4. Max(S) = n
  <2>1. \A x \in S : x \in Nat /\ x <= n BY <1>2, <1>3
  <2>2. n \in S /\ \A y \in S : n >= y BY <1>3, <2>1
  <2>3. Max(S) \in S /\ \A y \in S : Max(S) >= y BY <2>2 DEF Max
  <2> HIDE DEF S, list, n
  <2>4. Max(S) >= n /\ n >= Max(S) /\ Max(S) \in Nat BY <2>1, <2>2, <2>3
  <2> QED BY <1>2, <2>4
<1>5. "podup.oneoff" \in DOMAIN MapOf(list) BY <1>2 DEF MapOf
<1>6. MapOf(list)["podup.oneoff"] = list[Max(S)][2] BY <1>5 DEF MapOf
<1>7. MapOf(list)["podup.oneoff"] = "true"
  <2>1. list[n][2] = "true" BY <1>2
  <2> HIDE DEF S, list, n
  <2> QED BY <1>4, <1>6, <2>1
<1>8. Above(MapOf(list), rjob.service.labels)["podup.oneoff"] = "true" BY <1>5, <1>7 DEF Above
<1> QED BY <1>8, FlagsApplied

\* A variable has the value the flags, the service and the files give it, in
\* that order, with the host's for one that is bare.
LEMMA EnvironmentOf ==
  ASSUME rjob \in Oneoffs, NEW k
  PROVE  LET e == OneoffEnv(Overridden, rjob.host)
         IN  (IF k \in DOMAIN e THEN {e[k]} ELSE {}) = ValueOf(k)
<1> DEFINE said == {i \in DOMAIN rjob.env : rjob.env[i][1] = k}
           files == {i \in DOMAIN rjob.envFiles : k \in DOMAIN rjob.envFiles[i]}
           flags == MapOf(rjob.env)
           layers == Layers(rjob.envFiles)
           env == Overridden.environment
           service == rjob.service.environment
           below == rjob.service.env_file
           merged == Above(env, below)
           e == OneoffEnv(Overridden, rjob.host)
<1>1. /\ k \in DOMAIN flags <=> said # {}
      /\ said # {} => flags[k] = rjob.env[Max(said)][2]
  <2>1. k \in DOMAIN flags <=> said # {} BY DEF MapOf
  <2> QED BY <2>1 DEF MapOf
<1>2. /\ k \in DOMAIN layers <=> files # {}
      /\ files # {} => layers[k] = rjob.envFiles[Max(files)][k]
  <2>1. k \in DOMAIN layers <=> files # {} BY DEF Layers
  <2> QED BY <2>1 DEF Layers
<1>3. /\ k \in DOMAIN env <=> said # {} \/ k \in DOMAIN service \/ files # {}
      /\ said # {} => env[k] = rjob.env[Max(said)][2]
      /\ said = {} /\ k \in DOMAIN service => env[k] = service[k]
      /\ said = {} /\ k \notin DOMAIN service /\ files # {} => env[k] = rjob.envFiles[Max(files)][k]
  <2>1. CASE DOMAIN layers = {} /\ rjob.env = <<>>
    <3>1. env = service BY <2>1, FlagsApplied
    <3>2. said = {} /\ files = {} BY <1>2, <2>1
    <3> QED BY <3>1, <3>2
  <2>2. CASE ~(DOMAIN layers = {} /\ rjob.env = <<>>)
    <3>1. env = Above(flags, Above(service, layers)) BY <2>2, FlagsApplied DEF merge_run_environment
    <3> HIDE DEF flags, layers, service, env, said, files
    <3>2. /\ DOMAIN env = DOMAIN flags \cup DOMAIN service \cup DOMAIN layers
          /\ k \in DOMAIN flags => env[k] = flags[k]
          /\ k \notin DOMAIN flags /\ k \in DOMAIN service => env[k] = service[k]
          /\ k \notin DOMAIN flags /\ k \notin DOMAIN service /\ k \in DOMAIN layers => env[k] = layers[k]
      BY <3>1 DEF Above
    <3> QED BY <1>1, <1>2, <3>2 DEF said, files
  <2> QED BY <2>1, <2>2
<1>4. /\ said # {} => SaidOf(k) = {rjob.env[Max(said)][2]}
      /\ said = {} /\ k \in DOMAIN service => SaidOf(k) = {service[k]}
      /\ said = {} /\ k \notin DOMAIN service /\ files # {} => SaidOf(k) = {rjob.envFiles[Max(files)][k]}
      /\ said = {} /\ k \notin DOMAIN service /\ files = {} =>
           SaidOf(k) = IF k \in DOMAIN below THEN {below[k]} ELSE {}
  BY DEF SaidOf
<1>5. e = [v \in {v \in DOMAIN merged : merged[v] # Bare \/ v \in DOMAIN rjob.host} |->
              IF merged[v] = Bare THEN rjob.host[v] ELSE merged[v]]
  BY FlagsApplied DEF OneoffEnv
<1>6. DOMAIN merged = DOMAIN env \cup DOMAIN below
      /\ (k \in DOMAIN merged => merged[k] = IF k \in DOMAIN env THEN env[k] ELSE below[k])
  BY DEF Above
<1> HIDE DEF said, files, flags, layers, env, service, below, merged, e
<1>7. SaidOf(k) = IF k \in DOMAIN merged THEN {merged[k]} ELSE {}
  <2>1. CASE said # {} BY <1>3, <1>4, <1>6, <2>1
  <2>2. CASE said = {} /\ k \in DOMAIN service BY <1>3, <1>4, <1>6, <2>2
  <2>3. CASE said = {} /\ k \notin DOMAIN service /\ files # {} BY <1>3, <1>4, <1>6, <2>3
  <2>4. CASE said = {} /\ k \notin DOMAIN service /\ files = {} BY <1>3, <1>4, <1>6, <2>4
  <2> QED BY <2>1, <2>2, <2>3, <2>4
<1>8. ValueOf(k) = IF SaidOf(k) = {Bare} THEN (IF k \in DOMAIN rjob.host THEN {rjob.host[k]} ELSE {}) ELSE SaidOf(k)
  BY DEF ValueOf
<1>9. (IF k \in DOMAIN e THEN {e[k]} ELSE {}) = ValueOf(k)
  <2>1. CASE k \notin DOMAIN merged BY <1>5, <1>7, <1>8, <2>1
  <2>2. CASE k \in DOMAIN merged /\ merged[k] # Bare BY <1>5, <1>7, <1>8, <2>2
  <2>3. CASE k \in DOMAIN merged /\ merged[k] = Bare BY <1>5, <1>7, <1>8, <2>3
  <2> QED BY <2>1, <2>2, <2>3
<1> QED BY <1>9 DEF e

\* The service the container is made of is the one asked for.
LEMMA MadeAsAsked ==
  ASSUME rjob \in Oneoffs, rspec = ResolvedSpec
  PROVE  AsAsked
<1>1. ServiceFields \subseteq DOMAIN Overridden BY FlagsApplied
<1>2. /\ rspec.environment = OneoffEnv(Overridden, rjob.host)
      /\ \A f \in ServiceFields \ {"environment"} : rspec[f] = Overridden[f]
  BY <1>1 DEF ResolvedSpec, ServiceFields
<1>3. \A k \in rjob.keys :
         (IF k \in DOMAIN rspec.environment THEN {rspec.environment[k]} ELSE {}) = ValueOf(k)
  BY <1>2, EnvironmentOf
<1>4. rjob.entry.given => rspec.entrypoint # <<>> /\ rspec.command = rjob.cmd
  BY <1>2, FlagsApplied DEF ServiceFields
<1>5. rspec.labels["podup.oneoff"] = "true" /\ rspec.restart = "no"
  BY <1>2, FlagsApplied, LabelledOneOff DEF ServiceFields
<1>6. ~rjob.servicePorts => rspec.ports = rjob.publish
  <2>1. rjob.publish \in Seq(Nat) BY OneoffAssumption
  <2>2. <<>> \o rjob.publish = rjob.publish BY <2>1
  <2> QED BY <1>2, <2>2, FlagsApplied DEF ServiceFields
<1> QED BY <1>3, <1>4, <1>5, <1>6 DEF AsAsked

\* What is mounted depends on the volumes and the init steps alone.
LEMMA SameMounts ==
  ASSUME ServiceFields \subseteq DOMAIN rspec, ServiceFields \subseteq DOMAIN rspec',
         rspec'.volumes = rspec.volumes, rspec'.pre_start = rspec.pre_start
  PROVE  Mounted' = Mounted
<1> DEFINE steps == rspec.pre_start
           had == pre_start_steps(rspec)
           has == pre_start_steps(rspec')
<1>1. /\ DOMAIN had = DOMAIN steps /\ DOMAIN has = DOMAIN steps
      /\ \A i \in DOMAIN steps : had[i].volumes = rspec.volumes \o steps[i] /\ has[i].volumes = rspec.volumes \o steps[i]
  BY DEF pre_start_steps, ServiceFields
<1> HIDE DEF had, has, steps
<1>2. \A i \in DOMAIN steps : named_volume_refs(had[i]) = named_volume_refs(has[i])
  BY <1>1 DEF named_volume_refs
<1>3. {named_volume_refs(t) : t \in ToSet(had)} = {named_volume_refs(t) : t \in ToSet(has)}
  <2>1. ToSet(had) = {had[i] : i \in DOMAIN steps} /\ ToSet(has) = {has[i] : i \in DOMAIN steps}
    BY <1>1 DEF ToSet
  <2> QED BY <1>2, <2>1
<1>4. Mounted = named_volume_refs(rspec) \cup UNION {named_volume_refs(t) : t \in ToSet(had)} BY DEF Mounted, had
<1>5. Mounted' = named_volume_refs(rspec') \cup UNION {named_volume_refs(t) : t \in ToSet(has)}
  BY DEF Mounted, has, named_volume_refs, pre_start_steps
<1>6. named_volume_refs(rspec') = named_volume_refs(rspec) BY DEF named_volume_refs
<1> QED BY <1>3, <1>4, <1>5, <1>6

\* The init steps are of the service without the flags: they mount nothing
\* that the volumes were not made for.
LEMMA InitStepsMount ==
  ASSUME rjob \in Oneoffs, rspec = Overridden, rinit = init_service(rjob.service, Overridden)
  PROVE  \A t \in ToSet(pre_start_steps(rinit)) : named_volume_refs(t) \subseteq Mounted
<1> DEFINE steps == rjob.service.pre_start
           base == rjob.service.volumes
           vols == base \o rjob.volumes
<1>1. /\ ServiceFields \subseteq DOMAIN rinit
      /\ rinit.volumes = base /\ rinit.pre_start = steps
  BY OneoffAssumption DEF init_service, ServiceFields
<1>2. /\ DOMAIN pre_start_steps(rinit) = DOMAIN steps
      /\ \A i \in DOMAIN steps : pre_start_steps(rinit)[i].volumes = base \o steps[i]
  BY <1>1 DEF pre_start_steps, ServiceFields
<1>3. ASSUME NEW t \in ToSet(pre_start_steps(rinit)) PROVE named_volume_refs(t) \subseteq Mounted
  <2>1. PICK i \in DOMAIN steps : t = pre_start_steps(rinit)[i] BY <1>2, <1>3 DEF ToSet
  <2>2. named_volume_refs(t) = ToSet(base \o steps[i]) BY <1>2, <2>1 DEF named_volume_refs
  <2>3. base \in Seq(STRING) /\ rjob.volumes \in Seq(STRING) /\ steps[i] \in Seq(STRING)
    <3>1. base \in Seq(STRING) /\ rjob.volumes \in Seq(STRING) BY OneoffAssumption
    <3>2. steps \in Seq(Seq(STRING)) BY OneoffAssumption
    <3> HIDE DEF steps
    <3>3. steps[i] \in Seq(STRING) BY <2>1, <3>2
    <3> QED BY <3>1, <3>3
  <2>4. ToSet(base \o steps[i]) \subseteq ToSet(vols \o steps[i])
    <3> SUFFICES ASSUME NEW v \in ToSet(base \o steps[i]) PROVE v \in ToSet(vols \o steps[i]) OBVIOUS
    <3> DEFINE s == steps[i]
               extra == rjob.volumes
    <3> HIDE DEF base, s, extra
    <3>1. PICK n \in DOMAIN (base \o s) : v = (base \o s)[n] BY DEF ToSet, s
    <3>2. base \in Seq(STRING) /\ extra \in Seq(STRING) /\ s \in Seq(STRING) BY <2>3 DEF s, extra
    <3>3. n \in 1 .. Len(base) + Len(s) BY <3>1, <3>2
    <3>4. CASE n <= Len(base)
      <4>1. n \in DOMAIN ((base \o extra) \o s) /\ ((base \o extra) \o s)[n] = base[n] BY <3>2, <3>3, <3>4
      <4>2. v = base[n] BY <3>1, <3>2, <3>3, <3>4
      <4> QED BY <4>1, <4>2 DEF ToSet, s, extra
    <3>5. CASE n > Len(base)
      <4> DEFINE m == n + Len(extra)
      <4>1. m \in DOMAIN ((base \o extra) \o s) /\ ((base \o extra) \o s)[m] = s[n - Len(base)]
        BY <3>2, <3>3, <3>5
      <4>2. v = s[n - Len(base)] BY <3>1, <3>2, <3>3, <3>5
      <4> QED BY <4>1, <4>2 DEF ToSet, s, extra
    <3> QED BY <3>3, <3>4, <3>5
  <2>5. ToSet(vols \o steps[i]) \subseteq Mounted
    <3>1. /\ ServiceFields \subseteq DOMAIN rspec /\ rspec.volumes = vols /\ rspec.pre_start = steps
      BY FlagsApplied
    <3> HIDE DEF vols, steps
    <3>2. DOMAIN pre_start_steps(rspec) = DOMAIN steps /\ pre_start_steps(rspec)[i].volumes = vols \o steps[i]
      BY <2>1, <3>1 DEF pre_start_steps, ServiceFields
    <3>3. pre_start_steps(rspec)[i] \in ToSet(pre_start_steps(rspec)) BY <2>1, <3>2 DEF ToSet
    <3>4. named_volume_refs(pre_start_steps(rspec)[i]) = ToSet(vols \o steps[i]) BY <3>2 DEF named_volume_refs
    <3> QED BY <3>3, <3>4 DEF Mounted
  <2> QED BY <2>2, <2>4, <2>5
<1> QED BY <1>3

\* Nothing is made when a run begins, and the name is free or somebody's.
LEMMA OneoffInitIInv == OneoffInit => OneoffIInv
<1> SUFFICES ASSUME OneoffInit PROVE OneoffIInv OBVIOUS
<1>0. /\ rjob \in Oneoffs /\ rphase = "resolve" /\ rresult = "none" /\ waits = 1
      /\ rdeps = [i \in DOMAIN rjob.needs |-> [k \in 1 .. rjob.needs[i].replicas |-> "none"]]
      /\ volumes = rjob.volumesThere /\ issued = 1 /\ meddles = 0 /\ cleared = {}
      /\ own.id = 0 /\ own.st = "none" /\ own.by = "none" /\ mine = 0 /\ following = 0 /\ exit = NoCode
      /\ cleanup = "none"
      /\ own \in [id : Nat, st : {"none", "created", "running", "exited", "gone"}, code : Nat,
                 by : {"none", "others", "run"}]
  BY DEF OneoffInit, OneoffStart, NoCode
<1>1. bearer \in [id : Nat, owner : {"none", "project", "other"}, st : {"none", "created", "running", "exited"},
                   code : Nat, since : {"none", "before", "checked", "looked", "run"}]
      /\ bearer.id \in {0, 1} /\ (bearer.id = 0 \/ bearer.owner = "none" => bearer = Nobody)
  <2>1. CASE rjob.found = "none"
    <3>1. bearer = Nobody BY <2>1 DEF OneoffInit, OneoffStart
    <3> QED BY <3>1 DEF Nobody
  <2>2. CASE rjob.found # "none"
    <3>1. bearer = [id |-> 1, owner |-> rjob.found, st |-> "running", code |-> 7, since |-> "before"]
      BY <2>2 DEF OneoffInit, OneoffStart
    <3>2. rjob.found \in {"none", "project", "other"} BY <1>0, OneoffAssumption
    <3>3. bearer.id = 1 /\ bearer.owner # "none" BY <2>2, <3>1
    <3>4. bearer \in [id : Nat, owner : {"none", "project", "other"}, st : {"none", "created", "running", "exited"},
                      code : Nat, since : {"none", "before", "checked", "looked", "run"}]
      BY <3>1, <3>2
    <3> QED BY <3>3, <3>4 DEF Nobody
  <2> QED BY <2>1, <2>2
<1>2. IdsAgree
  <2>1. /\ own.id = 0 /\ own.st = "none" /\ own.by = "none" /\ mine = 0 /\ issued = 1 BY <1>0
  <2> QED BY <1>1, <2>1 DEF IdsAgree, Nobody
<1>10. OneoffTypeOK
  <2>1. DOMAIN rdeps = DOMAIN rjob.needs /\ \A i \in DOMAIN rdeps : DOMAIN rdeps[i] = 1 .. rjob.needs[i].replicas
    BY <1>0
  <2>2. exit \in Nat BY <1>0 DEF NoCode
  <2> QED BY <1>0, <1>1, <2>1, <2>2 DEF OneoffTypeOK, Before, Nobody
<1> USE <1>0
<1>3. Staged BY DEF Staged, Made, NotStartedYet, Watched
<1>4. Cleared BY DEF Cleared
<1>5. DepsSeen BY DEF DepsSeen, Before
<1>6. Specified BY DEF Specified
<1>7. Provided BY DEF Provided
<1>8. CleansUp /\ OthersSpared BY DEF CleansUp, OthersSpared
<1>9. MountsReady BY OneoffAssumption DEF MountsReady
<1> QED BY <1>10, <1>2, <1>3, <1>4, <1>5, <1>6, <1>7, <1>8, <1>9 DEF OneoffIInv

-----------------------------------------------------------------------------

\* The service that is asked for does not change during the run.
LEMMA SameRun ==
  ASSUME rjob' = rjob
  PROVE  /\ Overridden' = Overridden /\ ResolvedSpec' = ResolvedSpec
         /\ rspec' = rspec => Mounted' = Mounted /\ Scoped' = Scoped
  BY DEF Overridden, ResolvedSpec, wants_interactive_run, Mounted, Scoped

\* What the plan was made of does not change once the container is made, and
\* nothing more is asked of it than before.
LEMMA PlanKept ==
  ASSUME OneoffIInv, UNCHANGED <<rjob, rdeps, waits, rspec, rinit, rimage, volumes>>, own'.id = own.id,
         rphase' = rphase \/ rphase' \in Made \cup {"done"}
  PROVE  (DepsSeen /\ Specified /\ Provided /\ MountsReady)'
<1> USE DEF OneoffIInv
<1>1. Overridden' = Overridden /\ ResolvedSpec' = ResolvedSpec /\ Scoped' = Scoped BY SameRun
<1>2. \A i \in DOMAIN rdeps : ConditionSeen(i)' = ConditionSeen(i) BY DEF ConditionSeen
<1>3. DepsSeen' BY <1>2 DEF DepsSeen, Before, Made, NotStartedYet, Watched
<1>4. Specified' BY <1>1 DEF Specified, Made, NotStartedYet, Watched
<1>5. Provided' BY <1>1 DEF Provided, Made, NotStartedYet, Watched, Undeclared
<1>6. MountsReady' BY DEF MountsReady
<1> QED BY <1>3, <1>4, <1>5, <1>6

\* Before there is a container, a step that leaves the name and the end alone
\* either goes on or ends the run.
LEMMA StillBefore ==
  ASSUME OneoffIInv, rphase \in Before, rphase' \in Before \cup {"done"},
         UNCHANGED nameVars, UNCHANGED endVars, UNCHANGED <<rjob, meddles>>
  PROVE  (IdsAgree /\ Staged /\ CleansUp /\ OthersSpared)'
<1> USE DEF OneoffIInv, nameVars, endVars
<1>1. own.id = 0 /\ own.st = "none" /\ own.by = "none" /\ cleanup = "none" /\ exit = NoCode
  BY DEF Staged, IdsAgree, Before
<1>2. IdsAgree' BY DEF IdsAgree
<1>3. Staged' BY <1>1 DEF Staged, Before, Made, NotStartedYet, Watched
<1>4. CleansUp' BY <1>1 DEF CleansUp
<1>5. OthersSpared' BY DEF OthersSpared
<1> QED BY <1>2, <1>3, <1>4, <1>5

\* The dependencies are waited for one after the other; the one-off is not
\* made before.
LEMMA DependencySteps ==
  ASSUME OneoffIInv,
         RunRefused \/ job_file_for_run \/ StartDependencies \/ DependencyMoves \/ wait_target_dependencies
  PROVE  OneoffIInv'
<1> USE DEF OneoffIInv
<1>1. /\ rjob' = rjob /\ meddles' = meddles /\ UNCHANGED nameVars /\ UNCHANGED endVars /\ UNCHANGED planVars
      /\ rphase \in {"resolve", "deps", "wait", "flags"}
      /\ rphase' \in {"deps", "wait", "flags", "done"} /\ rresult' \in {rresult, "refused", "error"}
  BY DEF RunRefused, job_file_for_run, StartDependencies, DependencyMoves, wait_target_dependencies, Go, EndRun
<1>2. rphase \in Before /\ rphase' \in Before \cup {"done"} BY <1>1 DEF Before
<1>3. (IdsAgree /\ Staged /\ CleansUp /\ OthersSpared)' BY <1>1, <1>2, StillBefore
<1>4. own'.id = 0 /\ own.id = 0 BY <1>1, <1>2 DEF Staged, nameVars
<1>5. Cleared' BY <1>1 DEF Cleared
<1>6. rphase = "flags" => rphase' = "flags"
  BY DEF RunRefused, job_file_for_run, StartDependencies, DependencyMoves, wait_target_dependencies, Go, EndRun
<1>7. Specified'
  <2>1. ~(rphase' \in {"image", "networks", "volumes", "secrets", "name", "init", "lookup"}) BY <1>1
  <2>2. ~(rphase' \in {"clear", "create"} \/ own'.id # 0) BY <1>1, <1>4
  <2> QED BY <2>1, <2>2 DEF Specified
<1>8. Provided' BY <1>1 DEF Provided
<1>9. MountsReady' BY <1>1 DEF MountsReady, planVars
<1>10. /\ DOMAIN rdeps' = DOMAIN rjob.needs /\ \A i \in DOMAIN rdeps' : DOMAIN rdeps'[i] = 1 .. rjob.needs[i].replicas
       /\ waits' \in Nat \ {0}
       /\ rphase' \in {"resolve", "deps"} => waits' = 1
       /\ rphase' = "wait" => \A i \in DOMAIN rdeps' : i < waits' /\ rjob.needs[i].required => ConditionSeen(i)'
       /\ rphase' = "flags" /\ ~rjob.noDeps => \A i \in DOMAIN rdeps' : rjob.needs[i].required => ConditionSeen(i)'
  <2>1. rjob.needs \in Seq(Needs) BY OneoffAssumption DEF OneoffTypeOK
  <2>2. DOMAIN rjob.needs = 1 .. Len(rjob.needs) /\ Len(rjob.needs) \in Nat BY <2>1
  <2>3. CASE RunRefused
    BY <2>3 DEF RunRefused, EndRun, depVars, OneoffTypeOK
  <2>4. CASE job_file_for_run
    <3>1. rdeps' = rdeps /\ waits' = waits BY <2>4 DEF job_file_for_run, depVars
    <3>2. rphase' = "flags" /\ ~rjob.noDeps => DOMAIN rdeps = {}
      BY <2>2, <2>4 DEF job_file_for_run, Go, OneoffTypeOK
    <3>3. rphase = "resolve" /\ rphase' \in {"deps", "flags"} BY <2>4 DEF job_file_for_run, Go
    <3> QED BY <3>1, <3>2, <3>3 DEF DepsSeen, OneoffTypeOK
  <2>5. CASE StartDependencies
    <3>1. rphase = "deps" /\ waits' = waits /\ rphase' \in {"wait", "done"} BY <2>5 DEF StartDependencies, Go, EndRun
    <3>2. waits = 1 BY <3>1 DEF DepsSeen
    <3>3. DOMAIN rdeps' = DOMAIN rdeps /\ \A i \in DOMAIN rdeps : DOMAIN rdeps'[i] = DOMAIN rdeps[i]
      <4>1. CASE rdeps' = rdeps BY <4>1
      <4>2. ASSUME NEW off \in SUBSET {i \in DOMAIN rdeps : ~rjob.needs[i].required},
                   rdeps' = [i \in DOMAIN rdeps |-> [k \in DOMAIN rdeps[i] |-> IF i \in off THEN "none" ELSE "up"]]
            PROVE  DOMAIN rdeps' = DOMAIN rdeps /\ \A i \in DOMAIN rdeps : DOMAIN rdeps'[i] = DOMAIN rdeps[i]
        BY <4>2
      <4> QED BY <2>5, <4>1, <4>2 DEF StartDependencies
    <3>4. \A i \in DOMAIN rdeps' : ~(i < 1) BY <2>2, <3>3 DEF OneoffTypeOK
    <3> QED BY <3>1, <3>2, <3>3, <3>4 DEF OneoffTypeOK
  <2>6. CASE DependencyMoves
    <3>0. PICK i \in DOMAIN rdeps : \E k \in DOMAIN rdeps[i] :
            /\ rdeps[i][k] = "up"
            /\ \E st \in (CASE rjob.needs[i].condition = "healthy" -> {"healthy", "failed"}
                            [] rjob.needs[i].condition = "completed" -> {"completed", "failed"}
                            [] OTHER -> {}) :
                 rdeps' = [rdeps EXCEPT ![i][k] = st]
      BY <2>6 DEF DependencyMoves
    <3>1. PICK k \in DOMAIN rdeps[i] :
            /\ rdeps[i][k] = "up"
            /\ \E st \in (CASE rjob.needs[i].condition = "healthy" -> {"healthy", "failed"}
                            [] rjob.needs[i].condition = "completed" -> {"completed", "failed"}
                            [] OTHER -> {}) :
                 rdeps' = [rdeps EXCEPT ![i][k] = st]
      BY <3>0
    <3>2. rjob.needs[i].condition # "up" BY <3>1
    <3>3. PICK st : rdeps' = [rdeps EXCEPT ![i][k] = st] BY <3>1
    <3>4. DOMAIN rdeps' = DOMAIN rdeps /\ \A j \in DOMAIN rdeps : DOMAIN rdeps'[j] = DOMAIN rdeps[j] BY <3>3
    <3>5. ASSUME NEW j \in DOMAIN rdeps, ConditionSeen(j) PROVE ConditionSeen(j)'
      <4>1. CASE Unasked(rjob.needs[j]) BY <1>1, <4>1 DEF ConditionSeen, Unasked
      <4>2. CASE rdeps[j][1] = rjob.needs[j].condition
        <5>1. j # i \/ k # 1 BY <3>1, <3>2, <4>2
        <5>2. rdeps'[j][1] = rdeps[j][1]
          <6>1. CASE j # i BY <3>3, <6>1
          <6>2. CASE j = i /\ k # 1
            <7>1. rdeps'[j] = [rdeps[j] EXCEPT ![k] = st] BY <3>3, <6>2
            <7>3. j \in DOMAIN rjob.needs /\ DOMAIN rdeps[j] = 1 .. rjob.needs[j].replicas BY DEF OneoffTypeOK
            <7>5. rjob.needs[j] \in Needs BY <2>1, <7>3
            <7>4. rjob.needs[j].replicas \in Nat \ {0} BY <7>5 DEF Needs
            <7>2. 1 \in DOMAIN rdeps[j] BY <7>3, <7>4
            <7> QED BY <6>2, <7>1, <7>2
          <6> QED BY <5>1, <6>1, <6>2
        <5> QED BY <1>1, <4>2, <5>2 DEF ConditionSeen
      <4> QED BY <3>5, <4>1, <4>2 DEF ConditionSeen
    <3>6. waits' = waits /\ rphase' = rphase BY <2>6 DEF DependencyMoves
    <3> QED BY <1>1, <1>6, <3>4, <3>5, <3>6 DEF DepsSeen, OneoffTypeOK, Before
  <2>7. CASE wait_target_dependencies
    <3>1. rdeps' = rdeps /\ rphase = "wait" /\ \A i \in DOMAIN rdeps : ConditionSeen(i)' = ConditionSeen(i)
      BY <1>1, <2>7 DEF wait_target_dependencies, ConditionSeen
    <3>2. CASE waits > Len(rjob.needs)
      <4>1. waits' = waits /\ rphase' = "flags" BY <2>7, <3>2 DEF wait_target_dependencies, Go
      <4>2. \A i \in DOMAIN rdeps : i < waits BY <2>2, <3>2 DEF OneoffTypeOK
      <4> QED BY <3>1, <4>1, <4>2 DEF DepsSeen, OneoffTypeOK
    <3>3. CASE ~(waits > Len(rjob.needs))
      <4>1. waits' = waits + 1 /\ rphase' \in {"wait", "done"}
        BY <2>7, <3>1, <3>3 DEF wait_target_dependencies, EndRun
      <4>2. rphase' = "wait" => ConditionSeen(waits) \/ ~rjob.needs[waits].required
        BY <2>7, <3>1, <3>3 DEF wait_target_dependencies, EndRun
      <4>3. \A i \in DOMAIN rdeps : i < waits + 1 => i < waits \/ i = waits BY <2>2 DEF OneoffTypeOK
      <4>4. waits + 1 \in Nat \ {0} BY DEF OneoffTypeOK
      <4> QED BY <3>1, <4>1, <4>2, <4>3, <4>4 DEF DepsSeen, OneoffTypeOK
    <3> QED BY <3>2, <3>3
  <2> QED BY <2>3, <2>4, <2>5, <2>6, <2>7
<1>11. OneoffTypeOK' BY <1>1, <1>10 DEF OneoffTypeOK, Before, nameVars, endVars
<1>12. DepsSeen'
  <2>1. rphase' \in Before \ {"resolve", "deps", "wait"} => rphase' = "flags" BY <1>1 DEF Before
  <2> QED BY <1>1, <1>4, <1>10, <2>1 DEF DepsSeen
<1> QED BY <1>3, <1>5, <1>7, <1>8, <1>9, <1>11, <1>12

\* From the flags to the name, a step keeps the dependencies it found.
LEMMA DepsStay ==
  ASSUME OneoffIInv, UNCHANGED <<rjob, rdeps, waits>>, own'.id = own.id,
         rphase \in Before \ {"resolve", "deps", "wait"}, rphase' \notin {"resolve", "deps", "wait"}
  PROVE  DepsSeen'
<1>1. \A i \in DOMAIN rdeps : ConditionSeen(i)' = ConditionSeen(i) BY DEF ConditionSeen
<1> QED BY <1>1 DEF DepsSeen, OneoffIInv

\* The flags make the specification, and its image, networks and the rest are
\* prepared; the volumes that are mounted are made as the project's.
LEMMA PreparationSteps ==
  ASSUME OneoffIInv,
         ApplyFlags \/ acquire_service_image \/ create_networks \/ create_volumes \/ PrepareRest \/ container_exists
  PROVE  OneoffIInv'
<1> USE DEF OneoffIInv
<1>1. /\ rjob' = rjob /\ meddles' = meddles /\ UNCHANGED nameVars /\ UNCHANGED endVars /\ UNCHANGED depVars
      /\ rphase \in {"flags", "image", "networks", "volumes", "secrets", "name"}
      /\ rphase' \in {"image", "networks", "volumes", "secrets", "name", "init", "done"}
      /\ rresult' \in {rresult, "refused", "error"}
  BY DEF ApplyFlags, acquire_service_image, create_networks, create_volumes, PrepareRest, container_exists,
         Prepared, Go, EndRun
<1>2. rphase \in Before \ {"resolve", "deps", "wait"} /\ rphase' \in Before \cup {"done"} BY <1>1 DEF Before
<1>3. (IdsAgree /\ Staged /\ CleansUp /\ OthersSpared)' BY <1>1, <1>2, StillBefore
<1>4. own'.id = 0 /\ own.id = 0 BY <1>1, <1>2 DEF Staged, nameVars
<1>5. DepsSeen'
  <2>1. UNCHANGED <<rjob, rdeps, waits>> /\ own'.id = own.id BY <1>1, <1>4 DEF depVars
  <2>2. rphase' \notin {"resolve", "deps", "wait"} BY <1>1
  <2> QED BY <1>2, <2>1, <2>2, DepsStay
<1>6. OneoffTypeOK' BY <1>1, <1>2 DEF OneoffTypeOK, Before, nameVars, endVars, depVars
<1>7. Cleared'
  <2>1. rphase' = "init" /\ rjob.named => bearer = Nobody
    BY <1>1 DEF ApplyFlags, acquire_service_image, create_networks, create_volumes, PrepareRest, container_exists,
                Prepared, Go, EndRun
  <2> QED BY <1>1, <2>1 DEF Cleared, nameVars, Nobody
<1>8. Overridden' = Overridden /\ (rspec' = rspec => Scoped' = Scoped) BY <1>1, SameRun
<1>9. CASE ApplyFlags
  <2>1. volumes' = volumes /\ rphase' \in {"image", "done"}
        /\ (rphase' = "image" => rspec' = Overridden /\ rinit' = init_service(rjob.service, Overridden))
    BY <1>9 DEF ApplyFlags, Go, EndRun
  <2>2. Specified' BY <1>1, <1>4, <1>8, <2>1 DEF Specified, init_service
  <2>3. Provided' BY <2>1 DEF Provided
  <2>4. MountsReady' BY <2>1 DEF MountsReady
  <2> QED BY <1>3, <1>5, <1>6, <1>7, <2>2, <2>3, <2>4
<1>10. CASE acquire_service_image \/ create_networks \/ create_volumes \/ PrepareRest \/ container_exists
  <2>1. rspec' = rspec /\ rinit' = rinit /\ rphase # "flags"
    BY <1>10 DEF acquire_service_image, create_networks, create_volumes, PrepareRest, container_exists, Prepared
  <2>2. Specified' BY <1>1, <1>4, <1>8, <2>1 DEF Specified, init_service
  <2>3. CASE create_volumes
    <3>1. \/ volumes' = volumes /\ rphase' = "done"
          \/ volumes' = Above(volumes, [v \in Scoped |-> "project"])
      BY <2>3 DEF create_volumes, Prepared, EndRun, Go
    <3>2. MountsReady'
      <4>1. CASE volumes' = volumes BY <4>1 DEF MountsReady
      <4>2. CASE volumes' = Above(volumes, [v \in Scoped |-> "project"])
        BY <4>2 DEF MountsReady, Above
      <4> QED BY <3>1, <4>1, <4>2
    <3>3. Provided'
      <4>1. CASE rphase' = "done" BY <4>1 DEF Provided
      <4>2. CASE volumes' = Above(volumes, [v \in Scoped |-> "project"])
        <5>1. Scoped \subseteq DOMAIN volumes' BY <4>2 DEF Above
        <5> QED BY <1>1, <1>8, <2>1, <5>1 DEF Provided
      <4> QED BY <3>1, <4>1, <4>2
    <3> QED BY <1>3, <1>5, <1>6, <1>7, <2>2, <3>2, <3>3
  <2>4. CASE acquire_service_image \/ create_networks \/ PrepareRest \/ container_exists
    <3>1. volumes' = volumes BY <2>4 DEF acquire_service_image, create_networks, PrepareRest, container_exists
    <3>2. rphase' \in {"secrets", "name", "init"} => rphase \in {"secrets", "name"}
      BY <2>4 DEF acquire_service_image, create_networks, PrepareRest, container_exists, Prepared, Go, EndRun
    <3>3. MountsReady' BY <3>1 DEF MountsReady
    <3>4. Provided' BY <1>1, <1>8, <2>1, <3>1, <3>2 DEF Provided
    <3> QED BY <1>3, <1>5, <1>6, <1>7, <2>2, <3>3, <3>4
  <2> QED BY <1>10, <2>3, <2>4
<1> QED BY <1>9, <1>10

\* What is mounted is declared by then, so Podman makes no volume by itself.
LEMMA NothingAutocreated ==
  ASSUME NEW refs, refs \subseteq DOMAIN volumes
  PROVE  /\ DOMAIN Autocreated(refs) = DOMAIN volumes
         /\ \A v \in DOMAIN volumes : Autocreated(refs)[v] = volumes[v]
BY DEF Autocreated, Above

\* The init steps run, the name is looked at, and what may be cleared is.
LEMMA NameSteps ==
  ASSUME OneoffIInv, run_pre_start \/ LookUp \/ ClearName
  PROVE  OneoffIInv'
<1> USE DEF OneoffIInv
<1>1. /\ rjob' = rjob /\ meddles' = meddles /\ UNCHANGED endVars /\ UNCHANGED depVars
      /\ rphase \in {"init", "lookup", "clear"} /\ rphase' \in {"lookup", "clear", "create", "done"}
      /\ rresult' \in {rresult, "refused", "error"} /\ own' = own /\ issued' = issued
  BY DEF run_pre_start, LookUp, ClearName, Go, EndRun, nameVars, planVars, depVars
<1>2. rphase \in Before \ {"resolve", "deps", "wait"} /\ rphase' \in Before \cup {"done"} BY <1>1 DEF Before
<1>3. own'.id = 0 /\ own.id = 0 /\ own.by = "none" BY <1>1, <1>2 DEF Staged, IdsAgree
<1>4. DepsSeen'
  <2>1. UNCHANGED <<rjob, rdeps, waits>> /\ own'.id = own.id BY <1>1 DEF depVars
  <2>2. rphase' \notin {"resolve", "deps", "wait"} BY <1>1
  <2> QED BY <1>2, <2>1, <2>2, DepsStay
<1>5. Overridden' = Overridden /\ ResolvedSpec' = ResolvedSpec /\ (rspec' = rspec => Scoped' = Scoped)
  BY <1>1, SameRun
<1>6. rjob \in Oneoffs BY DEF OneoffTypeOK
<1>7. CASE run_pre_start
  <2>1. UNCHANGED nameVars /\ rspec' = rspec /\ rinit' = rinit /\ rphase = "init" /\ rphase' \in {"lookup", "done"}
    BY <1>7 DEF run_pre_start, Go, EndRun
  <2>2. (IdsAgree /\ Staged /\ CleansUp /\ OthersSpared)' BY <1>1, <1>2, <2>1, StillBefore
  <2>3. OneoffTypeOK' BY <1>1, <1>2, <2>1 DEF OneoffTypeOK, Before, nameVars, endVars, depVars
  <2>4. Cleared' BY <1>1, <2>1 DEF Cleared, nameVars, Nobody
  <2>5. Specified' BY <1>1, <1>3, <1>5, <2>1 DEF Specified, init_service
  <2>6. /\ rspec = Overridden /\ rinit = init_service(rjob.service, Overridden) /\ Scoped \subseteq DOMAIN volumes
    BY <2>1 DEF Specified, Provided
  <2>7. DOMAIN volumes' = DOMAIN volumes /\ \A v \in DOMAIN volumes : volumes'[v] = volumes[v]
    <3>1. CASE volumes' = volumes BY <3>1
    <3>2. CASE volumes' # volumes
      <4> DEFINE steps == pre_start_steps(rinit)
                 refs == UNION {named_volume_refs(t) : t \in ToSet(steps)}
      <4>1. /\ \A i \in DOMAIN steps : ~Undeclared(steps[i])
            /\ volumes' = Autocreated(refs)
        BY <1>7, <3>2 DEF run_pre_start
      <4>2. refs \subseteq Mounted
        <5>1. \A t \in ToSet(steps) : named_volume_refs(t) \subseteq Mounted BY <1>6, <2>6, InitStepsMount
        <5> HIDE DEF steps
        <5> QED BY <5>1
      <4>3. refs \subseteq DOMAIN rjob.declared
        <5>1. ASSUME NEW t \in ToSet(steps) PROVE named_volume_refs(t) \subseteq DOMAIN rjob.declared
          <6> HIDE DEF steps
          <6>1. PICK i \in DOMAIN steps : t = steps[i] BY <5>1 DEF ToSet
          <6> QED BY <4>1, <6>1 DEF Undeclared
        <5> HIDE DEF steps
        <5> QED BY <5>1
      <4> HIDE DEF refs
      <4>4. refs \subseteq DOMAIN volumes BY <2>6, <4>2, <4>3 DEF Scoped
      <4> QED BY <4>1, <4>4, NothingAutocreated
    <3> QED BY <3>1, <3>2
  <2>8. MountsReady' BY <2>7 DEF MountsReady
  <2>9. Provided' BY <1>5, <2>1, <2>6, <2>7 DEF Provided
  <2> QED BY <1>4, <2>2, <2>3, <2>4, <2>5, <2>8, <2>9
<1>8. CASE LookUp
  <2>1. UNCHANGED nameVars /\ volumes' = volumes /\ rphase = "lookup" /\ rphase' \in {"create", "clear", "done"}
    BY <1>8 DEF LookUp, Go, EndRun
  <2>2. (IdsAgree /\ Staged /\ CleansUp /\ OthersSpared)' BY <1>1, <1>2, <2>1, StillBefore
  <2>3. OneoffTypeOK' BY <1>1, <1>2, <2>1 DEF OneoffTypeOK, Before, nameVars, endVars, depVars
  <2>4. ASSUME rphase' # "done"
        PROVE  /\ ~Undeclared(rspec) /\ bearer.owner \in {"none", "project"}
               /\ rspec' = [rspec EXCEPT !.environment = OneoffEnv(rspec, rjob.host)]
               /\ rphase' = IF bearer = Nobody THEN "create" ELSE "clear"
    BY <1>8, <2>4 DEF LookUp, Go, EndRun
  <2>5. /\ rspec = Overridden /\ Scoped \subseteq DOMAIN volumes BY <2>1 DEF Specified, Provided
  <2>6. rphase' # "done" => rspec' = ResolvedSpec BY <2>4, <2>5 DEF ResolvedSpec
  <2>7. Specified' BY <1>1, <1>3, <1>5, <2>1, <2>6 DEF Specified
  <2>8. Cleared'
    <3>1. CASE rphase' # "clear" BY <2>1, <3>1 DEF Cleared
    <3>2. CASE rphase' = "clear"
      <4>1. bearer # Nobody /\ bearer.owner \in {"none", "project"} BY <2>4, <3>2
      <4>2. bearer.owner = "project" BY <4>1 DEF IdsAgree
      <4>3. rjob.named => bearer.since = "checked" BY <2>1, <4>1 DEF Cleared
      <4> QED BY <1>1, <2>1, <3>2, <4>2, <4>3 DEF Cleared, nameVars
    <3> QED BY <3>1, <3>2
  <2>9. ASSUME rphase' # "done" PROVE Scoped' = Scoped /\ ~Undeclared(rspec)'
    <3>1. rspec' = ResolvedSpec BY <2>6, <2>9
    <3>2. /\ ServiceFields \subseteq DOMAIN rspec /\ ServiceFields \subseteq DOMAIN rspec'
          /\ rspec'.volumes = rspec.volumes /\ rspec'.pre_start = rspec.pre_start
      BY <1>6, <2>5, <3>1, FlagsApplied DEF ResolvedSpec, ServiceFields
    <3>3. Mounted' = Mounted BY <3>2, SameMounts
    <3>4. Scoped' = Scoped BY <1>1, <3>3 DEF Scoped
    <3>6. ~Undeclared(rspec)' BY <1>1, <2>4, <2>9, <3>2 DEF Undeclared, named_volume_refs
    <3> QED BY <3>4, <3>6
  <2>10. Provided' BY <2>1, <2>5, <2>9 DEF Provided
  <2>11. MountsReady' BY <2>1 DEF MountsReady
  <2> QED BY <1>4, <2>2, <2>3, <2>7, <2>8, <2>10, <2>11
<1>9. CASE ClearName
  <2>1. /\ rphase = "clear" /\ rphase' = "create" /\ rresult' = rresult /\ UNCHANGED planVars
        /\ \/ bearer' = Nobody /\ cleared' = cleared \cup ({bearer} \ {Nobody})
           \/ bearer' = bearer /\ cleared' = cleared
    BY <1>9 DEF ClearName, Go
  <2>2. IdsAgree' BY <1>1, <1>3, <2>1 DEF IdsAgree, endVars, Nobody
  <2>3. Staged' BY <1>1, <1>3, <2>1 DEF Staged, Before, Made, NotStartedYet, Watched, endVars
  <2>4. CleansUp' BY <2>1 DEF CleansUp
  <2>5. OthersSpared' BY <1>1, <2>1 DEF OthersSpared, Cleared
  <2>6. Cleared' BY <2>1 DEF Cleared
  <2>7. Specified' BY <1>5, <2>1 DEF Specified, planVars
  <2>8. Provided' BY <1>1, <1>5, <2>1 DEF Provided, planVars, Undeclared
  <2>9. MountsReady' BY <2>1 DEF MountsReady, planVars
  <2>10. OneoffTypeOK' BY <1>1, <1>2, <2>1 DEF OneoffTypeOK, Before, endVars, depVars, Nobody
  <2> QED BY <1>4, <2>2, <2>3, <2>4, <2>5, <2>6, <2>7, <2>8, <2>9, <2>10
<1> QED BY <1>7, <1>8, <1>9

\* The container takes the next ID and a free name; without the answer the
\* run knows nothing of it, and ends.
LEMMA ContainerMade ==
  ASSUME OneoffIInv, CreateContainer
  PROVE  OneoffIInv'
<1> USE DEF OneoffIInv
<1>1. /\ rphase = "create" /\ UNCHANGED <<rjob, rspec, rinit, rimage, rboard, meddles, cleared, following, exit, cleanup>>
      /\ UNCHANGED depVars
  BY DEF CreateContainer
<1>2. /\ own.id = 0 /\ own.st = "none" /\ own.by = "none" /\ exit = NoCode /\ cleanup = "none" /\ mine = 0
      /\ rphase \in Before \ {"resolve", "deps", "wait"}
  BY <1>1 DEF Staged, IdsAgree, Before
<1>3. Overridden' = Overridden /\ ResolvedSpec' = ResolvedSpec /\ Scoped' = Scoped BY <1>1, SameRun
<1>4. \A i \in DOMAIN rdeps : ConditionSeen(i)' = ConditionSeen(i) BY <1>1 DEF ConditionSeen, depVars
<1>5. OthersSpared' BY <1>1 DEF OthersSpared
<1>6. rspec = ResolvedSpec /\ Scoped \subseteq DOMAIN volumes /\ ~Undeclared(rspec)
  BY <1>1 DEF Specified, Provided
<1>7. CASE /\ EndRun("error") /\ UNCHANGED <<bearer, issued, own, volumes, mine>>
  <2>1. rphase' = "done" /\ rresult' = "error" /\ UNCHANGED nameVars /\ UNCHANGED endVars
    BY <1>1, <1>7 DEF EndRun, nameVars, endVars
  <2>2. (IdsAgree /\ Staged /\ CleansUp /\ OthersSpared)' BY <1>1, <1>2, <2>1, StillBefore
  <2>3. (DepsSeen /\ Specified /\ Provided /\ MountsReady)' BY <1>1, <1>7, <2>1, PlanKept DEF depVars
  <2>4. OneoffTypeOK' BY <1>1, <1>7, <2>1 DEF OneoffTypeOK, depVars
  <2>5. Cleared' BY <2>1 DEF Cleared
  <2> QED BY <2>2, <2>3, <2>4, <2>5
<1>8. CASE /\ bearer = Nobody /\ rimage
           /\ issued' = issued + 1
           /\ \E code \in rjob.codes :
                bearer' = [id |-> issued', owner |-> "project", st |-> "created", code |-> code, since |-> "run"]
           /\ own' = [own EXCEPT !.id = issued', !.st = "created"]
           /\ volumes' = Autocreated(named_volume_refs(rspec))
           /\ \/ mine' = issued' /\ Go(IF wants_interactive_run THEN "attach" ELSE "start")
              \/ mine' = 0 /\ EndRun("error")
  <2>1. PICK code \in rjob.codes :
          bearer' = [id |-> issued + 1, owner |-> "project", st |-> "created", code |-> code, since |-> "run"]
    BY <1>8
  <2>2. code \in Nat /\ issued \in Nat \ {0} BY OneoffAssumption DEF OneoffTypeOK
  <2>3. own \in [id : Nat, st : {"none", "created", "running", "exited", "gone"}, code : Nat,
                 by : {"none", "others", "run"}]
    BY DEF OneoffTypeOK
  <2>4. own'.id = issued + 1 /\ own'.st = "created" /\ own'.by = "none" BY <1>2, <1>8, <2>3
  <2>5. /\ bearer' \in [id : Nat, owner : {"none", "project", "other"}, st : {"none", "created", "running", "exited"},
                        code : Nat, since : {"none", "before", "checked", "looked", "run"}]
        /\ bearer'.id = issued + 1 /\ bearer'.owner = "project" /\ bearer'.st = "created"
    BY <2>1, <2>2
  <2>6. own' \in [id : Nat, st : {"none", "created", "running", "exited", "gone"}, code : Nat,
                  by : {"none", "others", "run"}]
    <3>1. own' = [own EXCEPT !.id = issued + 1, !.st = "created"] BY <1>8
    <3>2. issued + 1 \in Nat BY <2>2
    <3> QED BY <2>3, <3>1, <3>2
  <2>7. \/ /\ rphase' \in {"attach", "start"} /\ rresult' = rresult /\ mine' = issued + 1
           /\ (rphase' = "attach" => ~rjob.detach)
        \/ rphase' = "done" /\ rresult' = "error" /\ mine' = 0
    <3>1. CASE mine' = issued' /\ Go(IF wants_interactive_run THEN "attach" ELSE "start")
      <4>1. issued' = issued + 1 BY <1>8
      <4>2. rphase' = (IF wants_interactive_run THEN "attach" ELSE "start") /\ rresult' = rresult
        BY <3>1 DEF Go
      <4>3. wants_interactive_run => ~rjob.detach BY DEF wants_interactive_run
      <4>4. rphase' \in {"attach", "start"} /\ (rphase' = "attach" => ~rjob.detach)
        <5>1. CASE wants_interactive_run BY <4>2, <4>3, <5>1
        <5>2. CASE ~wants_interactive_run BY <4>2, <5>2
        <5> QED BY <5>1, <5>2
      <4>5. mine' = issued + 1 BY <3>1, <4>1
      <4> QED BY <4>2, <4>4, <4>5
    <3>2. CASE mine' = 0 /\ EndRun("error") BY <3>2 DEF EndRun
    <3> QED BY <1>8, <3>1, <3>2
  <2>8. IdsAgree' BY <1>8, <2>2, <2>4, <2>5, <2>7 DEF IdsAgree
  <2>9. OneoffTypeOK'
    <3>1. issued' = issued + 1 /\ issued + 1 \in Nat \ {0} BY <1>8, <2>2
    <3>2. rphase' \in Made \cup {"done"} /\ rresult' \in {rresult, "error"} /\ mine' \in {issued + 1, 0}
      <4>1. CASE rphase' = "done" /\ rresult' = "error" /\ mine' = 0 BY <4>1
      <4>2. CASE rphase' \in {"attach", "start"} /\ rresult' = rresult /\ mine' = issued + 1
        BY <4>2 DEF Made, NotStartedYet
      <4> QED BY <2>7, <4>1, <4>2
    <3> QED BY <1>1, <2>5, <2>6, <3>1, <3>2 DEF OneoffTypeOK, depVars
  <2>10. Staged'
    <3>1. exit' = NoCode /\ cleanup' = "none" /\ own'.id # 0 BY <1>1, <1>2, <2>2, <2>4
    <3>2. CASE rphase' \in {"attach", "start"}
      <4>1. mine' = own'.id /\ (rphase' = "attach" => ~rjob'.detach) BY <1>1, <2>4, <2>7, <3>2
      <4> QED BY <2>4, <3>1, <3>2, <4>1 DEF Staged, Before, Made, NotStartedYet, Watched
    <3>3. CASE rphase' = "done" BY <3>1, <3>3 DEF Staged, Before, Made, NotStartedYet, Watched
    <3> QED BY <2>7, <3>2, <3>3
  <2>11. CleansUp' BY <1>1, <1>2, <2>4, <2>7 DEF CleansUp
  <2>12. Cleared' BY <2>7 DEF Cleared
  <2>13. DepsSeen' BY <1>1, <1>2, <1>4, <2>7 DEF DepsSeen, depVars
  <2>14. Specified' BY <1>1, <1>3, <1>6, <2>7 DEF Specified
  <2>15. Provided' BY <2>7 DEF Provided
  <2>16. MountsReady'
    <3>1. named_volume_refs(rspec) \subseteq DOMAIN volumes
      BY <1>6 DEF Undeclared, Scoped, Mounted
    <3> QED BY <1>8, <3>1, NothingAutocreated DEF MountsReady
  <2> QED BY <1>5, <2>8, <2>9, <2>10, <2>11, <2>12, <2>13, <2>14, <2>15, <2>16
<1> QED BY <1>7, <1>8 DEF CreateContainer

\* Starting reaches the run's own container, or one that took its name.
LEMMA StartingByName ==
  ASSUME OneoffTypeOK, IdsAgree, Starts, bearer # Nobody, own.id # 0, own.st \in {"created", "gone"}
  PROVE  /\ own'.id = own.id /\ own'.by = own.by /\ own'.code = own.code
         /\ own'.st \in {"running", "gone"}
         /\ bearer'.id = bearer.id
         /\ own' \in [id : Nat, st : {"none", "created", "running", "exited", "gone"}, code : Nat,
                      by : {"none", "others", "run"}]
         /\ bearer' \in [id : Nat, owner : {"none", "project", "other"}, st : {"none", "created", "running", "exited"},
                        code : Nat, since : {"none", "before", "checked", "looked", "run"}]
         /\ (bearer'.id = 0 \/ bearer'.owner = "none" => bearer' = Nobody)
         /\ own'.st = "gone" <=> own'.by # "none"
         /\ bearer'.id = own'.id => bearer'.st = own'.st
<1> USE DEF OneoffTypeOK, IdsAgree
<1>1. bearer.id # 0 /\ bearer.owner # "none" OBVIOUS
<1>2. CASE bearer.id = own.id
  <2>1. own.st = "created" /\ bearer.st = "created" BY <1>2
  <2> QED BY <1>1, <1>2, <2>1 DEF Starts
<1>3. CASE bearer.id # own.id
  <2>1. own' = own /\ own.st = "gone" BY <1>3 DEF Starts
  <2>2. /\ bearer'.id = bearer.id /\ bearer'.owner = bearer.owner
        /\ bearer' \in [id : Nat, owner : {"none", "project", "other"}, st : {"none", "created", "running", "exited"},
                        code : Nat, since : {"none", "before", "checked", "looked", "run"}]
    BY <1>3 DEF Starts
  <2> QED BY <1>1, <1>3, <2>1, <2>2
<1> QED BY <1>2, <1>3

\* Deleting by the ID removes the run's own and nothing else.
LEMMA DeletingMine ==
  ASSUME OneoffTypeOK, IdsAgree, DeleteMine, own.id # 0, mine = own.id
  PROVE  /\ own'.id = own.id /\ own'.st = "gone" /\ own'.code = own.code /\ own'.by # "none" /\ cleared' = cleared
         /\ own.by = "others" => own'.by = "others"
         /\ own.by # "others" => own'.by = "run"
         /\ own' \in [id : Nat, st : {"none", "created", "running", "exited", "gone"}, code : Nat,
                      by : {"none", "others", "run"}]
         /\ bearer' \in {bearer, Nobody} /\ bearer'.id # own.id
<1> USE DEF OneoffTypeOK, IdsAgree, Nobody
<1>1. CASE own.st = "gone" BY <1>1 DEF DeleteMine
<1>2. CASE own.st # "gone" BY <1>2 DEF DeleteMine
<1> QED BY <1>1, <1>2

\* With the container made, what is left to show of a step that keeps its ID.
LEMMA AfterMade ==
  ASSUME OneoffIInv, own.id # 0, UNCHANGED <<rjob, meddles>>, UNCHANGED depVars, UNCHANGED planVars,
         own'.id = own.id, cleared' = cleared, rphase' \in Made \cup {"done"},
         OneoffTypeOK', (IdsAgree /\ Staged /\ CleansUp)'
  PROVE  OneoffIInv'
<1> USE DEF OneoffIInv
<1>1. (DepsSeen /\ Specified /\ Provided /\ MountsReady)' BY PlanKept DEF depVars, planVars
<1>2. Cleared' BY DEF Cleared, Made, NotStartedYet, Watched
<1>3. OthersSpared' BY DEF OthersSpared
<1> QED BY <1>1, <1>2, <1>3

\* The container is started, followed and waited for by its name.
LEMMA RunningSteps ==
  ASSUME OneoffIInv,
         StartOneOff \/ run_attached \/ OpenLogs \/ FollowLogs \/ AskState \/ WaitExit
  PROVE  OneoffIInv'
<1> USE DEF OneoffIInv
<1>1. /\ UNCHANGED <<rjob, rboard, meddles, issued, cleared, mine, cleanup, rresult>>
      /\ UNCHANGED depVars /\ UNCHANGED planVars
      /\ rphase \in {"start", "attach", "start attached", "pump", "logs", "follow", "broke", "wait exit"}
  BY DEF StartOneOff, run_attached, OpenLogs, FollowLogs, AskState, WaitExit, Go, FailedRun, nameVars, endVars
<1>2. /\ own.id # 0 /\ mine = own.id /\ own.by # "run" /\ cleanup = "none" /\ exit = NoCode
  BY <1>1 DEF Staged, Made, NotStartedYet, Watched
<1>3. \/ bearer' = bearer /\ own' = own
      \/ rphase \in {"start", "start attached"} /\ bearer # Nobody /\ Starts
  BY DEF StartOneOff, run_attached, OpenLogs, FollowLogs, AskState, WaitExit, nameVars
<1>4. /\ rphase \in {"start", "start attached"} => own.st \in {"created", "gone"}
      /\ rphase = "attach" => own.st \in {"created", "gone"}
  BY DEF Staged, NotStartedYet
<1>5. /\ rphase' \in {"name it", "not started", "logs", "follow", "broke", "start attached", "pump", "wait exit", "cleanup"}
      /\ rphase' \in Watched => ~rjob.detach
      /\ rphase' = "name it" => rjob.detach
      /\ rphase' = "start attached" => rphase = "attach"
      /\ exit' = exit \/ (rphase = "wait exit" /\ rphase' = "cleanup" /\ bearer.st = "exited" /\ exit' = bearer.code)
  <2>1. CASE StartOneOff
    <3>1. rphase' \in {"name it", "not started", "logs"} /\ exit' = exit /\ rphase = "start"
          /\ (rphase' = "name it" => rjob.detach) /\ (rphase' = "logs" => ~rjob.detach)
      <4>1. exit' = exit BY <2>1 DEF StartOneOff, endVars
      <4>2. rphase = "start" /\ rphase' \in {IF rjob.detach THEN "name it" ELSE "logs", "not started"}
        BY <2>1 DEF StartOneOff, Go
      <4>3. rphase' \in {"name it", "not started", "logs"}
            /\ (rphase' = "name it" => rjob.detach) /\ (rphase' = "logs" => ~rjob.detach)
        <5>1. CASE rjob.detach BY <4>2, <5>1
        <5>2. CASE ~rjob.detach BY <4>2, <5>2
        <5> QED BY <5>1, <5>2
      <4> QED BY <4>1, <4>2, <4>3
    <3> QED BY <3>1 DEF Watched
  <2>2. CASE run_attached \/ OpenLogs \/ FollowLogs \/ AskState \/ WaitExit
    <3>1. rphase \in Watched /\ rphase' \in Watched
          /\ rphase' \in {"logs", "follow", "broke", "start attached", "pump", "wait exit", "cleanup"}
          /\ (rphase' = "start attached" => rphase = "attach")
      BY <2>2 DEF run_attached, OpenLogs, FollowLogs, AskState, WaitExit, Go, FailedRun, Watched
    <3>2. ~rjob.detach BY <3>1 DEF Staged
    <3>3. exit' = exit \/ (rphase = "wait exit" /\ rphase' = "cleanup" /\ bearer.st = "exited" /\ exit' = bearer.code)
      BY <2>2 DEF run_attached, OpenLogs, FollowLogs, AskState, WaitExit, Go, FailedRun, endVars
    <3> QED BY <3>1, <3>2, <3>3
  <2> QED BY <2>1, <2>2
<1>6. /\ own'.id = own.id /\ own'.by = own.by /\ own'.code = own.code
      /\ rphase \notin {"start", "start attached"} => own' = own
      /\ own' \in [id : Nat, st : {"none", "created", "running", "exited", "gone"}, code : Nat,
                   by : {"none", "others", "run"}]
      /\ bearer' \in [id : Nat, owner : {"none", "project", "other"}, st : {"none", "created", "running", "exited"},
                     code : Nat, since : {"none", "before", "checked", "looked", "run"}]
      /\ IdsAgree'
  <2>1. CASE bearer' = bearer /\ own' = own BY <1>1, <2>1 DEF IdsAgree, OneoffTypeOK
  <2>2. CASE rphase \in {"start", "start attached"} /\ bearer # Nobody /\ Starts
    <3>1. own.st \in {"created", "gone"} BY <1>4, <2>2
    <3>2. /\ own'.id = own.id /\ own'.by = own.by /\ own'.code = own.code
          /\ own'.st \in {"running", "gone"} /\ bearer'.id = bearer.id
          /\ own' \in [id : Nat, st : {"none", "created", "running", "exited", "gone"}, code : Nat,
                       by : {"none", "others", "run"}]
          /\ bearer' \in [id : Nat, owner : {"none", "project", "other"}, st : {"none", "created", "running", "exited"},
                         code : Nat, since : {"none", "before", "checked", "looked", "run"}]
          /\ (bearer'.id = 0 \/ bearer'.owner = "none" => bearer' = Nobody)
          /\ own'.st = "gone" <=> own'.by # "none"
          /\ bearer'.id = own'.id => bearer'.st = own'.st
      BY <1>2, <2>2, <3>1, StartingByName
    <3>3. IdsAgree' BY <1>1, <1>2, <3>2 DEF IdsAgree
    <3> QED BY <2>2, <3>2, <3>3
  <2> QED BY <1>3, <2>1, <2>2
<1>7. exit' \in Nat BY <1>5 DEF OneoffTypeOK
<1>8. following' \in Nat
  BY DEF StartOneOff, run_attached, OpenLogs, FollowLogs, AskState, WaitExit, OneoffTypeOK, endVars
<1>9. OneoffTypeOK'
  <2>1. rphase' \in Before \cup Made \cup {"done"} BY <1>5 DEF Made, NotStartedYet, Watched
  <2> QED BY <1>1, <1>6, <1>7, <1>8, <2>1 DEF OneoffTypeOK, depVars
<1>10. Staged'
  <2>1. rphase' \notin Before /\ rphase' # "done" BY <1>5 DEF Before
  <2>2. rphase' \in NotStartedYet => own'.st \in {"created", "gone"}
    BY <1>4, <1>5, <1>6 DEF NotStartedYet
  <2>3. ASSUME exit' # NoCode
        PROVE  rphase' = "cleanup" /\ (own'.by # "others" => exit' = own'.code /\ own'.st \in {"exited", "gone"})
    <3>1. /\ rphase = "wait exit" /\ rphase' = "cleanup" /\ bearer.st = "exited" /\ exit' = bearer.code /\ own' = own
      BY <1>2, <1>5, <1>6, <2>3
    <3>2. ASSUME own.by # "others" PROVE exit' = own.code /\ own.st = "exited"
      <4>1. own.by = "none" BY <1>2, <3>2 DEF OneoffTypeOK
      <4>2. bearer.id = own.id /\ own.st = "exited" BY <1>2, <3>1, <4>1 DEF IdsAgree
      <4> QED BY <1>2, <3>1, <4>2 DEF IdsAgree
    <3> QED BY <3>1, <3>2
  <2> QED BY <1>1, <1>2, <1>5, <1>6, <2>1, <2>2, <2>3 DEF Staged
<1>11. CleansUp' BY <1>5 DEF CleansUp
<1>12. rphase' \in Made \cup {"done"} BY <1>5 DEF Made, NotStartedYet, Watched
<1> QED BY <1>1, <1>2, <1>6, <1>9, <1>10, <1>11, <1>12, AfterMade

\* A run that is over has cleaned up as it was asked, or says that it has not.
LEMMA EndingSteps ==
  ASSUME OneoffIInv, NotStarted \/ Detach \/ CleanUpOneOff
  PROVE  OneoffIInv'
<1> USE DEF OneoffIInv
<1>1. /\ UNCHANGED <<rjob, rboard, meddles, issued, mine, following, exit>> /\ UNCHANGED depVars /\ UNCHANGED planVars
      /\ rphase \in {"not started", "name it", "cleanup"} /\ rphase' = "done"
  BY DEF NotStarted, Detach, CleanUpOneOff, EndRun, nameVars, endVars
<1>2. /\ own.id # 0 /\ mine = own.id /\ own.by # "run" /\ cleanup = "none"
      /\ own \in [id : Nat, st : {"none", "created", "running", "exited", "gone"}, code : Nat,
                  by : {"none", "others", "run"}]
      /\ own.st # "none" /\ bearer.id \in 0 .. issued /\ own.id \in 0 .. issued
  BY <1>1 DEF Staged, Made, NotStartedYet, Watched, IdsAgree, OneoffTypeOK
<1>3. exit # NoCode /\ own.by # "others" => exit = own.code /\ own.st \in {"exited", "gone"}
  BY DEF Staged
<1>4. rphase' \notin Before \cup Made \cup NotStartedYet \cup Watched
  BY <1>1 DEF Before, Made, NotStartedYet, Watched
<1>5. CASE rjob.rm /\ DeleteMine /\ cleanup' = "done"
  <2>1. /\ own'.id = own.id /\ own'.st = "gone" /\ own'.code = own.code /\ own'.by # "none" /\ cleared' = cleared
        /\ own.by = "others" => own'.by = "others"
        /\ own.by # "others" => own'.by = "run"
        /\ own' \in [id : Nat, st : {"none", "created", "running", "exited", "gone"}, code : Nat,
                     by : {"none", "others", "run"}]
        /\ bearer' \in {bearer, Nobody} /\ bearer'.id # own.id
    BY <1>2, <1>5, DeletingMine
  <2>2. rphase \in {"not started", "cleanup"} /\ rresult' \in {"ok", "error", "exited"}
    BY <1>2, <1>5 DEF NotStarted, Detach, CleanUpOneOff, EndRun, finish_run, endVars
  <2>3. ~rjob.detach \/ rresult' = "error"
    <3>1. CASE rphase = "not started" BY <3>1 DEF NotStarted, Detach, CleanUpOneOff, EndRun
    <3>2. CASE rphase = "cleanup" BY <3>2 DEF Staged, Watched
    <3> QED BY <2>2, <3>1, <3>2
  <2>4. /\ bearer' \in [id : Nat, owner : {"none", "project", "other"}, st : {"none", "created", "running", "exited"},
                        code : Nat, since : {"none", "before", "checked", "looked", "run"}]
        /\ (bearer'.id = 0 \/ bearer'.owner = "none" => bearer' = Nobody)
        /\ bearer'.id \in 0 .. issued
    <3>1. CASE bearer' = bearer BY <1>2, <3>1 DEF OneoffTypeOK, IdsAgree
    <3>2. CASE bearer' = Nobody BY <3>2 DEF OneoffTypeOK, Nobody
    <3> QED BY <2>1, <3>1, <3>2
  <2>5. OneoffTypeOK' BY <1>1, <1>5, <2>1, <2>2, <2>4 DEF OneoffTypeOK, depVars
  <2>6. IdsAgree' BY <1>1, <1>2, <2>1, <2>4 DEF IdsAgree
  <2>7. Staged' BY <1>1, <1>2, <1>3, <1>4, <2>1 DEF Staged
  <2>8. CleansUp'
    <3>1. rjob'.rm /\ cleanup' = "done" /\ own'.st = "gone" BY <1>1, <1>5, <2>1
    <3>2. ~(rjob'.detach /\ rresult' = "ok") BY <1>1, <2>3
    <3> QED BY <3>1, <3>2 DEF CleansUp
  <2> QED BY <1>1, <1>2, <2>1, <2>5, <2>6, <2>7, <2>8, AfterMade
<1>6. CASE \/ rjob.rm /\ cleanup' = "failed" /\ UNCHANGED <<bearer, own, cleared>>
           \/ ~rjob.rm /\ UNCHANGED <<bearer, own, cleared, cleanup>>
           \/ Detach
  <2>1. bearer' = bearer /\ own' = own /\ cleared' = cleared BY <1>6 DEF Detach, nameVars
  <2>2. rresult' \in {"ok", "error", "exited"} /\ cleanup' \in {"none", "failed"}
        /\ (cleanup' = "failed" => rresult' # "ok")
    <3>1. CASE NotStarted
      <4>1. rresult' = "error" /\ ~Detach BY <3>1 DEF NotStarted, EndRun, Detach
      <4> QED BY <1>2, <1>6, <4>1
    <3>2. CASE Detach BY <1>2, <3>2 DEF Detach, EndRun, endVars
    <3>3. CASE CleanUpOneOff
      <4>1. rresult' = finish_run(exit, cleanup' # "failed") BY <3>3 DEF CleanUpOneOff, EndRun
      <4>2. finish_run(exit, cleanup' # "failed") \in {"ok", "error", "exited"}
            /\ (cleanup' = "failed" => finish_run(exit, cleanup' # "failed") # "ok")
        <5>1. CASE cleanup' = "failed" BY <5>1 DEF finish_run, NoCode
        <5>2. CASE cleanup' # "failed" BY <5>2 DEF finish_run, NoCode
        <5> QED BY <5>1, <5>2
      <4>3. cleanup' \in {"none", "failed"} BY <1>1, <1>2, <1>6, <3>3 DEF Detach, CleanUpOneOff
      <4> QED BY <4>1, <4>2, <4>3
    <3> QED BY <3>1, <3>2, <3>3
  <2>3. OneoffTypeOK'
    <3>1. rresult' \in {"none", "ok", "error", "refused", "exited"} /\ cleanup' \in {"none", "done", "failed"}
      BY <2>2
    <3> QED BY <1>1, <2>1, <3>1 DEF OneoffTypeOK, depVars
  <2>4. IdsAgree' BY <1>1, <2>1 DEF IdsAgree
  <2>5. Staged' BY <1>1, <1>2, <1>3, <1>4, <2>1 DEF Staged
  <2>6. rjob.rm => cleanup' = "failed" \/ (rjob.detach /\ cleanup' = "none")
    <3>1. CASE Detach
      <4>1. rjob.detach BY <3>1 DEF Detach, Staged
      <4> QED BY <1>2, <3>1, <4>1 DEF Detach, endVars
    <3>2. CASE ~Detach BY <1>6, <3>2
    <3> QED BY <3>1, <3>2
  <2>7. CleansUp' BY <1>1, <1>2, <2>1, <2>2, <2>6 DEF CleansUp
  <2> QED BY <1>1, <1>2, <2>1, <2>3, <2>4, <2>5, <2>7, AfterMade
<1> QED BY <1>5, <1>6 DEF NotStarted, CleanUpOneOff

\* Others may end it, or take its name: what the run knows of its own stays true.
LEMMA OthersSteps ==
  ASSUME OneoffIInv, ContainerExits \/ NameFreed \/ NameTaken
  PROVE  OneoffIInv'
<1> USE DEF OneoffIInv
<1>1. /\ UNCHANGED <<rjob, rphase, rresult, rboard, mine, following, exit, cleanup, cleared>>
      /\ UNCHANGED depVars /\ UNCHANGED planVars /\ NameMatters
      /\ issued' \in {issued, issued + 1} /\ meddles' \in {meddles, meddles + 1}
  BY DEF ContainerExits, NameFreed, NameTaken, Others
<1>2. /\ own \in [id : Nat, st : {"none", "created", "running", "exited", "gone"}, code : Nat,
                  by : {"none", "others", "run"}]
      /\ bearer \in [id : Nat, owner : {"none", "project", "other"}, st : {"none", "created", "running", "exited"},
                     code : Nat, since : {"none", "before", "checked", "looked", "run"}]
      /\ issued \in Nat \ {0} /\ meddles \in Nat
  BY DEF OneoffTypeOK
<1>3. rphase # "done" BY <1>1 DEF NameMatters
<1>4. /\ own'.id = own.id
      /\ own.by # "none" => own' = own
      /\ \/ own' = own
         \/ own.id # 0 /\ own.st = "running" /\ own.by = "none" /\ own'.st = "exited" /\ own'.by = "none"
         \/ own.id # 0 /\ own'.st = "gone" /\ own'.by = "others"
      /\ own' \in [id : Nat, st : {"none", "created", "running", "exited", "gone"}, code : Nat,
                   by : {"none", "others", "run"}]
      /\ bearer' \in [id : Nat, owner : {"none", "project", "other"}, st : {"none", "created", "running", "exited"},
                      code : Nat, since : {"none", "before", "checked", "looked", "run"}]
      /\ IdsAgree'
  <2> USE DEF IdsAgree
  <2>1. CASE ContainerExits
    <3>1. /\ bearer.st = "running" /\ bearer' = [bearer EXCEPT !.st = "exited"] /\ issued' = issued
          /\ own' = IF bearer.id = own.id THEN [own EXCEPT !.st = "exited", !.code = bearer.code] ELSE own
      BY <2>1 DEF ContainerExits
    <3>2. bearer.id # 0 /\ bearer.owner # "none" BY <3>1 DEF Nobody
    <3>3. CASE bearer.id = own.id
      <4>1. own.st = "running" /\ own.by = "none" BY <1>2, <3>1, <3>2, <3>3
      <4>2. own' = [own EXCEPT !.st = "exited", !.code = bearer.code] BY <3>1, <3>3
      <4> QED BY <1>1, <1>2, <3>1, <3>2, <3>3, <4>1, <4>2
    <3>4. CASE bearer.id # own.id BY <1>1, <1>2, <3>1, <3>2, <3>4
    <3> QED BY <3>3, <3>4
  <2>2. CASE NameFreed
    <3>1. /\ bearer # Nobody /\ bearer' = Nobody /\ issued' = issued
          /\ own' = IF bearer.id = own.id THEN [own EXCEPT !.st = "gone", !.by = "others"] ELSE own
      BY <2>2 DEF NameFreed
    <3>2. bearer.id # 0 /\ Nobody.id = 0
          /\ Nobody \in [id : Nat, owner : {"none", "project", "other"}, st : {"none", "created", "running", "exited"},
                         code : Nat, since : {"none", "before", "checked", "looked", "run"}]
      BY <3>1 DEF Nobody
    <3>3. CASE bearer.id = own.id
      <4>1. own.st # "gone" /\ own.by = "none" BY <1>2, <3>2, <3>3
      <4>2. own' = [own EXCEPT !.st = "gone", !.by = "others"] BY <3>1, <3>3
      <4>3. /\ own'.id = own.id /\ own'.st = "gone" /\ own'.by = "others"
            /\ own' \in [id : Nat, st : {"none", "created", "running", "exited", "gone"}, code : Nat,
                         by : {"none", "others", "run"}]
        BY <1>2, <4>2
      <4>4. own.id # 0 /\ bearer'.id = 0 /\ mine' = mine BY <1>1, <3>1, <3>2, <3>3
      <4>5. IdsAgree' BY <1>2, <3>1, <3>2, <4>3, <4>4
      <4> QED BY <3>1, <3>2, <4>1, <4>3, <4>4, <4>5
    <3>4. CASE bearer.id # own.id BY <1>1, <1>2, <3>1, <3>2, <3>4
    <3> QED BY <3>3, <3>4
  <2>3. CASE NameTaken
    <3>1. bearer = Nobody /\ issued' = issued + 1 /\ own' = own BY <2>3 DEF NameTaken
    <3>2. PICK owner \in {"project", "other"} :
            bearer' = [id |-> issued', owner |-> owner, st |-> "running", code |-> 7, since |-> Epoch]
      BY <2>3 DEF NameTaken
    <3>3. Epoch \in {"before", "checked", "looked", "run"} BY DEF Epoch
    <3>4. bearer'.id = issued + 1 /\ bearer'.owner # "none" BY <3>1, <3>2
    <3>5. bearer' \in [id : Nat, owner : {"none", "project", "other"}, st : {"none", "created", "running", "exited"},
                       code : Nat, since : {"none", "before", "checked", "looked", "run"}]
      BY <1>2, <3>1, <3>2, <3>3
    <3>6. bearer.id = 0 BY <3>1 DEF Nobody
    <3> QED BY <1>1, <1>2, <3>1, <3>4, <3>5, <3>6
  <2> QED BY <2>1, <2>2, <2>3
<1>5. OneoffTypeOK' BY <1>1, <1>2, <1>4 DEF OneoffTypeOK, depVars
<1>6. Staged'
  <2>1. rphase \in Before => own'.id = 0 BY <1>1, <1>4 DEF Staged
  <2>2. rphase \in Made => own'.id # 0 /\ mine = own'.id /\ own'.by # "run"
    BY <1>4 DEF Staged
  <2>3. rphase \in NotStartedYet => own'.st \in {"created", "gone"} BY <1>4 DEF Staged
  <2>4. ASSUME exit # NoCode, own'.by # "others" PROVE exit = own'.code /\ own'.st \in {"exited", "gone"}
    <3>1. own' = own BY <1>4, <2>4 DEF Staged
    <3> QED BY <2>4, <3>1 DEF Staged
  <2> QED BY <1>1, <2>1, <2>2, <2>3, <2>4 DEF Staged
<1>7. CleansUp' BY <1>1, <1>3 DEF CleansUp
<1>8. OthersSpared' BY <1>1 DEF OthersSpared
<1>9. (DepsSeen /\ Specified /\ Provided /\ MountsReady)' BY <1>1, <1>4, PlanKept DEF depVars, planVars
<1>10. Cleared'
  <2>1. CASE ContainerExits
    <3>1. bearer' = [bearer EXCEPT !.st = "exited"] /\ bearer.st = "running" BY <2>1 DEF ContainerExits
    <3>2. bearer # Nobody BY <3>1 DEF Nobody
    <3>3. bearer'.since = bearer.since /\ bearer'.owner = bearer.owner BY <1>2, <3>1
    <3> QED BY <1>1, <3>2, <3>3 DEF Cleared
  <2>2. CASE NameFreed
    <3>1. bearer' = Nobody BY <2>2 DEF NameFreed
    <3> QED BY <3>1 DEF Cleared, Nobody
  <2>3. CASE NameTaken
    <3>1. PICK owner \in {"project", "other"} :
            bearer' = [id |-> issued', owner |-> owner, st |-> "running", code |-> 7, since |-> Epoch]
      BY <2>3 DEF NameTaken
    <3>2. /\ rphase \in {"init", "lookup"} => Epoch = "checked"
          /\ rphase = "clear" => Epoch = "looked"
      BY DEF Epoch
    <3> QED BY <1>1, <3>1, <3>2 DEF Cleared
  <2> QED BY <2>1, <2>2, <2>3
<1> QED BY <1>5, <1>4, <1>6, <1>7, <1>8, <1>9, <1>10

\* The invariant of a run is inductive.
LEMMA OneoffNextIInv == OneoffIInv /\ [OneoffNext]_oneoffVars => OneoffIInv'
<1> SUFFICES ASSUME OneoffIInv, [OneoffNext]_oneoffVars PROVE OneoffIInv' OBVIOUS
<1>1. CASE RunRefused \/ job_file_for_run \/ StartDependencies \/ DependencyMoves \/ wait_target_dependencies
  BY <1>1, DependencySteps
<1>2. CASE \/ ApplyFlags \/ acquire_service_image \/ create_networks \/ create_volumes \/ PrepareRest
           \/ container_exists
  BY <1>2, PreparationSteps
<1>3. CASE run_pre_start \/ LookUp \/ ClearName BY <1>3, NameSteps
<1>4. CASE CreateContainer BY <1>4, ContainerMade
<1>5. CASE StartOneOff \/ run_attached \/ OpenLogs \/ FollowLogs \/ AskState \/ WaitExit BY <1>5, RunningSteps
<1>6. CASE NotStarted \/ Detach \/ CleanUpOneOff BY <1>6, EndingSteps
<1>7. CASE ContainerExits \/ NameFreed \/ NameTaken BY <1>7, OthersSteps
<1>8. CASE UNCHANGED oneoffVars
  <2> USE <1>8 DEF OneoffIInv, oneoffVars
  <2>1. (DepsSeen /\ Specified /\ Provided /\ MountsReady)' BY PlanKept
  <2>2. OneoffTypeOK' BY DEF OneoffTypeOK
  <2>4. IdsAgree' /\ Staged' BY DEF IdsAgree, Staged
  <2>3. (Cleared /\ CleansUp /\ OthersSpared)' BY DEF Cleared, CleansUp, OthersSpared
  <2> QED BY <2>1, <2>2, <2>3, <2>4
<1> QED BY <1>1, <1>2, <1>3, <1>4, <1>5, <1>6, <1>7, <1>8 DEF OneoffNext

(* A one-off run makes the container that was asked for when what it needs   *)
(* is there, reports that container's own end unless others removed it, and  *)
(* removes of its own what it should and of others only what the flags allow *)
(* or what took the name after it was looked up, whatever the flags and the  *)
(* host (lifecycle/run).                                                     *)
THEOREM RunIsFaithful == OneoffSpec => []RunFaithful
<1>1. OneoffIInv => RunFaithful
  <2> SUFFICES ASSUME OneoffIInv PROVE RunFaithful OBVIOUS
  <2> USE DEF OneoffIInv
  <2>1. CodeIsOwn BY DEF CodeIsOwn, Staged
  <2>2. DepsFirst BY DEF DepsFirst, DepsSeen
  <2>3. AsAsked
    <3>1. CASE own.id = 0 BY <3>1 DEF AsAsked
    <3>2. CASE own.id # 0
      <4>1. rspec = ResolvedSpec BY <3>2 DEF Specified
      <4> QED BY <4>1, MadeAsAsked DEF OneoffTypeOK
    <3> QED BY <3>1, <3>2
  <2> QED BY <2>1, <2>2, <2>3 DEF RunFaithful
<1> QED BY OneoffInitIInv, OneoffNextIInv, <1>1, PTL DEF OneoffSpec

=============================================================================

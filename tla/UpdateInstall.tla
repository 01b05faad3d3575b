---------------------------- MODULE UpdateInstall ----------------------------
(***************************************************************************)
(* `podup update` (src/internal/update): processes that resolve the latest *)
(* release, fetch its signed manifest and its binary, and put the binary   *)
(* in the place of the installed one with a backup to fall back on.  Every *)
(* step touches the disk once, and a process may be killed between any two *)
(* of them.                                                                *)
(*                                                                         *)
(* A release is a number, and its binary is named by it: two binaries have *)
(* one digest only if they are of one release.  A file is known by its     *)
(* inode: the one first installed, or the one staged by an updater.        *)
(***************************************************************************)
EXTENDS Integers

CONSTANTS Updaters,   \* processes running `podup update`, each once
          Releases,   \* versions, by number
          Works,      \* the releases whose binary answers --version
          Original,   \* the inode installed at first
          Nothing     \* no file, no release, no process

ASSUME ReleaseAssumption == Releases \subseteq Nat /\ Works \subseteq Releases

ASSUME NameAssumption ==
  Original \notin Updaters /\ Nothing \notin Updaters \cup {Original} /\ Nothing \notin Releases

VARIABLES
  pc,        \* where each updater is
  force,     \* was it given --force
  tag,       \* the release the metadata named to it
  content,   \* the release whose bytes an inode holds
  found,     \* the version it found installed, under the lock
  was,       \* the inode it found installed, under the lock
  holder,    \* the process that holds the lock of `.old.lock`
  target,    \* the inode at the installed path
  backup,    \* the inode at the `.old` path
  tmp,       \* each updater's staged file: absent, partial or whole
  links,     \* does the file system have hard links
  stale      \* history: a backup left by a killed updater was deleted, and was all there was

vars == <<pc, force, tag, content, found, was, holder, target, backup, tmp, links, stale>>
disk == <<target, backup, tmp, stale>>
plan == <<force, tag, content>>

Inodes == {Original} \cup Updaters

Ended == {"idle", "current", "failed", "updated", "stuck", "killed"}
Locked == {"precheck", "aside", "link", "stage", "write", "swap", "test", "restore", "clean"}
Stages == Ended \cup Locked \cup {"manifest", "binary", "locate", "lock"}

\* Does the file there run?
Runs(i) == i # Nothing /\ content[i] \in Works

Init ==
  /\ pc = [p \in Updaters |-> "idle"]
  /\ force \in [Updaters -> BOOLEAN]
  /\ tag = [p \in Updaters |-> Nothing]
  /\ \E r \in Works : content = [i \in Inodes |-> IF i = Original THEN r ELSE Nothing]
  /\ found = [p \in Updaters |-> Nothing]
  /\ was = [p \in Updaters |-> Nothing]
  /\ holder = Nothing
  /\ target = Original
  /\ backup = Nothing
  /\ tmp = [p \in Updaters |-> "absent"]
  /\ links \in BOOLEAN
  /\ stale = FALSE

Goto(p, s) == pc' = [pc EXCEPT ![p] = s]

\* The process leaves install_verified_at, and the lock goes with its handle.
Leave(p, s) == Goto(p, s) /\ holder' = Nothing

(***************************************************************************)
(* Deciding and fetching: no lock, nothing on disk.                        *)
(***************************************************************************)

\* The installed binary is started, and the metadata names release t.
Resolve(p) ==
  /\ pc[p] = "idle"
  /\ Runs(target)
  /\ \E t \in Releases :
       /\ tag' = [tag EXCEPT ![p] = t]
       /\ Goto(p, IF t <= content[target] /\ ~force[p] THEN "current" ELSE "manifest")
  /\ UNCHANGED <<force, content, found, was, holder, disk, links>>

\* The run stops before it touches anything.
Refuse(p, stages) ==
  /\ pc[p] \in stages
  /\ Goto(p, "failed")
  /\ UNCHANGED <<plan, found, was, holder, disk, links>>

\* --check only reports.
CheckOnly(p) ==
  /\ pc[p] = "manifest"
  /\ Goto(p, "current")
  /\ UNCHANGED <<plan, found, was, holder, disk, links>>

\* The binary belongs to a package manager, or that cannot be found out.
PackageManaged(p) == Refuse(p, {"manifest"})

\* A request failed for good, three times or deterministically.
DownloadFailed(p) == Refuse(p, {"manifest", "binary"})

\* No key of this build signed the manifest.
SignatureRefused(p) == Refuse(p, {"manifest"})

\* The manifest has no digest for this platform, or one that is malformed.
DigestMissing(p) == Refuse(p, {"manifest"})

\* The path this process was started from cannot be resolved any more.
NotLocated(p) == Refuse(p, {"locate"})

Stop(p) ==
  \/ CheckOnly(p) \/ PackageManaged(p) \/ DownloadFailed(p) \/ SignatureRefused(p)
  \/ DigestMissing(p) \/ NotLocated(p)

\* SHA256SUMS and its signature come from whatever release is the latest by
\* now, and so, one request later, does the binary.
FetchManifest(p) ==
  /\ pc[p] = "manifest"
  /\ \E m \in Releases : content' = [content EXCEPT ![p] = m]
  /\ Goto(p, "binary")
  /\ UNCHANGED <<force, tag, found, was, holder, disk, links>>

FetchBinary(p) ==
  /\ pc[p] = "binary"
  /\ \E b \in Releases : Goto(p, IF b = content[p] THEN "locate" ELSE "failed")
  /\ UNCHANGED <<plan, found, was, holder, disk, links>>

\* current_exe and canonicalize.  Once the file it was started from has been
\* replaced, a process may be told the old path or a path that does not exist.
Locate(p) ==
  /\ pc[p] = "locate"
  /\ target # Nothing
  /\ Goto(p, "lock")
  /\ UNCHANGED <<plan, found, was, holder, disk, links>>

(***************************************************************************)
(* The transaction, under the lock.                                        *)
(***************************************************************************)

AcquireAnyway(p) ==
  /\ pc[p] = "lock"
  /\ Goto(p, "precheck")
  /\ holder' = p
  /\ UNCHANGED <<plan, found, was, disk, links>>

\* flock(LOCK_EX | LOCK_NB): the loser gives up at once.
acquire(p) ==
  /\ pc[p] = "lock"
  /\ IF holder = Nothing
     THEN Goto(p, "precheck") /\ holder' = p
     ELSE Goto(p, "failed") /\ UNCHANGED holder
  /\ UNCHANGED <<plan, found, was, disk, links>>

\* What installed_version can return: nothing from a file that is absent or does
\* not run, and nothing from one that does not answer in time.
installed_version == {Nothing} \cup (IF Runs(target) THEN {content[target]} ELSE {})

NotChecked(p, v) == TRUE

ensure_not_older(p, v) == v # Nothing => v <= tag[p]

Precheck(p) ==
  /\ pc[p] = "precheck"
  /\ \E v \in installed_version :
       IF force[p] \/ ensure_not_older(p, v)
       THEN /\ Goto(p, "aside")
            /\ found' = [found EXCEPT ![p] = IF force[p] THEN Nothing ELSE v]
            /\ was' = [was EXCEPT ![p] = target]
            /\ UNCHANGED holder
       ELSE Leave(p, "failed") /\ UNCHANGED <<found, was>>
  /\ UNCHANGED <<plan, disk, links>>

\* move_target_aside, first half: whatever a killed updater left goes.
RemoveStale(p) ==
  /\ pc[p] = "aside"
  /\ \/ /\ Goto(p, "link")
        /\ backup' = Nothing
        /\ stale' = (stale \/ (backup # Nothing /\ ~Runs(target)))
        /\ UNCHANGED holder
     \/ /\ backup # Nothing
        /\ Leave(p, "failed")
        /\ UNCHANGED <<backup, stale>>
  /\ UNCHANGED <<plan, found, was, target, tmp, links>>

MoveNothing(p) ==
  /\ pc[p] = "link"
  /\ Goto(p, "stage")
  /\ UNCHANGED <<plan, found, was, holder, disk, links>>

\* Second half: a hard link, or a rename that leaves the path empty.
MoveAside(p) ==
  /\ pc[p] = "link"
  /\ \/ /\ Goto(p, "stage")
        /\ backup' = target
        /\ target' = IF links THEN target ELSE Nothing
        /\ UNCHANGED holder
     \/ /\ target # Nothing
        /\ ~links
        /\ Leave(p, "failed")
        /\ UNCHANGED <<target, backup>>
  /\ UNCHANGED <<plan, found, was, tmp, links, stale>>

\* write_temp: any leftover of the name goes, the file is created, then filled.
CreateTemp(p) ==
  /\ pc[p] = "stage"
  /\ \/ Goto(p, "write") /\ tmp' = [tmp EXCEPT ![p] = "partial"]
     \/ Goto(p, "restore") /\ tmp' = [tmp EXCEPT ![p] = "absent"]
  /\ UNCHANGED <<plan, found, was, holder, target, backup, links, stale>>

WriteTemp(p) ==
  /\ pc[p] = "write"
  /\ \/ Goto(p, "swap") /\ tmp' = [tmp EXCEPT ![p] = "whole"]
     \/ Goto(p, "restore") /\ tmp' = [tmp EXCEPT ![p] = "absent"]
  /\ UNCHANGED <<plan, found, was, holder, target, backup, links, stale>>

swap_into_place(p) ==
  /\ pc[p] = "swap"
  /\ \/ Goto(p, "test") /\ target' = p
     \/ Goto(p, "restore") /\ UNCHANGED target
  /\ tmp' = [tmp EXCEPT ![p] = "absent"]
  /\ UNCHANGED <<plan, found, was, holder, backup, links, stale>>

AnswersAtAll(p) == Runs(target)

\* self_test: the file answers in time, and names the release that was resolved.
PassesTest(p) == Runs(target) /\ content[target] = tag[p]

self_test(p) ==
  /\ pc[p] = "test"
  /\ \/ PassesTest(p) /\ Goto(p, "clean")
     \/ Goto(p, "restore")
  /\ UNCHANGED <<plan, found, was, holder, disk, links>>

ForgetBackup(p) ==
  /\ pc[p] = "restore"
  /\ backup' = Nothing
  /\ Leave(p, "failed")
  /\ UNCHANGED <<plan, found, was, target, tmp, links, stale>>

\* restore_from_backup: a backup that is the target itself is only removed, a
\* missing one is an error.
restore_from_backup(p) ==
  /\ pc[p] = "restore"
  /\ \/ /\ backup # Nothing
        /\ target' = backup
        /\ backup' = Nothing
        /\ Leave(p, "failed")
     \/ Leave(p, "stuck") /\ UNCHANGED <<target, backup>>
  /\ UNCHANGED <<plan, found, was, tmp, links, stale>>

\* The backup is removed as well as may be.
RemoveBackup(p) ==
  /\ pc[p] = "clean"
  /\ backup' \in {Nothing, backup}
  /\ Leave(p, "updated")
  /\ UNCHANGED <<plan, found, was, target, tmp, links, stale>>

\* Killed: the lock goes, the files stay.
Kill(p) ==
  /\ pc[p] \notin Ended
  /\ pc' = [pc EXCEPT ![p] = "killed"]
  /\ holder' = IF holder = p THEN Nothing ELSE holder
  /\ UNCHANGED <<plan, found, was, disk, links>>

Step(p) ==
  \/ Resolve(p) \/ Stop(p) \/ FetchManifest(p) \/ FetchBinary(p) \/ Locate(p)
  \/ acquire(p) \/ Precheck(p) \/ RemoveStale(p) \/ MoveAside(p)
  \/ CreateTemp(p) \/ WriteTemp(p) \/ swap_into_place(p) \/ self_test(p)
  \/ restore_from_backup(p) \/ RemoveBackup(p) \/ Kill(p)

Next == \E p \in Updaters : Step(p)

Spec == Init /\ [][Next]_vars

(***************************************************************************)
(* Properties                                                              *)
(***************************************************************************)

\* The types of the state.
TypeOK ==
  /\ pc \in [Updaters -> Stages]
  /\ force \in [Updaters -> BOOLEAN]
  /\ tag \in [Updaters -> Releases \cup {Nothing}]
  /\ content \in [Inodes -> Releases \cup {Nothing}]
  /\ found \in [Updaters -> Releases \cup {Nothing}]
  /\ was \in [Updaters -> Inodes \cup {Nothing}]
  /\ holder \in Updaters \cup {Nothing}
  /\ target \in Inodes \cup {Nothing}
  /\ backup \in Inodes \cup {Nothing}
  /\ tmp \in [Updaters -> {"absent", "partial", "whole"}]
  /\ links \in BOOLEAN
  /\ stale \in BOOLEAN

\* The lock is held by the one updater that is inside the transaction.
LockHeld == \A p \in Updaters : pc[p] \in Locked <=> holder = p

\* An updater past its decision has a release in mind and, once it has fetched
\* them, the bytes of one.
Decided ==
  \A p \in Updaters :
    /\ pc[p] \in (Locked \cup {"manifest", "binary", "locate", "lock", "updated"}) => tag[p] \in Releases
    /\ pc[p] \in (Locked \cup {"binary", "locate", "lock", "updated"}) => content[p] \in Releases
    /\ (target = p \/ backup = p) => content[p] \in Releases

\* An updater that has not swapped yet is at neither path; one that is staging
\* has a file of its own.
NotYet ==
  \A p \in Updaters :
    /\ pc[p] \in Stages \ {"test", "restore", "clean", "updated", "killed", "stuck"}
         => target # p /\ backup # p
    /\ backup = p => pc[p] \in {"updated", "killed", "stuck"}
    /\ pc[p] \in {"write", "swap", "killed"} \/ tmp[p] = "absent"

\* Inside the transaction the paths hold what it put there, whatever others did.
Transaction ==
  \A p \in Updaters :
    /\ pc[p] \in {"aside", "link"} => target = was[p]
    /\ pc[p] = "link" => backup = Nothing
    /\ pc[p] \in {"stage", "write", "swap"} => backup = was[p] /\ target \in {was[p], Nothing}
    /\ pc[p] \in {"test", "clean"} => backup = was[p] /\ target = p
    /\ pc[p] = "restore" => backup = was[p] /\ target \in {was[p], Nothing, p}
    /\ pc[p] \in {"stage", "write", "swap", "test", "restore", "clean"} => stale \/ Runs(was[p])
    /\ pc[p] = "clean" => Runs(p) /\ content[p] = tag[p]
    /\ pc[p] \in {"aside", "link", "stage", "write", "swap"} => was[p] # p
    /\ (pc[p] \in Locked \ {"precheck"} /\ found[p] # Nothing) =>
         /\ was[p] # Nothing
         /\ content[was[p]] = found[p]
         /\ found[p] <= tag[p]
         /\ ~force[p]

\* Whatever is killed or fails, one of the two paths holds a binary that runs;
\* unless an updater was killed when its backup was all that ran, for the next
\* one deletes that before it looks (install/backup.rs, move_target_aside).
Recoverable == stale \/ Runs(target) \/ Runs(backup)

\* What the transaction's comment says without that exception
\* (install/mod.rs:107-108): a failed self-test always has a rollback target.
AlwaysRollback == \A p \in Updaters : pc[p] = "test" => backup # Nothing

\* An update that is reported as done put a binary there that runs, that the
\* manifest lists and that names the very release resolved at the start, though
\* tag, manifest and binary are three requests to a moving "latest"
\* (mod.rs run_with_verifier, install/self_test.rs).
UpdatedIsResolved ==
  \A p \in Updaters : pc[p] = "updated" => content[p] = tag[p] /\ content[p] \in Works

\* A run that fails, and whose roll-back did not fail as well, leaves none of
\* its files at any of the three paths.
FailureLeavesNothing ==
  \A p \in Updaters : pc[p] = "failed" => target # p /\ backup # p /\ tmp[p] = "absent"

\* The inductive invariant: the types, the lock, and what the transaction in
\* progress has put where, which Recoverable needs (install_verified_at).
IInv == TypeOK /\ LockHeld /\ Decided /\ NotYet /\ Transaction /\ Recoverable

\* Without --force an update that is about to be reported as done has not put an
\* older binary over the one it was told is installed, which is the one in the
\* backup, whatever others have installed since it took its decision
\* (install/mod.rs, ensure_not_older under the lock).
NoDowngrade ==
  \A p \in Updaters :
    (pc[p] = "clean" /\ ~force[p] /\ found[p] # Nothing) =>
      backup # Nothing /\ content[backup] <= content[target]
=============================================================================

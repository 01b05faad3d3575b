----------------------------- MODULE CopyUpload -----------------------------
(***************************************************************************)
(* `podup cp HOST SERVICE:PATH` (engine/host_files/copy): where the copy   *)
(* lands, what is packed into the archive, the packing task and the PUT    *)
(* that run side by side on the two ends of a bounded channel, and the     *)
(* confirmation of an upload whose answer was lost.                        *)
(*                                                                         *)
(* A path is a sequence of names.  A host tree is a sequence of nodes      *)
(* [path, k, size, raw, abs] in the order a sorted walk meets them: `k` is *)
(* the kind, `raw`/`abs` the text of a link.  A container's filesystem is  *)
(* a function from the paths that exist to such nodes.                     *)
(***************************************************************************)
EXTENDS Naturals, Sequences, SequencesExt, FiniteSetsExt

CONSTANTS
    Tree,           \* the host's files
    Uploads,        \* records [src, follow, contents, dst, slash]
    Filesystems,    \* what the container may hold before the copy
    ChannelCap,     \* CHANNEL_CAP: chunks in flight
    ChunkEntries    \* CHUNK_BYTES, in archive entries

ASSUME UploadAssumption ==
    ChannelCap \in Nat \ {0} /\ ChunkEntries \in Nat \ {0}

VARIABLES
    job,        \* the command line: one of Uploads
    fs,         \* the container's filesystem
    reports,    \* whether this runtime names the target of a link in a stat
    phase,      \* where cp_to_container is
    place,      \* the directory to extract at and the name to check
    stage, at, buf, sent, packed, during, receiver_dropped, \* the packing task
    chan, gone, \* the body: chunks in flight; its receiver has gone away
    put,        \* the answer to the PUT
    left,       \* entries still to confirm, the last one next
    result      \* what cp reports

packVars == <<stage, at, buf, sent, packed, during, receiver_dropped>>
uploadVars == <<job, fs, reports, phase, place, packVars, chan, gone, put, left, result>>

Dir(p) == [path |-> p, k |-> "dir", size |-> 0, raw |-> <<>>, abs |-> FALSE]
File(p, n) == [path |-> p, k |-> "file", size |-> n, raw |-> <<>>, abs |-> FALSE]
Link(p, raw, abs) == [path |-> p, k |-> "link", size |-> 0, raw |-> raw, abs |-> abs]
NoEntry == [path |-> <<>>, k |-> "none", size |-> 0, raw |-> <<>>, abs |-> FALSE]
(* The place in an archive where packing fails: a refused kind, no source. *)
Bad == [NoEntry EXCEPT !.k = "bad"]

-----------------------------------------------------------------------------
(* Paths *)

(* Without the rule for `..` (for a mutant).                               *)
DotOnly(p) == SelectSeq(p, LAMBDA part : part # ".")

(* lex_normalize: `.` is dropped, `..` takes back the name before it.      *)
LexNormalize(p) ==
    FoldLeft(LAMBDA stack, part :
              IF part = "." THEN stack
              ELSE IF part = ".." /\ stack # <<>> /\ Last(stack) # ".." THEN Front(stack)
              ELSE Append(stack, part),
            <<>>, p)

NormalizeLinkTarget(n, path) ==
    IF n.abs THEN n.raw ELSE LexNormalize(Front(path) \o n.raw)

-----------------------------------------------------------------------------
(* The source tree and the walks over it *)

Lookup(t, p) ==
    LET at_p == SelectSeq(t, LAMBDA n : n.path = p)
    IN  IF at_p = <<>> THEN NoEntry ELSE at_p[1]

(* Where a link leads, as the system that holds it sees it.                *)
RECURSIVE Walked(_, _)
Walked(p, done) ==
    IF p = <<>> THEN done
    ELSE Walked(Tail(p), CASE Head(p) = "."  -> done
                           [] Head(p) = ".." -> IF done = <<>> THEN done ELSE Front(done)
                           [] OTHER          -> Append(done, Head(p)))

LeadsTo(n, path) == IF n.abs THEN n.raw ELSE Walked(n.raw, Front(path))

(* metadata: the node a path leads to, through one link (links of the      *)
(* inputs lead to files and directories, or nowhere).                      *)
Followed(t, p) ==
    LET n == Lookup(t, p)
    IN  IF n.k = "link" THEN Lookup(t, LeadsTo(n, p)) ELSE n

IsDir(t, p) == Followed(t, p).k = "dir"

(* walk_dir: every path below a directory, parents first, links not        *)
(* followed, each with its path below the walk's root.                     *)
WalkDir(t, root) ==
    LET below == SelectSeq(t, LAMBDA n : IsStrictPrefix(root, n.path))
    IN  [i \in DOMAIN below |->
           [abs |-> below[i].path,
            rel |-> SubSeq(below[i].path, Len(root) + 1, Len(below[i].path))]]

(* What one entry becomes under the name it is given.                      *)
AsEntry(n, name) ==
    CASE n.k = "dir"  -> Dir(name)
      [] n.k = "file" -> File(name, n.size)
      [] n.k = "link" -> Link(name, n.raw, n.abs)
      [] OTHER        -> Bad

RECURSIVE RecordOne(_, _, _, _, _)
(* record_one: a directory entry, or a file or link that is packed as it   *)
(* is; with --follow-link a link is what it leads to, a directory behind   *)
(* it with everything below it.                                            *)
RecordOne(t, name, path, dir, follow) ==
    IF dir THEN <<Dir(name)>>
    ELSE IF ~follow THEN
        <<LET n == Lookup(t, path) IN IF n.k = "dir" THEN Bad ELSE AsEntry(n, name)>>
    ELSE LET n == Followed(t, path)
             walk == WalkDir(t, n.path)
         IN  IF n.k # "dir" THEN <<AsEntry(n, name)>>
             ELSE FlattenSeq([i \in DOMAIN walk |->
                     RecordOne(t, name \o walk[i].rel, walk[i].abs,
                               IsDir(t, walk[i].abs), TRUE)])
                  \o <<Dir(name)>>

PackFollowingLinks(t, src, prefix) ==
    LET root == Followed(t, src).path
        walk == WalkDir(t, root)
    IN  FlattenSeq([i \in DOMAIN walk |->
            RecordOne(t, prefix \o walk[i].rel, walk[i].abs,
                      Lookup(t, walk[i].abs).k = "dir", TRUE)])

(* pack_pinned_tree: what the walk opened, as it is, and the root last.    *)
PackPinnedTree(t, src, prefix) ==
    LET walk == WalkDir(t, Followed(t, src).path)
    IN  [i \in DOMAIN walk |-> AsEntry(Lookup(t, walk[i].abs), prefix \o walk[i].rel)]
        \o (IF prefix = <<>> THEN <<>> ELSE <<Dir(prefix)>>)

PackContents(t, src, follow) ==
    IF ~IsDir(t, src) THEN <<Bad>>
    ELSE IF follow THEN PackFollowingLinks(t, src, <<>>)
    ELSE PackPinnedTree(t, src, <<>>)

(* pack_path: the archive as a sequence of entries, Bad where packing      *)
(* stops.                                                                  *)
PackPath(t, src, follow, name, contents) ==
    IF contents THEN PackContents(t, src, follow)
    ELSE IF ~IsDir(t, src) THEN RecordOne(t, name, src, FALSE, follow)
    ELSE IF follow THEN PackFollowingLinks(t, src, name) \o <<Dir(name)>>
    ELSE PackPinnedTree(t, src, name)

(* uploaded_entry_kind: what the one entry of a single-file copy must be,  *)
(* or nothing when the archive's entries are to be checked instead.        *)
UploadedEntryKind(t, src, follow) ==
    LET n == IF follow THEN Followed(t, src) ELSE Lookup(t, src)
    IN  IF n.k \in {"file", "link"} THEN n ELSE NoEntry

-----------------------------------------------------------------------------
(* Placement *)

KindAt(p) == IF p \in DOMAIN fs THEN fs[p].k ELSE "none"

(* The directory the archive is extracted at and the name the source gets  *)
(* in it: its own inside a directory, the last name of the path otherwise. *)
ExtractDir(dest_is_dir) ==
    IF job.contents \/ dest_is_dir \/ job.slash THEN job.dst ELSE Front(job.dst)

EntryName(dest_is_dir) ==
    IF job.contents THEN <<>>
    ELSE IF dest_is_dir \/ job.slash THEN <<Last(job.src)>> ELSE <<Last(job.dst)>>

Entries(name) == PackPath(Tree, job.src, job.follow, name, job.contents)

UploadInit ==
    /\ job \in Uploads
    /\ fs \in Filesystems
    /\ reports \in BOOLEAN
    /\ phase = "place"
    /\ place = [dir |-> <<>>, entry |-> <<>>, plan |-> <<>>, want |-> NoEntry]
    /\ stage = "idle" /\ at = 1 /\ buf = <<>> /\ sent = <<>>
    /\ packed = "none" /\ during = FALSE /\ receiver_dropped = FALSE
    /\ chan = <<>> /\ gone = FALSE
    /\ put = "none" /\ left = <<>> /\ result = "none"

(* The destination must be there, a directory to extract at.  The root     *)
(* with its slash trimmed away is an empty path, which the runtime refuses. *)
CopyTo ==
    /\ phase = "place"
    /\ LET dest_is_dir == KindAt(job.dst) = "dir"
           dir == ExtractDir(dest_is_dir)
       IN  IF job.dst = <<>> \/ KindAt(dir) # "dir"
           THEN /\ phase' = "done" /\ result' = "refused"
                /\ UNCHANGED <<place, stage>>
           ELSE /\ phase' = "put" /\ stage' = "write"
                /\ place' = [dir |-> dir, entry |-> EntryName(dest_is_dir),
                             plan |-> Entries(EntryName(dest_is_dir)),
                             want |-> IF job.contents THEN NoEntry
                                      ELSE UploadedEntryKind(Tree, job.src, job.follow)]
                /\ UNCHANGED result
    /\ UNCHANGED <<job, fs, reports, at, buf, sent, packed, during, receiver_dropped,
                   chan, gone, put, left>>

-----------------------------------------------------------------------------
(* The packing task: it writes entries into a buffer and blocks when a     *)
(* full chunk meets a full channel.                                        *)

End == [NoEntry EXCEPT !.k = "end"]     \* the two zero blocks that close a tar

(* The writer took an entry, or the end of the archive.                    *)
WriteEntry ==
    /\ stage = "write" /\ at <= Len(place.plan)
    /\ place.plan[at] # Bad
    /\ buf' = Append(buf, place.plan[at])
    /\ sent' = Append(sent, place.plan[at])
    /\ at' = at + 1
    /\ stage' = IF Len(buf') >= ChunkEntries THEN "send" ELSE "write"
    /\ UNCHANGED <<packed, during, receiver_dropped, chan>>

(* The pack ended: everything written, or an entry that is refused or has  *)
(* vanished.  The tar is closed either way.                                *)
EndPack(how) ==
    /\ packed' = how
    /\ during' = receiver_dropped
    /\ buf' = Append(buf, End)
    /\ stage' = "close"

(* A walk that pins what it opens passes over a name that is gone by the   *)
(* time it is looked at, and over what was below it.                       *)
Vanishes ==
    /\ stage = "write" /\ at <= Len(place.plan)
    /\ ~job.follow /\ IsDir(Tree, job.src)
    /\ place.plan[at] # Bad /\ place.plan[at].path # place.entry
    /\ at' = Min({j \in at .. Len(place.plan) + 1 :
                   j = Len(place.plan) + 1
                     \/ ~IsPrefix(place.plan[at].path, place.plan[j].path)})
    /\ UNCHANGED <<stage, buf, sent, packed, during, receiver_dropped, chan>>

PackDone ==
    /\ stage = "write" /\ at > Len(place.plan)
    /\ EndPack("ok")
    /\ UNCHANGED <<at, sent, receiver_dropped, chan>>

PackFails ==
    /\ stage = "write" /\ at <= Len(place.plan)
    /\ EndPack("error")
    /\ UNCHANGED <<at, sent, receiver_dropped, chan>>

(* send_pending while entries are written: a receiver that has gone away   *)
(* ends the pack.                                                          *)
SendPending ==
    /\ stage = "send"
    /\ IF gone
       THEN /\ receiver_dropped' = TRUE
            /\ packed' = "error" /\ during' = TRUE
            /\ buf' = <<End>> /\ stage' = "close"
            /\ UNCHANGED chan
       ELSE /\ Len(chan) < ChannelCap
            /\ chan' = Append(chan, buf)
            /\ buf' = <<>> /\ stage' = "write"
            /\ UNCHANGED <<packed, during, receiver_dropped>>
    /\ UNCHANGED <<at, sent>>

(* The flag as closing left it (for a mutant).                             *)
ConcludeLate(closed, flag) ==
    [outcome |-> IF packed = "error" \/ ~closed THEN "error" ELSE "ok",
     dropped |-> flag \/ ~closed]

(* conclude: the pack's own error first, and then only a receiver lost     *)
(* while packing explains it; a failure to close is always the receiver.   *)
Conclude(closed, flag) ==
    IF packed = "error" THEN [outcome |-> "error", dropped |-> during]
    ELSE IF ~closed THEN [outcome |-> "error", dropped |-> TRUE]
    ELSE [outcome |-> "ok", dropped |-> flag]

(* The end of the archive goes out, or its receiver has gone away.         *)
CloseArchive ==
    /\ stage = "close"
    /\ gone \/ Len(chan) < ChannelCap
    /\ LET c == Conclude(~gone, receiver_dropped)
       IN  packed' = c.outcome /\ receiver_dropped' = c.dropped
    /\ chan' = IF gone THEN chan ELSE Append(chan, buf)
    /\ buf' = <<>> /\ stage' = "ended"
    /\ UNCHANGED <<at, sent, during>>

Packing ==
    /\ WriteEntry \/ Vanishes \/ PackDone \/ PackFails \/ SendPending \/ CloseArchive
    /\ UNCHANGED <<job, fs, reports, phase, place, gone, put, left, result>>

-----------------------------------------------------------------------------
(* The runtime: it extracts what it reads, and may stop at any point.      *)

(* Extracting an entry: a directory keeps its place, nothing replaces one. *)
Fits(p, e) == (KindAt(p) = "dir") = (e.k = "dir") \/ KindAt(p) = "none"

RECURSIVE Apply(_, _)
Apply(chunk, f) ==
    IF chunk = <<>> \/ Head(chunk) = End THEN f
    ELSE LET p == place.dir \o Head(chunk).path
             node == [Head(chunk) EXCEPT !.path = p]
         IN  Apply(Tail(chunk), [q \in DOMAIN f \cup {p} |-> IF q = p THEN node ELSE f[q]])

CanApply(chunk) ==
    \A e \in {chunk[i] : i \in {j \in DOMAIN chunk : chunk[j] # End}} :
        Fits(place.dir \o e.path, e)

Receive ==
    /\ phase = "put" /\ put = "none" /\ chan # <<>>
    /\ CanApply(Head(chan))
    /\ fs' = Apply(Head(chan), fs)
    /\ chan' = Tail(chan)
    /\ UNCHANGED <<job, reports, phase, place, packVars, gone, put, left, result>>

(* Every entry has been read; the end of the archive may be on its way.    *)
AllRead ==
    /\ chan = <<>> /\ stage \in {"close", "ended"}
    /\ \A i \in DOMAIN buf : buf[i] = End

(* An answer drops the body.  It may come at any time: a 2xx (early when   *)
(* entries are still to be read), an error, or none that arrives.          *)
Answer ==
    /\ phase = "put" /\ put = "none"
    /\ put' \in {IF AllRead THEN "ok" ELSE "early", "error", "lost"}
    /\ gone' = TRUE /\ chan' = <<>>
    /\ UNCHANGED <<job, fs, reports, phase, place, packVars, left, result>>

-----------------------------------------------------------------------------
(* put_archive_verified, after the PUT *)

(* The text a stat gives for a link: the normalized target, or nothing.    *)
Reported(n) == IF reports THEN LeadsTo(n, n.path) ELSE <<>>

(* entry_landed: a file of the size that was sent, a directory, or a link  *)
(* to the same place; a runtime that names no target confirms by kind.     *)
EntryLanded(e, path) ==
    IF path \notin DOMAIN fs THEN "Absent"
    ELSE LET stat == fs[path]
         IN  CASE e.k = "file" -> IF stat.k = "file" /\ stat.size = e.size
                                  THEN "Confirmed" ELSE "Refused"
               [] e.k = "dir"  -> IF stat.k = "dir" THEN "Confirmed" ELSE "Refused"
               [] e.k = "link" ->
                    IF stat.k # "link" THEN "Refused"
                    ELSE IF ~reports THEN "Fallback"
                    ELSE IF Reported(stat) = NormalizeLinkTarget(e, path)
                            /\ Len(stat.raw) = Len(e.raw)
                    THEN "Confirmed" ELSE "Refused"

(* What the confirmation asks about: the one entry, or all that was sent.  *)
ToConfirm ==
    IF place.want # NoEntry THEN <<[place.want EXCEPT !.path = place.entry]>> ELSE sent

Ended(r) == phase' = "done" /\ result' = r /\ left' = <<>>

(* The outcome of the pack is awaited whatever the PUT answered.           *)
Settle ==
    /\ phase = "put" /\ put # "none" /\ stage = "ended"
    /\ CASE put \in {"ok", "early"} ->
              Ended(IF packed = "ok" \/ receiver_dropped THEN "ok" ELSE "pack error")
         [] put \in {"error", "lost"} /\ packed = "error" -> Ended("pack error")
         [] put = "error" /\ packed = "ok" -> Ended("podman error")
         [] put = "lost" /\ packed = "ok" ->
              IF ToConfirm = <<>> THEN Ended("unconfirmed")
              ELSE phase' = "verify" /\ left' = ToConfirm /\ UNCHANGED result
    /\ UNCHANGED <<job, fs, reports, place, packVars, chan, gone, put>>

(* tree_landed asks about one entry after another, the last one first, and *)
(* stops at the first that is not there; a stat may fail as well.          *)
ConfirmEntry ==
    /\ phase = "verify"
    /\ LET e == Last(left)
           check == EntryLanded(e, place.dir \o e.path)
       IN  \/ /\ check \in {"Confirmed", "Fallback"}
              /\ IF Len(left) = 1 THEN Ended("ok")
                 ELSE left' = Front(left) /\ UNCHANGED <<phase, result>>
           \/ check \in {"Refused", "Absent"} /\ Ended("unconfirmed")
    /\ UNCHANGED <<job, fs, reports, place, packVars, chan, gone, put>>

StatFails ==
    /\ phase = "verify"
    /\ Ended("stat error")
    /\ UNCHANGED <<job, fs, reports, place, packVars, chan, gone, put>>

UploadNext == CopyTo \/ Packing \/ Receive \/ Answer \/ Settle \/ ConfirmEntry \/ StatFails

UploadDone == phase = "done" /\ stage \in {"idle", "ended"}

-----------------------------------------------------------------------------
(* Correctness *)

(* A link to a directory named as the source without --follow-link: the    *)
(* directory is packed, and the link is what the confirmation expects.     *)
LinkedRoot ==
    ~job.follow /\ ~job.contents /\ Lookup(Tree, job.src).k = "link"
    /\ IsDir(Tree, job.src)

(* An entry of the archive is where it belongs, as far as a stat can tell. *)
Looks(e) ==
    LET p == place.dir \o e.path
    IN  /\ p \in DOMAIN fs /\ fs[p].k = e.k
        /\ e.k = "file" => fs[p].size = e.size
        /\ e.k = "link" /\ reports =>
             LeadsTo(fs[p], p) = LeadsTo(e, p) /\ Len(fs[p].raw) = Len(e.raw)

(* A copy into a container that reports success left every entry of the    *)
(* source where it belongs: packed without a failure and accepted, or      *)
(* confirmed entry by entry after the answer was lost.  Two exceptions: a  *)
(* source that is a link to a directory (LinkedRoot), and a runtime that   *)
(* answers 2xx before it has read every entry, whose word is taken         *)
(* (put.rs 98-115).                                                        *)
SuccessIsLanded ==
    result = "ok" /\ put # "early" =>
      /\ at = Len(place.plan) + 1
      /\ \A i \in DOMAIN sent : LinkedRoot \/ Looks(sent[i])

(* An upload that landed in full although its answer was lost is never     *)
(* reported as doubtful unless a stat failed.                              *)
DoubtIsJustified ==
    result = "unconfirmed" =>
      \/ LinkedRoot \/ sent = <<>>
      \/ \E i \in DOMAIN sent : ~Looks(sent[i])

=============================================================================

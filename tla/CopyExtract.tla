---------------------------- MODULE CopyExtract ----------------------------
(***************************************************************************)
(* `podup cp SERVICE:PATH HOST` (engine/host_files/copy/from_container.rs  *)
(* and extract/): the shapes a destination may have, the archive that is   *)
(* streamed into an existing directory or buffered for any other, and the  *)
(* extraction itself on the host's filesystem, entry by entry.             *)
(*                                                                         *)
(* The host is a function from the paths that exist to nodes: the kind,    *)
(* whether the owner may write and, of a file, read (of a mode, what       *)
(* extraction depends on), the entry of the archive the inode is from (0:  *)
(* it was there before), the target of a link.                             *)
(***************************************************************************)
EXTENDS Naturals, Sequences, SequencesExt, FiniteSetsExt

CONSTANTS
    Downloads,      \* records [archive, dst, slash]
    Hosts,          \* what the host may hold before the copy
    ReaderCap,      \* CHANNEL_CAP: chunks between the pump and the extractor
    ArchiveCap      \* MAX_CP_ARCHIVE_BYTES, in entries

ASSUME ExtractAssumption == ReaderCap \in Nat \ {0} /\ ArchiveCap \in Nat

VARIABLES
    order,      \* the command line: one of Downloads
    host, host0, \* the host's filesystem; as it was
    route,      \* where cp_from_container is
    broken,     \* the body breaks off before this entry (0: it does not)
    pumped,     \* chunks the pump has put into the channel
    next,       \* the entry to extract
    files,      \* the inodes this extraction created, by entry
    dirs,       \* directories in the order they were met, with their modes
    outcome     \* what cp reports

extractVars == <<order, host, host0, route, broken, pumped, next, files, dirs, outcome>>

NoNode == [k |-> "none", w |-> FALSE, r |-> FALSE, ino |-> 0, to |-> <<>>]
DirNode(w) == [NoNode EXCEPT !.k = "dir", !.w = w]
FileNode(w, r, ino) == [NoNode EXCEPT !.k = "file", !.w = w, !.r = r, !.ino = ino]
LinkNode(to) == [NoNode EXCEPT !.k = "link", !.w = TRUE, !.to = to]

At(h, p) == IF p \in DOMAIN h THEN h[p] ELSE NoNode
Put(h, p, n) == [q \in DOMAIN h \cup {p} |-> IF q = p THEN n ELSE h[q]]
Children(h, p) == {q \in DOMAIN h : Len(q) = Len(p) + 1 /\ IsPrefix(p, q)}
Archive == order.archive

-----------------------------------------------------------------------------
(* Destinations *)

(* trusted_root_link: a link of the system's own, in the root directory.   *)
TrustedRootLink(h, p) == Len(p) = 1 /\ At(h, p).k = "link" /\ At(h, p).ino = 0

(* A path with such a link replaced by what it leads to.                   *)
Physical(h, p) ==
    IF p # <<>> /\ TrustedRootLink(h, <<Head(p)>>)
    THEN At(h, <<Head(p)>>).to \o Tail(p) ELSE p

(* destination_refusal: a link anywhere on the way to the destination,     *)
(* except the system's own.                                                *)
DestinationRefusal(h, p) ==
    LET q == Physical(h, p)
    IN  \E n \in 1 .. Len(q) : At(h, SubSeq(q, 1, n)).k = "link"

(* cp_destination_kind.                                                    *)
CpDestinationKind(h, p) ==
    IF DestinationRefusal(h, p) THEN "Symlink"
    ELSE IF At(h, Physical(h, p)).k = "dir" THEN "Directory" ELSE "NotADirectory"

ContainsDir(a) == \E i \in DOMAIN a : a[i].k = "dir"

(* What may be created is created below the destination: itself, or the    *)
(* place it names.                                                         *)
Root == Physical(host0, order.dst)

-----------------------------------------------------------------------------
(* One entry on the pinned directories.  A state of the extraction is      *)
(* [host, dirs, files, cwd, ok], cwd the directory that is open.           *)

Step(h, d, f) == [host |-> h, dirs |-> d, files |-> f, cwd |-> <<>>, ok |-> TRUE]
Refuse(s) == [s EXCEPT !.ok = FALSE]
Open(s, p) == [s EXCEPT !.cwd = p]

(* The directory a link leads to is as good (for a mutant).                *)
ChildFollowing(s, name) ==
    LET p == s.cwd \o <<name>>
    IN  CASE At(s.host, p).k = "link" -> Open(s, At(s.host, p).to)
          [] At(s.host, p).k = "none" -> Open([s EXCEPT !.host = Put(s.host, p, DirNode(TRUE))], p)
          [] OTHER -> Open(s, p)

(* Directory::child with create: a new directory, or the one that is       *)
(* there; never through a link.                                            *)
Child(s, name) ==
    LET p == s.cwd \o <<name>>
    IN  CASE At(s.host, p).k = "dir" -> Open(s, p)
          [] At(s.host, p).k = "none" /\ At(s.host, s.cwd).w
               -> Open([s EXCEPT !.host = Put(s.host, p, DirNode(TRUE))], p)
          [] OTHER -> Refuse(s)

(* record_directory: once per directory, the last mode that was given.     *)
RecordDirectory(s, p, modes) ==
    IF \E i \in DOMAIN s.dirs : s.dirs[i].path = p
    THEN [s EXCEPT !.dirs = [i \in DOMAIN s.dirs |->
            IF s.dirs[i].path = p /\ modes # {} THEN [path |-> p, mode |-> modes]
            ELSE s.dirs[i]]]
    ELSE [s EXCEPT !.dirs = Append(s.dirs, [path |-> p, mode |-> modes])]

(* parent_with: every directory above the entry, made if it is missing.    *)
Parents(s, root, path) ==
    FoldLeft(LAMBDA acc, n :
               IF ~acc.ok THEN acc
               ELSE LET child == Child(acc, path[n])
                    IN  IF child.ok THEN RecordDirectory(child, SubSeq(path, 1, n), {})
                        ELSE child,
             Open(s, root), [n \in 1 .. Len(path) - 1 |-> n])

(* A name is taken: anything but a directory makes way.                    *)
Replace(s, name, n) ==
    LET p == s.cwd \o <<name>>
    IN  IF At(s.host, p).k = "dir" \/ ~At(s.host, s.cwd).w THEN Refuse(s)
        ELSE [s EXCEPT !.host = Put(s.host, p, n)]

(* Its own mode at once (for a mutant).                                    *)
ExtractDirectoryAsIs(s, e) ==
    LET child == Child(s, Last(e.path))
        known == RecordDirectory(child, e.path, {e.w})
    IN  IF ~child.ok THEN child
        ELSE [known EXCEPT !.host = Put(child.host, child.cwd, DirNode(e.w))]

(* A directory is writable for as long as the extraction lasts.            *)
ExtractDirectory(s, e) ==
    LET child == Child(s, Last(e.path))
        known == RecordDirectory(child, e.path, {e.w})
    IN  IF ~child.ok THEN child
        ELSE [known EXCEPT !.host = Put(child.host, child.cwd, DirNode(TRUE))]

(* The link keeps the mode of the file (for a mutant).                     *)
ModeOfFile(h, ino, e) == h

(* The mode of a link, on the inode: every name of it has it.              *)
SetMode(h, ino, e) ==
    [q \in DOMAIN h |-> IF h[q].k = "file" /\ h[q].ino = ino THEN FileNode(e.w, e.r, ino) ELSE h[q]]

(* Hard links: to a regular file of this extraction, under a free name.    *)
(* Where its mode is not the file's, the link just made is opened by name, *)
(* to read or else to write, and the mode set on what was opened.          *)
Hardlink(s, root, e) ==
    LET source == At(s.host, root \o e.to)
        p == s.cwd \o <<Last(e.path)>>
        linked == [s EXCEPT !.host = Put(s.host, p, source)]
    IN  IF \/ source.k # "file" \/ source.ino \notin s.files
           \/ At(s.host, p).k # "none" \/ ~At(s.host, s.cwd).w
        THEN Refuse(s)
        ELSE IF source.w = e.w /\ source.r = e.r THEN linked
        ELSE IF ~source.r /\ ~source.w THEN Refuse(linked)
        ELSE [linked EXCEPT !.host = SetMode(@, source.ino, e)]

ExtractFile(s, e, i) ==
    LET written == Replace(s, Last(e.path), FileNode(e.w, e.r, i))
    IN  IF written.ok THEN [written EXCEPT !.files = @ \cup {i}] ELSE written

(* extract_pending, for entry i.                                           *)
ExtractEntry(s, root, i) ==
    LET e == Archive[i]
        in == Parents(s, root, e.path)
    IN  IF ~in.ok THEN in
        ELSE CASE e.k = "dir"   -> ExtractDirectory(in, e)
               [] e.k = "link"  -> Replace(in, Last(e.path), LinkNode(e.to))
               [] e.k = "hard"  -> Hardlink(in, root, e)
               [] e.k = "file"  -> ExtractFile(in, e, i)

(* flatten: the one directory below the root gives way to what it holds.   *)
(* A name that meets the wrapper itself cannot be moved.                   *)
Flatten(s, root) ==
    LET below == Children(s.host, root)
        w == CHOOSE q \in below : TRUE
        Moved(q) == IF IsStrictPrefix(w, q) THEN root \o SubSeq(q, Len(w) + 1, Len(q)) ELSE q
        kept == DOMAIN s.host \ {w}
    IN  IF Cardinality(below) # 1 \/ At(s.host, w).k # "dir" THEN [s |-> s, wrapper |-> <<>>]
        ELSE IF w \o <<Last(w)>> \in DOMAIN s.host \/ ~At(s.host, w).w
        THEN [s |-> Refuse(s), wrapper |-> <<>>]
        ELSE [s |-> [s EXCEPT !.host = [p \in {Moved(q) : q \in kept} |->
                        s.host[CHOOSE q \in kept : Moved(q) = p]]],
              wrapper |-> <<Last(w)>>]

(* Without the wrapper that was collapsed (for a mutant).                  *)
FinishUncollapsed(s, root, wrapper) ==
    FoldLeft(LAMBDA acc, d :
               IF d.mode = {} \/ (wrapper # <<>> /\ IsPrefix(wrapper, d.path)) THEN acc
               ELSE [acc EXCEPT !.host =
                       Put(acc.host, root \o d.path, DirNode(CHOOSE w \in d.mode : TRUE))],
             s, s.dirs)

(* finish_directory_modes: the last directory first; a wrapper that was    *)
(* collapsed is the root by now, and keeps its mode.                       *)
FinishDirectoryModes(s, root, wrapper) ==
    FoldLeft(LAMBDA acc, d :
              LET p == IF IsPrefix(wrapper, d.path)
                       THEN SubSeq(d.path, Len(wrapper) + 1, Len(d.path)) ELSE d.path
              IN  IF d.mode = {} \/ p = <<>> \/ ~acc.ok THEN acc
                  ELSE [acc EXCEPT !.host =
                          Put(acc.host, root \o p, DirNode(CHOOSE w \in d.mode : TRUE))],
            s, Reverse(s.dirs))

-----------------------------------------------------------------------------
(* The copy *)

ExtractInit ==
    /\ order \in Downloads
    /\ host \in Hosts /\ host0 = host
    /\ broken \in 0 .. Len(order.archive)
    /\ route = "classify" /\ pumped = 0 /\ next = 1
    /\ files = {} /\ dirs = <<>> /\ outcome = "none"

Finished(r) == route' = "over" /\ outcome' = r

CopyFrom ==
    /\ route = "classify"
    /\ CASE CpDestinationKind(host, order.dst) = "Symlink"   -> Finished("symlink")
         [] CpDestinationKind(host, order.dst) = "Directory" -> route' = "stream" /\ UNCHANGED outcome
         [] CpDestinationKind(host, order.dst) = "NotADirectory"
              -> route' = "buffer" /\ UNCHANGED outcome
    /\ UNCHANGED <<order, host, host0, broken, pumped, next, files, dirs>>

(* The pump of extract_streamed: a chunk per entry and, where the body     *)
(* breaks off, the error in its place; it blocks on a full channel and     *)
(* ends with the extractor.                                                *)
Pump ==
    /\ route = "stream"
    /\ pumped < (IF broken = 0 THEN Len(Archive) ELSE broken)
    /\ pumped - (next - 1) < ReaderCap
    /\ pumped' = pumped + 1
    /\ UNCHANGED <<order, host, host0, route, broken, next, files, dirs, outcome>>

Now == Step(host, dirs, files)

(* The extractor takes what the reader serves: an entry, the error of the  *)
(* body, or the end; one byte over the cap is an error too.                *)
ExtractNext ==
    /\ route \in {"stream", "extract"}
    /\ next <= Len(Archive)
    /\ route = "stream" => pumped >= next
    /\ IF route = "stream" /\ (next = broken \/ next > ArchiveCap)
       THEN Finished(IF next = broken THEN "read error" ELSE "too large")
            /\ UNCHANGED <<host, files, dirs, next>>
       ELSE LET s == ExtractEntry(Now, Root, next)
            IN  /\ host' = s.host /\ files' = s.files /\ dirs' = s.dirs
                /\ next' = next + 1
                /\ IF s.ok THEN UNCHANGED <<route, outcome>> ELSE Finished("refused")
    /\ UNCHANGED <<order, host0, broken, pumped>>

(* Into a directory that was there, the modes are all that is left to do;  *)
(* one made for this copy loses its wrapper first.                         *)
ExtractEnds ==
    /\ route \in {"stream", "extract"}
    /\ next > Len(Archive)
    /\ LET flat == IF route = "stream" THEN [s |-> Now, wrapper |-> <<>>] ELSE Flatten(Now, Root)
           s == IF flat.s.ok THEN FinishDirectoryModes(flat.s, Root, flat.wrapper) ELSE flat.s
       IN  /\ host' = s.host
           /\ Finished(IF s.ok THEN "ok" ELSE "refused")
    /\ UNCHANGED <<order, host0, broken, pumped, next, files, dirs>>

(* buffer_archive, then extract_archive: an archive over the cap, or cut   *)
(* short, is refused before anything is written; a directory is made for   *)
(* an archive of one; a file lands under the name that was given, the      *)
(* first of several too: what makes them too many is the next.             *)
Buffer ==
    /\ route = "buffer"
    /\ LET parent == At(host, Front(Root))
           made == Child(Open(Now, Front(Root)), Last(Root))
           single == Replace(Open(Now, Front(Root)), Last(Root),
                            FileNode(Archive[1].w, Archive[1].r, 1))
       IN  CASE broken # 0 \/ Len(Archive) > ArchiveCap ->
                  Finished("too large") /\ UNCHANGED host
             [] broken = 0 /\ Len(Archive) <= ArchiveCap /\ parent.k # "dir" ->
                  Finished("no parent") /\ UNCHANGED host
             [] broken = 0 /\ Len(Archive) <= ArchiveCap /\ parent.k = "dir"
                  /\ ~ContainsDir(Archive) ->
                  IF order.slash \/ Archive[1].k # "file" \/ ~single.ok
                  THEN Finished("refused") /\ UNCHANGED host
                  ELSE /\ host' = single.host
                       /\ Finished(IF Len(Archive) = 1 THEN "ok" ELSE "refused")
             [] broken = 0 /\ Len(Archive) <= ArchiveCap /\ parent.k = "dir"
                  /\ ContainsDir(Archive) ->
                  IF ~made.ok THEN Finished("refused") /\ UNCHANGED host
                  ELSE host' = made.host /\ route' = "extract" /\ UNCHANGED outcome
    /\ UNCHANGED <<order, host0, broken, pumped, next, files, dirs>>

ExtractNextStep == CopyFrom \/ Pump \/ ExtractNext \/ ExtractEnds \/ Buffer

-----------------------------------------------------------------------------
(* Correctness *)

(* The name of the one directory that holds the whole archive, if any.     *)
Wrapper ==
    IF route # "classify" /\ At(host0, Root).k # "dir" /\ ContainsDir(Archive)
       /\ \A i \in DOMAIN Archive : Head(Archive[i].path) = Head(Archive[1].path)
    THEN <<Head(Archive[1].path)>> ELSE <<>>

Lands(path) == Root \o SubSeq(path, Len(Wrapper) + 1, Len(path))

(* The last entry of a name is the one that stays.                         *)
Final(i) == \A j \in DOMAIN Archive : j > i => Archive[j].path # Archive[i].path

(* The file an entry is a name of, as an entry: itself, or the file that    *)
(* has the name it is a hard link to by then.                              *)
Inode[i \in DOMAIN Archive] ==
    LET e == Archive[i]
        named == {j \in 1 .. i - 1 : Archive[j].path = e.to}
    IN  IF e.k = "file" THEN i
        ELSE IF e.k = "hard" /\ named # {} THEN Inode[Max(named)] ELSE 0

LinkedTo(i) == {j \in DOMAIN Archive : Inode[j] = Inode[i]}

(* A copy to the host that reports success left every entry of the archive *)
(* below the destination (directly, when the destination was made for it), *)
(* of its own kind; a directory has its own mode; a hard link is a name of *)
(* the file it is a link to, and all the names of a file have the mode of  *)
(* the last of them in the archive.  A file that is not copied into a      *)
(* directory is what its destination names.                                *)
CopyDelivers ==
    outcome = "ok" =>
      \A i \in DOMAIN Archive :
        LET single == ~ContainsDir(Archive) /\ At(host0, Root).k # "dir"
            p == IF single THEN Root ELSE Lands(Archive[i].path)
            n == At(host, p)
            e == Archive[i]
        IN  Final(i) /\ (single \/ p # Root) =>
              /\ n.k = (IF e.k = "hard" THEN "file" ELSE e.k)
              /\ e.k = "dir"  => n.w = e.w
              /\ e.k = "link" => n.to = e.to
              /\ e.k \in {"file", "hard"} =>
                   n = FileNode(Archive[Max(LinkedTo(i))].w, Archive[Max(LinkedTo(i))].r, Inode[i])

(* Nothing outside the destination is touched, and a file that was there   *)
(* before is replaced or left alone, never changed.                        *)
OutsideUntouched ==
    \A p \in DOMAIN host \cup DOMAIN host0 :
      /\ ~IsPrefix(Root, p) => At(host, p) = At(host0, p)
      /\ At(host, p).k = "file" /\ At(host, p).ino = 0 => At(host, p) = At(host0, p)

(* What stands in the way of an archive: a name of another kind, a name    *)
(* that a hard link needs, a file whose mode opens it to nobody and that a *)
(* link gives another mode, a directory that may not be written to, a      *)
(* directory within itself under its own name when it is made.             *)
InTheWay(i) ==
    LET e == Archive[i]
        p == Root \o e.path
    IN  \/ e.k = "dir" /\ At(host0, p).k \notin {"none", "dir"}
        \/ e.k \in {"file", "link"} /\ At(host0, p).k = "dir"
        \/ e.k = "hard" /\ At(host0, p).k # "none"
        \/ e.k = "hard" /\ \E j \in LinkedTo(i) : j < i /\ ~Archive[j].r /\ ~Archive[j].w
        \/ \E n \in 1 .. Len(e.path) - 1 :
             At(host0, Root \o SubSeq(e.path, 1, n)).k \notin {"none", "dir"}
        \/ At(host0, Root).k # "dir" /\ Len(e.path) = 2 /\ e.path[1] = e.path[2]

(* An archive that meets nothing in its way, that is within the cap and    *)
(* whose body arrives, is not refused half-way.                            *)
NoNeedlessRefusal ==
    outcome = "refused" =>
      \/ \E i \in DOMAIN Archive : InTheWay(i)
      \/ At(host0, Root).k = "file" /\ ContainsDir(Archive)
      \/ At(host0, Root).k = "none" /\ ~At(host0, Front(Root)).w
      \/ At(host0, Root).k = "dir" /\ ~At(host0, Root).w
      \/ ~ContainsDir(Archive)
      \/ broken # 0

=============================================================================

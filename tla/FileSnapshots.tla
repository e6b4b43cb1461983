---------------------------- MODULE FileSnapshots ----------------------------
(***************************************************************************)
(* Snapshotter and the file part of EvidenceCollector: a baseline scan     *)
(* when an Input is delivered, a final scan for every submit, and the      *)
(* facts prepared from the two.  A scan works directory by directory and   *)
(* entry by entry, and reads a file after it looked at its metadata; the   *)
(* programs that share the disk write between any two of these.            *)
(*                                                                         *)
(* Abstractions: a node's inode and version are the number of the write    *)
(* that created and last changed it; opening, reading and looking again at *)
(* a file is one step, after the step that looked at it first; a directory *)
(* never gives way to a link.                                              *)
(***************************************************************************)
EXTENDS FileFacts, Sequences, SequencesExt

CONSTANTS
  Excluded,     \* paths in excluded roots, of an excluded name or below one
  Mounted,      \* paths on another device
  Unreadable,   \* directories and files that cannot be opened
  LinkTarget,   \* where a link created at a path leads to
  MaxEntries, MaxHash, MaxText, MaxTotalText, \* the Snapshotter's limits
  Disks,        \* the states the disk may begin in
  Touchable,      \* the paths programs write
  NewContent,   \* the contents they write
  MaxWrites     \* bound on the writes to the disk

ASSUME ScanAssumption ==
  /\ Excluded \cup Mounted \cup Unreadable \subseteq Path \cup {Top}
  /\ LinkTarget \in [Path -> Path \cup {Outside}]
  /\ {MaxEntries, MaxHash, MaxText, MaxTotalText} \subseteq Nat \ {0}
  /\ \A p \in Path : Folder[p] \in Excluded => p \in Excluded
  /\ Disks \subseteq [Path -> Node \cup {Absent}] /\ MaxWrites \in Nat
  /\ \A tree \in Disks, p \in Path :
       tree[p] # Absent /\ Folder[p] # Top => tree[Folder[p]].kind = "directory"
  /\ Touchable \subseteq Path /\ NewContent \subseteq Content

VARIABLES
  disk,     \* the nodes of the file system
  writes,   \* how many writes there were
  step,     \* the step of the collector: what it waits for
  scan,     \* the scan in progress
  baseline, \* _baseline, with the disk as it was when the scan ended
  prepared  \* what was staged for the Submission

fileVars == <<disk, writes, step, scan, baseline, prepared>>

----------------------------------------------------------------------------
(* State.                                                                  *)

Empty == [p \in Path |-> NoEntry]
NoLook == [path |-> Top]

\* pending: directories still to be scanned.  children: entries of the one
\* being scanned.  looked: a file whose metadata were read, not its bytes.
Scanning ==
  [pending |-> <<Top>>, children |-> <<>>, found |-> <<>>, looked |-> NoLook,
   entries |-> Empty, errors |-> {}, truncated |-> FALSE, text |-> 0,
   text_dropped |-> FALSE,
   touched |-> {}] \* history: what was written while the scan ran

NoSnapshot ==
  [entries |-> Empty, errors |-> {"snapshot_failed"}, touched |-> {}, disk |-> Empty]
NothingPrepared == [staged |-> FALSE]

\* Snapshot of a finished scan; disk is history.
Snapshot(s) ==
  [entries |-> s.entries,
   errors |-> s.errors \cup (IF s.text_dropped THEN {"text_size_limit"} ELSE {}),
   touched |-> s.touched, disk |-> disk]

Complete(snapshot) == snapshot.errors = {}
Failed(snapshot) ==
  \/ "snapshot_failed" \in snapshot.errors
  \/ Recorded(snapshot.entries) = {} /\ ~Complete(snapshot)

Children(d) == {p \in Path : Folder[p] = d /\ disk[p] # Absent}

FileInit ==
  /\ disk \in Disks
  /\ writes = 0 /\ step = "idle"
  /\ scan = Scanning /\ baseline = NoSnapshot /\ prepared = NothingPrepared

----------------------------------------------------------------------------
(* The other programs.  A change of a directory's entries is a change of   *)
(* the directory, too.                                                     *)

CanHold(d) == d # Top => disk[d].kind = "directory"

Write(paths, new) ==
  /\ writes < MaxWrites
  /\ writes' = writes + 1
  /\ LET parents == {Folder[p] : p \in {q \in paths : disk[q] = Absent \/ new[q] = Absent}}
     IN  /\ disk' = [p \in Path |->
              IF p \in paths THEN new[p]
              ELSE IF p \in parents THEN [disk[p] EXCEPT !.version = writes + 1]
              ELSE disk[p]]
         /\ scan' = [scan EXCEPT !.touched = @ \cup paths \cup (parents \ {Top})]
  /\ UNCHANGED <<step, baseline, prepared>>

Fresh(kind, data) ==
  [kind |-> kind, data |-> data, inode |-> writes + 1, version |-> writes + 1]

ProgramCreates(p) ==
  /\ disk[p] = Absent /\ CanHold(Folder[p])
  /\ \E node \in {Fresh("file", c) : c \in NewContent}
                   \cup {Fresh("symlink", LinkTarget[p]), Fresh("directory", 0)} :
       /\ node.kind = "directory" <=> \E q \in Path : Folder[q] = p
       /\ Write({p}, [q \in {p} |-> node])

ProgramModifies(p) ==
  /\ disk[p].kind = "file"
  /\ \E c \in NewContent :
       Write({p}, [q \in {p} |-> [disk[p] EXCEPT !.data = c, !.version = writes + 1]])

ProgramDeletes(p) ==
  /\ disk[p] # Absent /\ Children(p) = {}
  /\ Write({p}, [q \in {p} |-> Absent])

ProgramRenames(p, q) ==
  /\ disk[p].kind = "file" /\ disk[q] = Absent /\ CanHold(Folder[q])
  /\ \A c \in Path : Folder[c] # q
  /\ Write({p, q}, [r \in {p, q} |-> IF r = q THEN disk[p] ELSE Absent])

----------------------------------------------------------------------------
(* A scan: Snapshotter.capture.                                            *)

Busy == step \in {"baseline", "final"}

Erring(s, error) == [s EXCEPT !.errors = @ \cup {error}]

\* The identity check of _scan_directory.
SameDirectory(d) ==
  d # Top => disk[d].kind = "directory" /\ disk[d].inode = scan.entries[d].inode

\* The paths of a set in their order.
Sorted(paths) ==
  [i \in 1 .. Cardinality(paths) |->
     CHOOSE p \in paths : Cardinality({q \in paths : q < p}) = i - 1]

\* capture takes the next directory, and _scan_directory lists what the
\* entry limit leaves room for, in the order the system returns it.
OpenDirectory ==
  /\ Busy /\ scan.pending # <<>> /\ ~scan.truncated
  /\ scan.children = <<>> /\ scan.found = <<>> /\ scan.looked = NoLook
  /\ LET d == Last(scan.pending)
         rest == [scan EXCEPT !.pending = Front(@)]
         room == MaxEntries - Cardinality(Recorded(scan.entries))
     IN  \/ /\ d \in Unreadable \/ ~SameDirectory(d)
            /\ scan' = Erring(rest, "scan_failed")
         \/ /\ d \notin Unreadable /\ SameDirectory(d)
            /\ \E listed \in kSubset(Smaller(room, Cardinality(Children(d))), Children(d)) :
                 scan' = [rest EXCEPT
                   !.children = Sorted(listed),
                   !.truncated = Cardinality(Children(d)) > room,
                   !.errors = IF Cardinality(Children(d)) > room
                              THEN @ \cup {"entry_limit_exceeded"} ELSE @]
  /\ UNCHANGED <<disk, writes, step, baseline, prepared>>

\* The entry of a node whose bytes were not read.
EntryOf(node, kind, error) ==
  [kind |-> kind, data |-> IF kind = "symlink" THEN node.data ELSE 0,
   inode |-> node.inode, version |-> node.version,
   whole |-> error = "", text |-> FALSE, error |-> error, omission |-> ""]

Capturing(s, p, entry) ==
  LET captured == [s EXCEPT !.entries[p] = entry]
  IN  IF entry.error = "" THEN captured ELSE Erring(captured, entry.error)

\* _capture_entry of one child: everything but the bytes of a file.
LookAtChild ==
  /\ Busy /\ scan.children # <<>> /\ scan.looked = NoLook
  /\ LET p == Head(scan.children)
         node == disk[p]
         rest == [scan EXCEPT !.children = Tail(@)]
         there == p \notin Excluded /\ node # Absent
         here == there /\ p \notin Mounted
     IN  \/ /\ p \in Excluded
            /\ scan' = rest
         \/ /\ p \notin Excluded /\ node = Absent
            /\ scan' = Erring(rest, "stat_failed")
         \/ /\ there /\ p \in Mounted
            /\ scan' = Capturing(rest, p, EntryOf(node,
                 IF node.kind = "directory" THEN "directory" ELSE "special",
                 "mount_boundary"))
         \/ /\ here /\ node.kind = "symlink"
            /\ scan' = Capturing(rest, p, EntryOf(node, "symlink", ""))
         \/ /\ here /\ node.kind = "directory"
            /\ scan' = [Capturing(rest, p, EntryOf(node, "directory", ""))
                          EXCEPT !.found = Append(@, p)]
         \/ /\ here /\ node.kind = "special"
            /\ scan' = Capturing(rest, p, EntryOf(node, "special", "special_file"))
         \/ /\ here /\ node.kind = "file"
            /\ scan' = IF SizeOf[node.data] > MaxHash
                       THEN Capturing(rest, p, EntryOf(node, "file", "hash_size_limit"))
                       ELSE [rest EXCEPT !.looked = [path |-> p, node |-> node]]
  /\ UNCHANGED <<disk, writes, step, baseline, prepared>>

Fits(size) == scan.text + size <= MaxTotalText

\* The entry of a file that was read as it was seen before, and the text
\* _budget_text leaves it.
WholeFile(node) ==
  LET size == SizeOf[node.data]
      readable == size <= MaxText /\ node.data \notin Binary
      fits == Fits(size)
  IN  [kind |-> "file", data |-> node.data, inode |-> node.inode,
       version |-> node.version, whole |-> TRUE, text |-> readable /\ fits, error |-> "",
       omission |-> IF size > MaxText THEN "size_limit"
                    ELSE IF node.data \in Binary THEN "binary"
                    ELSE IF ~fits THEN "size_limit" ELSE ""]

\* _same_file, before, during and after the read.
Stable(p, node) == disk[p] = node

\* _capture_file: a file that is another one by now cannot be opened as the
\* one that was seen, or is seen to change while it is read.
ReadChild ==
  /\ Busy /\ scan.looked # NoLook
  /\ LET p == scan.looked.path
         node == scan.looked.node
         rest == [scan EXCEPT !.looked = NoLook]
         entry == WholeFile(node)
     IN  \/ /\ Stable(p, node) /\ p \notin Unreadable
            /\ scan' = [Capturing(rest, p, entry) EXCEPT
                 !.text = IF entry.text THEN @ + SizeOf[node.data] ELSE @,
                 !.text_dropped = @ \/ (entry.omission = "size_limit"
                                          /\ SizeOf[node.data] <= MaxText)]
         \/ /\ ~Stable(p, node) \/ p \in Unreadable
            /\ scan' = Capturing(rest, p, EntryOf(node, "file", "read_failed"))
         \/ /\ ~Stable(p, node) /\ p \notin Unreadable /\ disk[p].kind = "file"
            /\ scan' = Capturing(rest, p, EntryOf(node, "file", "changed_during_scan"))
  /\ UNCHANGED <<disk, writes, step, baseline, prepared>>

\* The directory is done: its directories are next, or none after a limit.
CloseDirectory ==
  /\ Busy /\ scan.children = <<>> /\ scan.looked = NoLook
  /\ scan.found # <<>> \/ (scan.truncated /\ scan.pending # <<>>)
  /\ scan' = [scan EXCEPT !.found = <<>>,
                !.pending = IF scan.truncated THEN <<>> ELSE @ \o Reverse(scan.found)]
  /\ UNCHANGED <<disk, writes, step, baseline, prepared>>

Scanned ==
  /\ scan.pending = <<>> /\ scan.children = <<>> /\ scan.found = <<>>
  /\ scan.looked = NoLook

----------------------------------------------------------------------------
(* The collector.                                                          *)

\* begin_step.
BeginBaseline ==
  /\ step = "idle"
  /\ step' = "baseline" /\ scan' = Scanning
  /\ UNCHANGED <<disk, writes, baseline, prepared>>

\* The baseline is frozen: the finished scan, or one that failed or was
\* truncated, which the comparison at prepare looks at.
FreezeBaseline ==
  /\ step = "baseline" /\ Scanned
  /\ baseline' = Snapshot(scan)
  /\ step' = "active" /\ scan' = Scanning
  /\ UNCHANGED <<disk, writes, prepared>>

\* prepare scans again.
BeginFinal ==
  /\ step = "active"
  /\ step' = "final" /\ scan' = Scanning
  /\ UNCHANGED <<disk, writes, baseline, prepared>>

\* _prepare_files and build_runtime_evidence.
PrepareFiles ==
  /\ step = "final" /\ Scanned
  /\ LET after == Snapshot(scan)
         failed == Failed(baseline) \/ Failed(after)
         found == IF failed THEN NoComparison
                  ELSE Compared(baseline.entries, after.entries)
         visible == WithoutSensitivePaths(found)
         observed == FactCount(found.changes)
         retained == FactCount(visible.changes)
         incomplete == \/ ~Complete(baseline) \/ ~Complete(after)
                       \/ \E c \in visible.changes : ~c.complete
         result == WithoutSensitiveDiffs(visible)
         runtime == RuntimeEvidence(result.changes,
                      Summary(failed, incomplete, observed, retained), disk)
     IN  prepared' = [staged |-> TRUE, found |-> found.changes, after |-> after,
                      changes |-> result.changes, local_diffs |-> result.local_diffs,
                      facts |-> runtime.facts, summary |-> runtime.summary,
                      dropped |-> runtime.dropped]
  /\ step' = "prepared" /\ scan' = Scanning
  /\ UNCHANGED <<disk, writes, baseline>>

\* PreparedEvidence.abort leaves the baseline for the next submit.
KeptBaseline == baseline

AbortFiles ==
  /\ step = "prepared"
  /\ step' = "active" /\ prepared' = NothingPrepared
  /\ baseline' = KeptBaseline
  /\ UNCHANGED <<disk, writes, scan>>

\* PreparedEvidence.commit and _finish_step, or cancel_step.
EndStep ==
  /\ step \in {"prepared", "active"}
  /\ step' = "ended" /\ prepared' = NothingPrepared /\ baseline' = NoSnapshot
  /\ UNCHANGED <<disk, writes, scan>>

FileNext ==
  \/ \E p \in Touchable : ProgramCreates(p) \/ ProgramModifies(p) \/ ProgramDeletes(p)
  \/ \E p, q \in Touchable : ProgramRenames(p, q)
  \/ BeginBaseline \/ OpenDirectory \/ LookAtChild \/ ReadChild \/ CloseDirectory
  \/ FreezeBaseline \/ BeginFinal \/ PrepareFiles \/ AbortFiles \/ EndStep

FileSpec == FileInit /\ [][FileNext]_fileVars

----------------------------------------------------------------------------
(* Properties.                                                             *)

\* Every field of a step has its type.
FileTypeOK ==
  /\ disk \in [Path -> Node \cup {Absent}]
  /\ writes \in 0 .. MaxWrites
  /\ step \in {"idle", "baseline", "active", "final", "prepared", "ended"}
  /\ \A s \in {scan, baseline} : s.entries \in [Path -> SnapshotEntry \cup {NoEntry}]
  /\ Cardinality(Recorded(scan.entries)) <= MaxEntries /\ scan.text <= MaxTotalText

\* The baseline with the changes made to it.
Replayed(changes, entries) ==
  [p \in Path |->
     IF \E c \in changes : c.path = p
     THEN (CHOOSE c \in changes : c.path = p).after
     ELSE IF \E c \in changes : c.type = "renamed" /\ c.old = p THEN NoEntry
     ELSE entries[p]]

\* The comparison loses nothing: the changes, renames included, turn the
\* baseline into the final Snapshot, and no path is in two of them.
ChangesExplain ==
  step = "prepared" /\ ~Failed(baseline) /\ ~Failed(prepared.after) =>
    LET ends(p) == {c \in prepared.found : p \in {c.path, c.old}}
        result == Replayed(prepared.found, baseline.entries)
    IN  /\ \A p \in Path : Cardinality(ends(p)) <= 1
        /\ \A p \in Path :
             /\ result[p] = NoEntry <=> prepared.after.entries[p] = NoEntry
             /\ result[p] # NoEntry => ~Changed(result[p], prepared.after.entries[p])

Quiet(p) == p \notin baseline.touched \cup prepared.after.touched

\* A file that was replaced by one that is equal, times and all, is the same.
RealChange(p) ==
  LET before == baseline.disk[p]
      after == prepared.after.disk[p]
  IN  CASE before = Absent /\ after = Absent -> "none"
        [] before = Absent /\ after # Absent -> "created"
        [] before # Absent /\ after = Absent -> "deleted"
        [] OTHER -> IF /\ before.kind = after.kind /\ before.data = after.data
                       /\ before.version = after.version
                    THEN "none" ELSE "modified"

\* A complete summary is a promise: of every path that no program wrote
\* while a scan ran, the facts tell exactly what became of it between the
\* two scans.  (The fact of a link names the file it leads to; from is the
\* path that it is about.)
CompleteIsTrue ==
  prepared.summary.status = "complete" =>
    \A p \in Path \ Excluded :
      Quiet(p) =>
        {f.op : f \in {g \in prepared.facts : g.from = p}} = {RealChange(p)} \ {"none"}

\* The summary that is uploaded passes its own validation, whatever was
\* filtered, cut at the item limit or at the bytes: it counts the facts that
\* are there and explains every one that is not.  And a complete one is true.
SummaryIsTrue ==
  step = "prepared" =>
    ValidSummary(prepared.summary, Cardinality(prepared.facts)) /\ CompleteIsTrue

=============================================================================

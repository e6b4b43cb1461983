------------------------------ MODULE FileFacts ------------------------------
(***************************************************************************)
(* What KUMA says about the files of one step: the comparison of the       *)
(* Snapshot taken before the Agent's turn with the one taken after it, the *)
(* privacy filters, the completeness summary, and the file_change facts    *)
(* that fit the Runtime Evidence envelope.                                 *)
(*                                                                         *)
(* Abstractions: a path is a number, its place in the sorted order; mode   *)
(* bits are part of a node's version; every component is one byte of the   *)
(* envelope, and so is the summary; the claim and the Trace artifact are   *)
(* the two mandatory components.                                           *)
(***************************************************************************)
EXTENDS Integers, FiniteSets, FiniteSetsExt

CONSTANTS
  Path,          \* the paths under the root, in their sorted order
  Folder,        \* the directory of each path, Top for the root's children
  Top,
  Outside,       \* what a link that leaves the root leads to
  Sensitive,     \* paths that look like credentials
  Content,       \* contents of files, numbers other than the paths
  SizeOf,        \* their sizes
  Binary,        \* contents that are no UTF-8 text
  Secret,        \* contents the privacy scanner rejects
  UploadDiff,    \* RunConfig.upload_diff
  Logs,          \* log segments of the step, which share the envelope
  MaxComponents, \* limits.max_components
  MaxEnvelope    \* limits.max_content_chars

ASSUME FactsAssumption ==
  /\ Path \subseteq Nat /\ IsFiniteSet(Path) /\ Top \notin Path /\ Outside \notin Path
  /\ Folder \in [Path -> Path \cup {Top}] /\ Sensitive \subseteq Path
  /\ \A p \in Path : Folder[p] = Top \/ Folder[p] < p
  /\ Content \cap Path = {} /\ SizeOf \in [Content -> Nat]
  /\ Binary \cup Secret \subseteq Content
  /\ UploadDiff \in BOOLEAN /\ Logs \in Nat
  /\ MaxComponents \in Nat /\ MaxComponents >= 2 /\ MaxEnvelope \in Nat /\ MaxEnvelope >= 3

----------------------------------------------------------------------------
(* Nodes of the disk and what a Snapshot holds of them.                    *)

Absent == [kind |-> "absent"]
Kinds == {"file", "directory", "symlink", "special"}

\* data: a file's content or a link's target, 0 for the rest.
Node ==
  [kind: {"file"}, data: Content, inode: Nat, version: Nat]
    \cup [kind: {"symlink"}, data: Path \cup {Outside}, inode: Nat, version: Nat]
    \cup [kind: {"directory", "special"}, data: {0}, inode: Nat, version: Nat]

NoEntry == [kind |-> "none"]

\* What keeps an entry from being complete.
EntryErrors ==
  {"mount_boundary", "special_file", "hash_size_limit", "read_failed", "changed_during_scan"}

\* whole: hash_complete.  omission: text_omission_reason.
SnapshotEntry ==
  [kind: Kinds, data: Content \cup Path \cup {Outside, 0}, inode: Nat, version: Nat,
   whole: BOOLEAN, text: BOOLEAN, error: EntryErrors \cup {""},
   omission: {"size_limit", "binary", ""}]

Recorded(entries) == {p \in Path : entries[p] # NoEntry}

----------------------------------------------------------------------------
(* compare_snapshots.                                                      *)

\* _changed: everything that was compared but the retained text and inode.
Changed(before, after) ==
  \/ before.kind # after.kind \/ before.data # after.data
  \/ before.version # after.version
  \/ before.whole # after.whole \/ before.error # after.error

\* _rename_key: two entries that are certainly the same content.
SameKey(before, after) ==
  /\ before.whole /\ after.whole /\ before.kind \in {"file", "symlink"}
  /\ before.kind = after.kind /\ before.data = after.data

\* Mutant: a content that was there twice is paired with both.
MutPairs(removed, added, before, after) ==
  {r \in removed \X added : SameKey(before[r[1]], after[r[2]])}

\* _renamed_changes pairs a key that one removed and one added path have.
Pairs(removed, added, before, after) ==
  {r \in removed \X added :
     /\ SameKey(before[r[1]], after[r[2]])
     /\ \A p \in removed \ {r[1]} : ~SameKey(before[p], after[r[2]])
     /\ \A p \in added \ {r[2]} : ~SameKey(before[r[1]], after[p])}

\* _unified_diff: both texts were retained and differ; none is an empty one.
TextDiff(before, after) ==
  /\ before # NoEntry => before.text
  /\ after # NoEntry => after.text
  /\ before # NoEntry /\ after # NoEntry => before.data # after.data

\* _reason.
ChangeReasons(before, after) ==
  LET entries == {before, after} \ {NoEntry}
  IN  (UNION {{e.error, e.omission} : e \in entries} \ {""})
        \cup (IF Cardinality({e.kind : e \in entries}) = 2 THEN {"type_changed"} ELSE {})

\* One FileChange; old is the path a rename started from, and diff tells
\* whether the change carries its text.
FileChange(type, path, old, before, after) ==
  [type |-> type, path |-> path, old |-> old, before |-> before, after |-> after,
   complete |-> \A e \in {before, after} \ {NoEntry} : e.whole,
   reasons |-> ChangeReasons(before, after),
   diff |-> type # "renamed" /\ UploadDiff /\ TextDiff(before, after)]

\* The changes between two Snapshots and the diffs kept for local history.
Compared(before, after) ==
  LET gone == Recorded(before) \ Recorded(after)
      new == Recorded(after) \ Recorded(before)
      renamed == Pairs(gone, new, before, after)
      deleted == gone \ {r[1] : r \in renamed}
      created == new \ {r[2] : r \in renamed}
      modified == {p \in Recorded(before) \cap Recorded(after) :
                     Changed(before[p], after[p])}
  IN  [changes |->
         {FileChange("renamed", r[2], r[1], before[r[1]], after[r[2]]) : r \in renamed}
         \cup {FileChange("deleted", p, p, before[p], NoEntry) : p \in deleted}
         \cup {FileChange("created", p, p, NoEntry, after[p]) : p \in created}
         \cup {FileChange("modified", p, p, before[p], after[p]) : p \in modified},
       local_diffs |-> {p \in deleted \cup created \cup modified :
                          TextDiff(before[p], after[p])}]

NoComparison == [changes |-> {}, local_diffs |-> {}]

\* _file_fact_count: a rename is two facts.
FactCount(changes) ==
  Cardinality(changes) + Cardinality({c \in changes : c.type = "renamed"})

----------------------------------------------------------------------------
(* The privacy filters of _prepare_files.                                  *)

\* _omit_sensitive_file_paths.
WithoutSensitivePaths(result) ==
  LET kept == {c \in result.changes : {c.path, c.old} \cap Sensitive = {}}
  IN  [changes |-> kept,
       local_diffs |-> result.local_diffs \ {c.path : c \in result.changes \ kept}]

SecretText(c) ==
  \E e \in {c.before, c.after} \ {NoEntry} : e.text /\ e.data \in Secret

\* _omit_sensitive_file_diffs, which scans only when diffs are uploaded.
WithoutSensitiveDiffs(result) ==
  LET secret == {c \in result.changes : c.diff /\ SecretText(c)}
      cleared(c) == IF c \in secret
                    THEN [c EXCEPT !.diff = FALSE, !.reasons = @ \cup {"sensitive_content"}]
                    ELSE c
  IN  IF ~UploadDiff THEN result
      ELSE [changes |-> {cleared(c) : c \in result.changes},
            local_diffs |-> result.local_diffs \ {c.path : c \in secret}]

----------------------------------------------------------------------------
(* The file observation summary.  Unknown stands for None.                 *)

Unknown == -1

LossReasons == {"privacy_filtered", "path_filtered", "component_limit", "byte_limit"}

\* validate_file_observation_summary.
ValidSummary(summary, retained) ==
  /\ summary.retained = retained
  /\ CASE summary.status = "complete" ->
            /\ summary.observed = summary.retained + summary.omitted
            /\ summary.omitted = 0 /\ summary.reasons = {}
       [] summary.status = "partial" ->
            /\ summary.observed = summary.retained + summary.omitted
            /\ summary.observed # Unknown /\ summary.reasons # {}
            /\ summary.reasons \subseteq LossReasons \cup {"capture_incomplete"}
            /\ summary.omitted > 0 \/ "capture_incomplete" \in summary.reasons
            /\ summary.omitted = 0 \/ summary.reasons \cap LossReasons # {}
       [] summary.status = "unavailable" ->
            /\ summary.observed = Unknown /\ summary.omitted = Unknown
            /\ summary.reasons = {"capture_failed"} /\ summary.retained = 0

\* file_observation_summary of a capture that failed or of what it found.
Summary(failed, incomplete, observed, retained) ==
  LET reasons == (IF incomplete THEN {"capture_incomplete"} ELSE {})
                   \cup (IF observed > retained THEN {"privacy_filtered"} ELSE {})
  IN  IF failed THEN [status |-> "unavailable", observed |-> Unknown,
                      retained |-> retained, omitted |-> Unknown,
                      reasons |-> {"capture_failed"}]
      ELSE [status |-> IF reasons = {} THEN "complete" ELSE "partial",
            observed |-> observed, retained |-> retained,
            omitted |-> observed - retained, reasons |-> reasons]

\* Mutant: the lost facts stay counted as retained.
MutOmittingFacts(summary, count, reason) ==
  IF count = 0 \/ summary.observed = Unknown THEN summary
  ELSE [summary EXCEPT !.status = "partial", !.reasons = @ \cup {reason}]

\* omit_file_observations: facts that a later stage of the projection lost.
OmittingFacts(summary, count, reason) ==
  IF count = 0 THEN summary
  ELSE IF summary.observed = Unknown THEN [summary EXCEPT !.retained = @ - count]
  ELSE [summary EXCEPT !.retained = @ - count, !.omitted = @ + count,
                       !.status = "partial", !.reasons = @ \cup {reason}]

----------------------------------------------------------------------------
(* build_runtime_evidence.                                                 *)

\* _relative_path resolves the path on the disk as it is now: the name of a
\* link is that of its target.
Resolved(path, disk) == IF disk[path].kind = "symlink" THEN disk[path].data ELSE path

\* It is dropped when it leaves the root or looks like a credential.
Nameable(path, disk) == Resolved(path, disk) \in Path \ Sensitive

\* _file_component: change_type, name and the digests it carries.
FileComponent(c, path, op, disk) ==
  [path |-> Resolved(path, disk), op |-> op, from |-> path,
   rank |-> 2 * c.path + IF c.type = "renamed" /\ op = "created" THEN 1 ELSE 0,
   before |-> IF c.before = NoEntry THEN 0 ELSE c.before.data,
   after |-> IF c.after = NoEntry THEN 0 ELSE c.after.data]

\* _file_components.
FileComponents(changes, disk) ==
  {FileComponent(c, c.path, IF c.type = "renamed" THEN "created" ELSE c.type, disk) :
     c \in {d \in changes : Nameable(d.path, disk) /\ Nameable(d.old, disk)}}
  \cup {FileComponent(c, c.old, "deleted", disk) :
     c \in {d \in changes : /\ d.type = "renamed"
                            /\ Nameable(d.path, disk) /\ Nameable(d.old, disk)}}

\* The n first components in the envelope's order.
First(components, n) ==
  {c \in components : Cardinality({d \in components : d.rank < c.rank}) < n}

Smaller(a, b) == IF a < b THEN a ELSE b

\* _fit_components: the mandatory components keep their places, the optional
\* ones (file facts, then logs) are cut at the item limit, then at the bytes.
Fitted(components, summary) ==
  LET files == Cardinality(components)
      places == Smaller(files + Logs, MaxComponents - 2)
      fitting == Smaller(places, MaxEnvelope - 3)
      counted == Smaller(files, places)
      kept == Smaller(files, fitting)
  IN  [facts |-> First(components, kept),
       summary |-> OmittingFacts(OmittingFacts(summary, files - counted, "component_limit"),
                            counted - kept, "byte_limit"),
       dropped |-> files + Logs - fitting]

\* build_runtime_evidence: the facts that are uploaded and their summary.
RuntimeEvidence(changes, summary, disk) ==
  LET components == FileComponents(changes, disk)
  IN  Fitted(components, OmittingFacts(summary, FactCount(changes) - Cardinality(components),
                                  "path_filtered"))

=============================================================================

----------------------------- MODULE LogTracker -----------------------------
(***************************************************************************)
(* LogTracker: the new bytes of the log files a Submission names.  prepare *)
(* reads each file from its committed offset; commit moves the offsets;    *)
(* abort leaves them, so that a retry reads the same bytes.  The programs  *)
(* that write the logs append, truncate and rotate them meanwhile, also    *)
(* between the reads of two files of one preparation.                      *)
(*                                                                         *)
(* Abstractions: a byte is known by its place in a life of its file (a new *)
(* life begins when the file is truncated or replaced); every character is *)
(* two bytes wide; the prefix hash is the life and how much of it was      *)
(* hashed; a verified open and read of one file is one step.               *)
(***************************************************************************)
EXTENDS Integers, Sequences, FiniteSets, FiniteSetsExt

CONSTANTS
  Log,         \* canonical paths of log files under the root
  Refused,     \* those that lead through a link or out of the root
  Unsupported, \* those whose suffix is no log's
  Requests,    \* the sequences of paths Submissions name
  PrefixBytes, \* the bytes that are hashed to know a file again, 4096
  MaxFiles, MaxSegment, MaxTotal, \* the tracker's limits
  Rotated,                        \* the logs that are rotated or truncated
  MaxSize, MaxLives               \* bounds on the writers

ASSUME LogLimitsAssumption ==
  /\ {MaxFiles, MaxSegment, MaxTotal, PrefixBytes} \subseteq Nat \ {0}
  /\ MaxSize \in Nat /\ MaxLives \in Nat \ {0}
  /\ Refused \cup Unsupported \cup Rotated \subseteq Log /\ Requests \subseteq Seq(Log)

VARIABLES
  files,      \* each log file: its inode, its life, its size
  states,    \* LogTracker._states: the committed LogState of each file
  reading,   \* the preparation in progress or staged
  delivered  \* history: the segments of committed Submissions

logVars == <<files, states, reading, delivered>>

----------------------------------------------------------------------------
(* State.                                                                  *)

\* A file that was deleted has no inode.
File == [inode: 0 .. MaxLives, life: 0 .. MaxLives, size: 0 .. MaxSize]

Untracked == [tracked |-> FALSE]
LogState ==
  [tracked: {TRUE}, inode: 1 .. MaxLives, offset: 0 .. MaxSize,
   last_size: 0 .. MaxSize, prefix: (0 .. MaxLives) \X Nat, segment_no: Nat,
   life: 0 .. MaxLives, \* history: the life that was read
   hidden: BOOLEAN]     \* history: its beginning was skipped

Segment ==
  [log: Log, segment_no: Nat, from: 0 .. MaxSize, to: 0 .. MaxSize,
   complete: BOOLEAN,
   life: 0 .. MaxLives, \* history: whose bytes these are
   hidden: BOOLEAN]     \* history: an unnoticed truncation came before

LogReasons == {"file_limit", "total_size_limit", "size_limit", "refused",
               "unsupported", "read_failed", "binary"}

Idling == [phase |-> "idle"]
Reading ==
  [phase: {"reading", "staged"}, queue: Seq(Log), seen: SUBSET Log,
   next: [Log -> {Untracked} \cup LogState], captured: Nat,
   segments: SUBSET Segment, missing: SUBSET LogReasons, dropped: Nat]

Shorter(a, b) == IF a < b THEN a ELSE b

\* The digest of at most PrefixBytes bytes tells lives and lengths apart
\* (two lives begin with different bytes).
PrefixHash(file) ==
  IF file.size = 0 THEN <<0, 0>> ELSE <<file.life, Shorter(file.size, PrefixBytes)>>

----------------------------------------------------------------------------
(* The writers of the logs that can be captured.                           *)

Written == Log \ (Refused \cup Unsupported)

LogInit ==
  /\ files = [l \in Log |-> [inode |-> 1, life |-> 1, size |-> 0]]
  /\ states = [l \in Log |-> Untracked]
  /\ reading = Idling
  /\ delivered = {}

WriterAppends(l) ==
  /\ files[l].inode > 0 /\ files[l].size < MaxSize
  /\ files' = [files EXCEPT ![l].size = @ + 1]
  /\ UNCHANGED <<states, reading, delivered>>

\* The file is emptied in place, as copy-and-truncate rotation does.
WriterTruncates(l) ==
  /\ files[l].inode > 0 /\ files[l].size > 0 /\ files[l].life < MaxLives
  /\ files' = [files EXCEPT ![l].life = @ + 1, ![l].size = 0]
  /\ UNCHANGED <<states, reading, delivered>>

\* The file is moved away; the next write creates another one.
WriterRotates(l) ==
  /\ files[l].life < MaxLives
  /\ files' = [files EXCEPT ![l] = IF @.inode > 0 THEN [@ EXCEPT !.inode = 0]
                                 ELSE [inode |-> @.life + 1, life |-> @.life + 1, size |-> 0]]
  /\ UNCHANGED <<states, reading, delivered>>

----------------------------------------------------------------------------
(* A preparation.                                                          *)

\* prepare copies at most one path more than the limit and drops that one.
StartPreparing(paths) ==
  /\ reading = Idling
  /\ reading' =
       [phase |-> "reading",
        queue |-> SubSeq(paths, 1, Shorter(Len(paths), MaxFiles)),
        seen |-> {}, next |-> [l \in Log |-> Untracked], captured |-> 0,
        segments |-> {},
        missing |-> IF Len(paths) > MaxFiles THEN {"file_limit"} ELSE {},
        dropped |-> IF Len(paths) > MaxFiles THEN 1 ELSE 0]
  /\ UNCHANGED <<files, states, delivered>>

Keys(f) == {l \in Log : f[l].tracked}

\* _resolve_path: a file that is tracked twice, committed and staged, is
\* counted twice.
TooManyFiles(l) ==
  /\ l \notin Keys(states) \cup Keys(reading.next)
  /\ Cardinality(Keys(states)) + Cardinality(Keys(reading.next)) >= MaxFiles

\* _segment_position: another inode, or another prefix in a file that has
\* not grown, begins a new segment; so does a file shorter than its offset.
Position(previous, file) ==
  IF ~previous.tracked THEN [segment_no |-> 0, start |-> 0]
  ELSE IF \/ previous.inode # file.inode
          \/ file.size <= previous.last_size /\ PrefixHash(file) # previous.prefix
          \/ file.size < previous.offset
       THEN [segment_no |-> previous.segment_no + 1, start |-> 0]
       ELSE [segment_no |-> previous.segment_no, start |-> previous.offset]

\* capture_bytes: what one file may still take.
ReadLimit(captured) == Shorter(MaxSegment, MaxTotal - captured)

\* A bounded read ends on a whole character; the rest is read next time.
WholeEnd(start, end, size) ==
  IF end < size THEN end - ((end - start) % 2) ELSE end

\* A half-written character at the end of the file is no UTF-8 text.
Decodable(start, end, size) == end < size \/ (end - start) % 2 = 0

Losing(reason) ==
  [reading EXCEPT !.missing = @ \cup {reason}, !.dropped = @ + 1]

\* _capture_log of a file that could be opened.
Captured(l, file, position, limit) ==
  LET cut == Shorter(file.size, position.start + limit)
      end == WholeEnd(position.start, cut, file.size)
      complete == end = file.size
      hidden == position.start > 0 /\ (states[l].hidden \/ states[l].life # file.life)
      state == [tracked |-> TRUE, inode |-> file.inode, offset |-> end,
                last_size |-> file.size, prefix |-> PrefixHash(file),
                segment_no |-> position.segment_no, life |-> file.life,
                hidden |-> hidden]
      segment == [log |-> l, segment_no |-> position.segment_no,
                  from |-> position.start, to |-> end, complete |-> complete,
                  life |-> file.life, hidden |-> hidden]
      read == [reading EXCEPT
                 !.next[l] = state,
                 !.captured = @ + end - position.start,
                 !.segments = IF end = position.start THEN @ ELSE @ \cup {segment}]
  IN  IF complete THEN read
      ELSE [read EXCEPT !.dropped = @ + 1, !.missing = @ \cup
              {IF limit < MaxSegment THEN "total_size_limit" ELSE "size_limit"}]

\* One path of the request: skipped, refused or read.
InspectPath ==
  /\ reading.phase = "reading" /\ reading.queue # <<>>
  /\ LET l == Head(reading.queue)
         file == files[l]
         position == Position(states[l], file)
         limit == ReadLimit(reading.captured)
         end == Shorter(file.size, position.start + limit)
         resolved == limit > 0 /\ l \notin Refused
         fresh == resolved /\ l \notin reading.seen
         allowed == fresh /\ ~TooManyFiles(l) /\ l \notin Unsupported
         onward(r) == [r EXCEPT !.queue = Tail(@)]
         seen(r) == [onward(r) EXCEPT !.seen = @ \cup {l}]
     IN  \/ /\ limit <= 0
            /\ reading' = [Losing("total_size_limit") EXCEPT !.queue = <<>>]
         \/ /\ limit > 0 /\ l \in Refused
            /\ reading' = onward(Losing("refused"))
         \/ /\ resolved /\ l \in reading.seen
            /\ reading' = onward(reading)
         \/ /\ fresh /\ TooManyFiles(l)
            /\ reading' = seen(Losing("file_limit"))
         \/ /\ fresh /\ ~TooManyFiles(l) /\ l \in Unsupported
            /\ reading' = seen(Losing("unsupported"))
         \/ /\ allowed /\ file.inode = 0
            /\ reading' = seen(Losing("read_failed"))
         \/ /\ allowed /\ file.inode > 0 /\ ~Decodable(position.start, end, file.size)
            /\ reading' = seen(Losing("binary"))
         \/ /\ allowed /\ file.inode > 0 /\ Decodable(position.start, end, file.size)
            /\ reading' = seen(Captured(l, file, position, limit))
  /\ UNCHANGED <<files, states, delivered>>

FinishPreparing ==
  /\ reading.phase = "reading" /\ reading.queue = <<>>
  /\ reading' = [reading EXCEPT !.phase = "staged"]
  /\ UNCHANGED <<files, states, delivered>>

\* _capture_status.
LogStatus(r) ==
  IF r.missing = {} THEN "complete" ELSE IF r.segments = {} THEN "failed" ELSE "partial"

\* LogTracker._commit.
Updated(old, new) == [l \in Log |-> IF new[l].tracked THEN new[l] ELSE old[l]]

\* PreparedLogs.commit.
CommitLogs ==
  /\ reading.phase = "staged"
  /\ states' = Updated(states, reading.next)
  /\ delivered' = delivered \cup reading.segments
  /\ reading' = Idling
  /\ UNCHANGED files

\* Mutant: an aborted Submission moves the offsets, too.
MutKept(r) == Updated(states, r.next)

Kept(r) == states

\* PreparedLogs.abort.
AbortLogs ==
  /\ reading.phase = "staged"
  /\ states' = Kept(reading)
  /\ reading' = Idling
  /\ UNCHANGED <<files, delivered>>

LogNext ==
  \/ \E l \in Written : WriterAppends(l)
  \/ \E l \in Rotated : WriterTruncates(l) \/ WriterRotates(l)
  \/ \E paths \in Requests : StartPreparing(paths)
  \/ InspectPath \/ FinishPreparing \/ CommitLogs \/ AbortLogs

LogSpec == LogInit /\ [][LogNext]_logVars

----------------------------------------------------------------------------
(* Properties.                                                             *)

\* Every field has its type.
LogTypeOK ==
  /\ files \in [Log -> File]
  /\ states \in [Log -> {Untracked} \cup LogState]
  /\ reading \in {Idling} \cup Reading
  /\ delivered \subseteq Segment

SameLife(s, t) == s.log = t.log /\ s.life = t.life

\* No byte of a log is Evidence twice: the committed segments of one life of
\* a file do not overlap, whatever was aborted, retried or rotated between.
NoByteTwice ==
  \A s, t \in delivered :
    s # t /\ SameLife(s, t) => s.to <= t.from \/ t.to <= s.from

\* No byte before a committed segment is missing: the segment starts its
\* file or continues another committed one (or a truncation was hidden by
\* the growth of the file since).
NoByteSkipped ==
  \A s \in delivered :
    \/ s.from = 0 \/ s.hidden
    \/ \E t \in delivered : SameLife(s, t) /\ t.to = s.from

\* A component that claims to be complete read every named file to the end
\* it had when it was read.
CompleteLogsAreRead ==
  reading.phase = "staged" /\ LogStatus(reading) = "complete" =>
    \A l \in reading.seen :
      reading.next[l].tracked /\ reading.next[l].offset = reading.next[l].last_size

\* Each byte a log gained is Evidence once: commits, aborts, retries and
\* rotations neither repeat nor skip one, no character is cut in half, and no
\* component is called complete that left bytes behind.
BytesDeliveredOnce ==
  /\ NoByteTwice /\ NoByteSkipped /\ CompleteLogsAreRead
  /\ \A s \in delivered : s.from % 2 = 0 /\ s.to % 2 = 0

=============================================================================

--------------------------- MODULE EvidenceProofs ---------------------------
(***************************************************************************)
(* Proofs about the log tracker and the file facts, for any files, lives   *)
(* of a file, request sizes and programs that write: no byte of a log is   *)
(* put in two segments nor skipped, the changes between two Snapshots turn *)
(* the first into the second, and a complete summary of them is true.      *)
(*                                                                         *)
(* LogTracker needs an inductive invariant, LInv, about three copies of a  *)
(* position: what was delivered, what the tracker has committed and what a *)
(* preparation has read but may still abort.  FileSnapshots needs FInv,    *)
(* about a scan and the disk that changes under it.  The comparison and    *)
(* the counting of its facts are pure data: every path is in at most one   *)
(* of four disjoint kinds of change.                                       *)
(***************************************************************************)
EXTENDS LogTracker, FileSnapshots, DataLemmas, SequenceTheorems

----------------------------------------------------------------------------
(* The inductive invariant.                                                *)

\* What the tracker knows of a file is of its present life, or of an earlier
\* one; a file that is still there has only grown in the same life.
KnownOf(l, st) ==
  /\ st.offset <= st.last_size /\ st.offset % 2 = 0
  /\ st.prefix = PrefixHash([life |-> st.life, size |-> st.last_size])
  /\ st.life <= files[l].life
  /\ st.life = files[l].life =>
       /\ st.last_size <= files[l].size
       /\ files[l].inode > 0 => st.inode = files[l].inode

\* The segment continues one of those.
Continues(s, segments) ==
  s.from = 0 \/ s.hidden \/ \E t \in segments : SameLife(s, t) /\ t.to = s.from

\* A file's offset is where its last segment ended.
Reached(l, st, segments) ==
  st.offset = 0 \/ st.hidden
    \/ \E t \in segments : t.log = l /\ t.life = st.life /\ t.to = st.offset

\* Whole characters.
Whole(s) == s.from < s.to /\ s.from % 2 = 0 /\ s.to % 2 = 0

CommittedInv ==
  /\ \A l \in Log : states[l].tracked =>
       KnownOf(l, states[l]) /\ Reached(l, states[l], delivered)
  /\ \A s \in delivered :
       /\ states[s.log].tracked /\ s.life <= states[s.log].life
       /\ s.life = states[s.log].life => s.to <= states[s.log].offset
       /\ Whole(s) /\ Continues(s, delivered)
  /\ NoByteTwice

\* What a preparation has read of l follows what was committed of it.
Follows(l, st) ==
  states[l].tracked =>
    /\ states[l].life <= st.life
    /\ states[l].life = st.life => states[l].offset <= st.offset

ReadInv(r) ==
  /\ \A l \in Log : r.next[l].tracked =>
       /\ l \in r.seen /\ KnownOf(l, r.next[l]) /\ Follows(l, r.next[l])
       /\ Reached(l, r.next[l], delivered \union r.segments)
  /\ \A s \in r.segments :
       /\ r.next[s.log].tracked /\ s.life = r.next[s.log].life
       /\ s.to = r.next[s.log].offset
       /\ Whole(s) /\ Continues(s, delivered)
       /\ \A t \in delivered : SameLife(s, t) => t.to <= s.from
       /\ \A t \in r.segments : s.log = t.log => s = t
  /\ r.missing = {} =>
       \A l \in r.seen : r.next[l].tracked /\ r.next[l].offset = r.next[l].last_size

LInv ==
  /\ LogTypeOK /\ CommittedInv
  /\ reading # Idling => ReadInv(reading)

----------------------------------------------------------------------------
(* Numbers and records.                                                    *)

LEMMA ShorterFacts ==
  ASSUME NEW a \in Nat, NEW b \in Nat
  PROVE  Shorter(a, b) \in Nat /\ Shorter(a, b) <= a /\ Shorter(a, b) <= b
BY DEF Shorter

\* A bounded read ends on a whole character, not before it began.
LEMMA WholeEndFacts ==
  ASSUME NEW start \in Nat, NEW cut \in Nat, NEW size \in Nat,
         start <= cut, cut <= size, start % 2 = 0, Decodable(start, cut, size)
  PROVE  /\ WholeEnd(start, cut, size) \in Nat
         /\ start <= WholeEnd(start, cut, size) /\ WholeEnd(start, cut, size) <= size
         /\ WholeEnd(start, cut, size) % 2 = 0
<1> DEFINE d == cut - start
<1>1. d \in Nat /\ d % 2 \in {0, 1} /\ d % 2 <= d /\ cut = start + d
  OBVIOUS
<1>2. CASE cut < size
  <2>1. WholeEnd(start, cut, size) = cut - (d % 2)
    BY <1>2 DEF WholeEnd
  <2>2. (cut - (d % 2)) % 2 = 0
    BY <1>1
  <2> QED  BY <1>1, <1>2, <2>1, <2>2
<1>3. CASE ~ (cut < size)
  <2>1. WholeEnd(start, cut, size) = cut /\ d % 2 = 0
    BY <1>3 DEF WholeEnd, Decodable
  <2>2. cut % 2 = 0
    BY <1>1, <2>1
  <2> QED  BY <2>1, <2>2
<1> QED  BY <1>2, <1>3

LEMMA PrefixType ==
  ASSUME NEW life \in 0 .. MaxLives, NEW size \in 0 .. MaxSize
  PROVE  PrefixHash([life |-> life, size |-> size]) \in (0 .. MaxLives) \X Nat
<1>1. size \in Nat /\ PrefixBytes \in Nat /\ 0 \in 0 .. MaxLives
  BY LogLimitsAssumption
<1>2. Shorter(size, PrefixBytes) \in Nat
  BY <1>1, ShorterFacts
<1> QED  BY <1>1, <1>2 DEF PrefixHash

LEMMA FileFields ==
  ASSUME LogTypeOK, NEW l \in Log
  PROVE  /\ files[l] \in File
         /\ files[l].inode \in 0 .. MaxLives /\ files[l].life \in 0 .. MaxLives
         /\ files[l].size \in 0 .. MaxSize
         /\ files[l].inode \in Nat /\ files[l].life \in Nat /\ files[l].size \in Nat
         /\ PrefixHash(files[l]) = PrefixHash([life |-> files[l].life, size |-> files[l].size])
<1>1. files[l] \in File
  BY DEF LogTypeOK
<1> QED  BY <1>1 DEF File, PrefixHash

\* The fields of a state that is tracked.
LEMMA StateFields ==
  ASSUME NEW st \in {Untracked} \union LogState, st.tracked
  PROVE  /\ st \in LogState /\ st.inode \in Nat /\ st.offset \in 0 .. MaxSize
         /\ st.offset \in Nat /\ st.last_size \in Nat /\ st.segment_no \in Nat
         /\ st.life \in Nat /\ st.hidden \in BOOLEAN
<1>1. st \in LogState
  BY DEF Untracked
<1>2. /\ st.inode \in 1 .. MaxLives /\ st.offset \in 0 .. MaxSize
      /\ st.last_size \in 0 .. MaxSize /\ st.segment_no \in Nat
      /\ st.life \in 0 .. MaxLives /\ st.hidden \in BOOLEAN
  BY <1>1 DEF LogState
<1> QED  BY <1>1, <1>2, LogLimitsAssumption

LEMMA SegmentFields ==
  ASSUME NEW s \in Segment
  PROVE  /\ s.log \in Log /\ s.from \in Nat /\ s.to \in Nat /\ s.life \in Nat
         /\ s.hidden \in BOOLEAN
BY LogLimitsAssumption DEF Segment

LEMMA ReadingFields ==
  ASSUME NEW r \in Reading
  PROVE  /\ r.queue \in Seq(Log) /\ r.seen \subseteq Log /\ r.captured \in Nat
         /\ r.next \in [Log -> {Untracked} \union LogState]
         /\ r.segments \subseteq Segment /\ r.missing \subseteq LogReasons /\ r.dropped \in Nat
         /\ r # Idling
BY DEF Reading, Idling

----------------------------------------------------------------------------
(* The writers.                                                            *)

\* A step of a writer changes one file, which grows or begins another life,
\* or is gone.
Outlives(old, new) ==
  /\ new \in File /\ old.life <= new.life
  /\ new.life = old.life =>
       old.size <= new.size /\ (new.inode > 0 => new.inode = old.inode)

LEMMA WriterKeeps ==
  ASSUME LInv, NEW l \in Log, NEW f, Outlives(files[l], f),
         files' = [files EXCEPT ![l] = f], UNCHANGED <<states, reading, delivered>>
  PROVE  LInv'
<1>1. /\ files \in [Log -> File] /\ f \in File
  BY DEF LInv, LogTypeOK, Outlives
<1>2. /\ files' \in [Log -> File] /\ files'[l] = f
      /\ \A k \in Log \ {l} : files'[k] = files[k]
  BY <1>1
<1>3. LogTypeOK'
  BY <1>2 DEF LInv, LogTypeOK
<1>4. ASSUME NEW k \in Log, NEW st \in {Untracked} \union LogState, st.tracked, KnownOf(k, st)
      PROVE  KnownOf(k, st)'
  <2>1. CASE k # l
    BY <1>2, <1>4, <2>1 DEF KnownOf, PrefixHash
  <2>2. CASE k = l
    <3>1. /\ st.life \in Nat /\ st.last_size \in Nat /\ st.inode \in Nat
      BY <1>4, StateFields
    <3>2. /\ files[l].life \in Nat /\ files[l].size \in Nat
          /\ f.life \in Nat /\ f.size \in Nat /\ f.inode \in Nat
          /\ files[l].inode \in Nat
      BY <1>1, FileFields, LogLimitsAssumption DEF LInv, File
    <3>3. st.life <= f.life
      BY <1>4, <2>2, <3>1, <3>2 DEF KnownOf, Outlives
    <3>4. ASSUME st.life = f.life
          PROVE  st.last_size <= f.size /\ (f.inode > 0 => st.inode = f.inode)
      <4>1. st.life = files[l].life /\ f.life = files[l].life
        BY <1>4, <2>2, <3>1, <3>2, <3>4 DEF KnownOf, Outlives
      <4>2. f.inode > 0 => f.inode = files[l].inode /\ files[l].inode > 0
        BY <3>2, <4>1 DEF Outlives
      <4> QED  BY <1>4, <2>2, <3>1, <3>2, <4>1, <4>2 DEF KnownOf, Outlives
    <3> QED  BY <1>2, <1>4, <2>2, <3>3, <3>4 DEF KnownOf, PrefixHash
  <2> QED  BY <2>1, <2>2
<1>5. states \in [Log -> {Untracked} \union LogState]
  BY DEF LInv, LogTypeOK
<1>6. CommittedInv'
  BY <1>4, <1>5 DEF LInv, CommittedInv, Reached, Continues, SameLife, Whole, NoByteTwice
<1>7. ASSUME reading # Idling PROVE ReadInv(reading)'
  <2>1. reading.next \in [Log -> {Untracked} \union LogState]
    BY <1>7, ReadingFields DEF LInv, LogTypeOK
  <2> QED  BY <1>4, <1>7, <2>1
           DEF LInv, ReadInv, Follows, Reached, Continues, SameLife, Whole
<1> QED  BY <1>3, <1>6, <1>7 DEF LInv

LEMMA WritersKeep ==
  ASSUME LInv, NEW l \in Log, WriterAppends(l) \/ WriterTruncates(l) \/ WriterRotates(l)
  PROVE  LInv'
<1> DEFINE f == files[l]
<1>1. /\ f \in File /\ f.inode \in 0 .. MaxLives /\ f.life \in 0 .. MaxLives
      /\ f.size \in 0 .. MaxSize /\ files \in [Log -> File]
      /\ MaxLives \in Nat /\ MaxSize \in Nat
  BY FileFields, LogLimitsAssumption DEF LInv, LogTypeOK
<1>2. \E g : Outlives(f, g) /\ files' = [files EXCEPT ![l] = g]
  <2>1. CASE WriterAppends(l)
    <3> DEFINE n == f.size + 1
               g == [f EXCEPT !.size = n]
    <3>1. files' = [files EXCEPT ![l] = g] /\ n \in 0 .. MaxSize /\ n >= f.size
      BY <1>1, <2>1 DEF WriterAppends
    <3> HIDE DEF n
    <3>2. Outlives(f, g)
      BY <1>1, <3>1 DEF Outlives, File
    <3> QED  BY <3>1, <3>2
  <2>2. CASE WriterTruncates(l)
    <3> DEFINE n == f.life + 1
               g == [f EXCEPT !.life = n, !.size = 0]
    <3>1. f.life < MaxLives
      BY <2>2 DEF WriterTruncates
    <3>2. n \in 0 .. MaxLives /\ n > f.life /\ f.life <= n /\ n # f.life
      BY <1>1, <3>1
    <3>3. files' = [files EXCEPT ![l] = g]
      BY <1>1, <2>2 DEF WriterTruncates, File
    <3> HIDE DEF n
    <3>a. 0 \in 0 .. MaxSize
      BY <1>1
    <3>4. g \in File /\ g.life = n
      BY <1>1, <3>2, <3>a DEF File
    <3>5. Outlives(f, g)
      BY <3>2, <3>4 DEF Outlives
    <3> QED  BY <3>3, <3>5
  <2>3. CASE WriterRotates(l) /\ f.inode > 0
    <3> DEFINE g == [f EXCEPT !.inode = 0]
    <3>1. files' = [files EXCEPT ![l] = g]
      BY <1>1, <2>3 DEF WriterRotates
    <3>2. Outlives(f, g)
      BY <1>1 DEF Outlives, File
    <3> QED  BY <3>1, <3>2
  <2>4. CASE WriterRotates(l) /\ ~ (f.inode > 0)
    <3> DEFINE n == f.life + 1
               g == [inode |-> n, life |-> n, size |-> 0]
    <3>1. f.life < MaxLives
      BY <2>4 DEF WriterRotates
    <3>2. n \in 0 .. MaxLives /\ n > f.life /\ f.life <= n /\ n # f.life
      BY <1>1, <3>1
    <3>3. files' = [files EXCEPT ![l] = g]
      BY <1>1, <2>4 DEF WriterRotates
    <3> HIDE DEF n
    <3>4. g \in File /\ g.life = n
      BY <1>1, <3>2 DEF File
    <3>5. Outlives(f, g)
      BY <3>2, <3>4 DEF Outlives
    <3> QED  BY <3>3, <3>5
  <2> QED  BY <2>1, <2>2, <2>3, <2>4
<1>3. UNCHANGED <<states, reading, delivered>>
  BY DEF WriterAppends, WriterTruncates, WriterRotates
<1> QED  BY <1>2, <1>3, WriterKeeps

----------------------------------------------------------------------------
(* One file is read.                                                       *)

\* Where its new bytes begin.
LEMMA PositionFacts ==
  ASSUME LInv, NEW l \in Log, files[l].inode > 0
  PROVE  LET p == Position(states[l], files[l])
         IN  /\ p.start \in Nat /\ p.segment_no \in Nat
             /\ p.start <= files[l].size /\ p.start % 2 = 0
             /\ p.start > 0 => states[l].tracked /\ p.start = states[l].offset
             /\ states[l].tracked /\ states[l].life = files[l].life => p.start = states[l].offset
<1> DEFINE st == states[l]
           f == files[l]
           p == Position(st, f)
<1>1. st \in {Untracked} \union LogState /\ (st.tracked => KnownOf(l, st))
  BY DEF LInv, LogTypeOK, CommittedInv
<1>2. f.inode \in Nat /\ f.size \in Nat /\ f.life \in Nat
      /\ PrefixHash(f) = PrefixHash([life |-> f.life, size |-> f.size])
  BY FileFields DEF LInv
<1>3. 0 % 2 = 0
  OBVIOUS
<1>4. CASE ~ st.tracked
  BY <1>2, <1>3, <1>4 DEF Position
<1>5. CASE st.tracked
  <2>1. /\ st.inode \in Nat /\ st.offset \in Nat /\ st.last_size \in Nat
        /\ st.segment_no \in Nat /\ st.life \in Nat
    BY <1>1, <1>5, StateFields
  <2>2. /\ st.offset <= st.last_size /\ st.offset % 2 = 0
        /\ st.prefix = PrefixHash([life |-> st.life, size |-> st.last_size])
        /\ st.life = f.life => st.last_size <= f.size /\ st.inode = f.inode
    BY <1>1, <1>5 DEF KnownOf
  <2> DEFINE again == \/ st.inode # f.inode
                      \/ f.size <= st.last_size /\ PrefixHash(f) # st.prefix
                      \/ f.size < st.offset
  <2>3. p = IF again THEN [segment_no |-> st.segment_no + 1, start |-> 0]
            ELSE [segment_no |-> st.segment_no, start |-> st.offset]
    BY <1>5 DEF Position
  <2>4. st.life = f.life => ~ again
    <3>1. st.life = f.life /\ f.size <= st.last_size => f.size = st.last_size
      BY <1>2, <2>1, <2>2
    <3>2. st.life = f.life /\ f.size <= st.last_size => PrefixHash(f) = st.prefix
      BY <1>2, <2>2, <3>1
    <3>3. st.life = f.life => ~ (f.size < st.offset)
      BY <1>2, <2>1, <2>2
    <3> QED  BY <2>2, <3>2, <3>3
  <2>5. ~ again => st.offset <= f.size
    BY <1>2, <2>1
  <2> HIDE DEF again, p
  <2>6. CASE again
    <3>1. p.start = 0 /\ p.segment_no = st.segment_no + 1
      BY <2>3, <2>6
    <3> QED  BY <1>2, <1>3, <2>1, <2>4, <2>6, <3>1 DEF p
  <2>7. CASE ~ again
    <3>1. p.start = st.offset /\ p.segment_no = st.segment_no
      BY <2>3, <2>7
    <3> QED  BY <1>2, <1>5, <2>1, <2>2, <2>5, <2>7, <3>1 DEF p
  <2> QED  BY <2>6, <2>7
<1> QED  BY <1>4, <1>5

\* r is what the preparation holds after l was read: a state that follows the
\* committed one, and the segment in between, if it is not empty.
Taken(l, r) ==
  \E st \in LogState, seg \in Segment, start \in Nat :
    /\ KnownOf(l, st) /\ Follows(l, st)
    /\ start <= st.offset
    /\ start = 0 \/ st.hidden
         \/ \E t \in delivered : t.log = l /\ t.life = st.life /\ t.to = start
    /\ \A t \in delivered : t.log = l /\ t.life = st.life => t.to <= start
    /\ start < st.offset =>
         /\ seg.log = l /\ seg.life = st.life /\ seg.hidden = st.hidden
         /\ seg.from = start /\ seg.to = st.offset
         /\ Whole(seg)
    /\ r \in Reading /\ r.queue = reading.queue /\ r.seen = reading.seen
    /\ r.next = [reading.next EXCEPT ![l] = st]
    /\ r.segments = IF st.offset = start THEN reading.segments
                    ELSE reading.segments \union {seg}
    /\ r.missing = {} => reading.missing = {} /\ st.offset = st.last_size

LEMMA CapturedFacts ==
  ASSUME LInv, NEW l \in Log, reading \in Reading, files[l].inode > 0,
         NEW limit \in Nat, limit > 0,
         Decodable(Position(states[l], files[l]).start,
                   Shorter(files[l].size, Position(states[l], files[l]).start + limit),
                   files[l].size)
  PROVE  Taken(l, Captured(l, files[l], Position(states[l], files[l]), limit))
<1> DEFINE f == files[l]
           position == Position(states[l], f)
           start == position.start
           no == position.segment_no
           cut == Shorter(f.size, start + limit)
           end == WholeEnd(start, cut, f.size)
           complete == end = f.size
           hidden == start > 0 /\ (states[l].hidden \/ states[l].life # f.life)
           prefix == PrefixHash(f)
           state == [tracked |-> TRUE, inode |-> f.inode, offset |-> end,
                     last_size |-> f.size, prefix |-> prefix,
                     segment_no |-> no, life |-> f.life, hidden |-> hidden]
           segment == [log |-> l, segment_no |-> no, from |-> start, to |-> end,
                       complete |-> complete, life |-> f.life, hidden |-> hidden]
           read == [reading EXCEPT
                      !.next[l] = state, !.captured = @ + end - start,
                      !.segments = IF end = start THEN @ ELSE @ \union {segment}]
           cause == IF limit < MaxSegment THEN "total_size_limit" ELSE "size_limit"
           r == IF complete THEN read
                ELSE [read EXCEPT !.dropped = @ + 1, !.missing = @ \union {cause}]
<1>1. Captured(l, f, position, limit) = r
  BY DEF Captured
<1>2. /\ start \in Nat /\ no \in Nat /\ start <= f.size /\ start % 2 = 0
      /\ start > 0 => states[l].tracked /\ start = states[l].offset
      /\ states[l].tracked /\ states[l].life = f.life => start = states[l].offset
  BY PositionFacts
<1>3. Decodable(start, cut, f.size)
  OBVIOUS
<1> HIDE DEF position, start, no
<1>4. /\ f.inode \in Nat /\ f.size \in Nat /\ f.life \in Nat
      /\ f.inode \in 1 .. MaxLives /\ f.size \in 0 .. MaxSize /\ f.life \in 0 .. MaxLives
      /\ prefix = PrefixHash([life |-> f.life, size |-> f.size])
  BY FileFields, LogLimitsAssumption DEF LInv
<1>5. prefix \in (0 .. MaxLives) \X Nat
  BY <1>4, PrefixType
<1> HIDE DEF prefix
<1>6. cut \in Nat /\ start <= cut /\ cut <= f.size
  <2>1. start + limit \in Nat /\ start <= start + limit
    BY <1>2
  <2> QED  BY <1>2, <1>4, <2>1 DEF Shorter
<1> HIDE DEF cut
<1>7. end \in Nat /\ start <= end /\ end <= f.size /\ end % 2 = 0
  BY <1>2, <1>3, <1>4, <1>6, WholeEndFacts
<1> HIDE DEF end
<1>8. /\ states[l] \in {Untracked} \union LogState
      /\ states[l].tracked => /\ KnownOf(l, states[l]) /\ Reached(l, states[l], delivered)
                              /\ states[l] \in LogState /\ states[l].hidden \in BOOLEAN
                              /\ states[l].life \in Nat /\ states[l].offset \in Nat
  BY StateFields DEF LInv, LogTypeOK, CommittedInv
<1>9. hidden \in BOOLEAN
  BY <1>2, <1>8
<1>10. end \in 0 .. MaxSize /\ start \in 0 .. MaxSize
  <2>1. MaxSize \in Nat /\ f.size <= MaxSize
    BY <1>4, LogLimitsAssumption
  <2>2. end <= MaxSize /\ start <= MaxSize
    BY <1>2, <1>4, <1>7, <2>1
  <2> QED  BY <1>2, <1>7, <2>1, <2>2
<1>11. state \in LogState
  BY <1>2, <1>4, <1>5, <1>9, <1>10 DEF LogState
<1>12. /\ state.tracked /\ state.inode = f.inode /\ state.offset = end
       /\ state.last_size = f.size /\ state.prefix = prefix /\ state.life = f.life
       /\ state.hidden = hidden
  OBVIOUS
<1>13. segment \in Segment
  BY <1>2, <1>4, <1>9, <1>10 DEF Segment
<1>14. /\ segment.log = l /\ segment.life = f.life /\ segment.hidden = hidden
       /\ segment.from = start /\ segment.to = end
  OBVIOUS
<1> HIDE DEF state, segment
<1>15. KnownOf(l, state)
  BY <1>4, <1>7, <1>12 DEF KnownOf
<1>16. Follows(l, state)
  BY <1>2, <1>4, <1>7, <1>8, <1>12 DEF Follows, KnownOf
<1>17. start = 0 \/ hidden \/ \E t \in delivered : t.log = l /\ t.life = f.life /\ t.to = start
  BY <1>2, <1>8 DEF Reached
<1>18. ASSUME NEW t \in delivered, t.log = l, t.life = f.life PROVE t.to <= start
  <2>1. /\ states[l].tracked /\ t.life <= states[l].life
        /\ t.life = states[l].life => t.to <= states[l].offset
    BY <1>18 DEF LInv, CommittedInv
  <2>2. states[l].life <= f.life
    BY <1>8, <2>1 DEF KnownOf
  <2>3. states[l].life = f.life
    BY <1>4, <1>8, <1>18, <2>1, <2>2
  <2> QED  BY <1>2, <1>18, <2>1, <2>3
<1>19. start < end => Whole(segment)
  BY <1>2, <1>7, <1>14 DEF Whole
<1> HIDE DEF hidden
<1> DEFINE n == [reading.next EXCEPT ![l] = state]
           k == reading.captured + end - start
           g == IF end = start THEN reading.segments ELSE reading.segments \union {segment}
<1>20. n \in [Log -> {Untracked} \union LogState] /\ k \in Nat /\ g \subseteq Segment
  <2>1. /\ reading.next \in [Log -> {Untracked} \union LogState] /\ reading.captured \in Nat
        /\ reading.segments \subseteq Segment
    BY ReadingFields
  <2> QED  BY <1>2, <1>7, <1>11, <1>13, <2>1
<1>21. read = [reading EXCEPT !.next = n, !.captured = k, !.segments = g]
  BY DEF Reading
<1> HIDE DEF n, k, g, read
<1>22. /\ read \in Reading /\ read.queue = reading.queue /\ read.seen = reading.seen
       /\ read.next = n /\ read.segments = g /\ read.missing = reading.missing
  BY <1>20, <1>21 DEF Reading
<1>23. /\ r \in Reading /\ r.queue = reading.queue /\ r.seen = reading.seen
       /\ r.next = n /\ r.segments = g
       /\ r.missing = {} => reading.missing = {} /\ end = f.size
  <2>1. CASE complete
    BY <1>22, <2>1
  <2>2. CASE ~ complete
    <3> DEFINE m == read.missing \union {cause}
               d == read.dropped + 1
    <3>1. m \subseteq LogReasons /\ d \in Nat /\ m # {}
      BY <1>22, ReadingFields DEF LogReasons
    <3>2. r = [read EXCEPT !.dropped = d, !.missing = m]
      BY <2>2
    <3> HIDE DEF m, d
    <3> QED  BY <1>22, <3>1, <3>2 DEF Reading
  <2> QED  BY <2>1, <2>2
<1> HIDE DEF r
<1>24. Taken(l, r)
  <2>1. start <= state.offset /\ (start < state.offset <=> start < end)
    BY <1>7, <1>12
  <2>2. start = 0 \/ state.hidden
          \/ \E t \in delivered : t.log = l /\ t.life = state.life /\ t.to = start
    BY <1>12, <1>17
  <2>3. \A t \in delivered : t.log = l /\ t.life = state.life => t.to <= start
    BY <1>12, <1>18
  <2>4. start < state.offset =>
          /\ segment.log = l /\ segment.life = state.life /\ segment.hidden = state.hidden
          /\ segment.from = start /\ segment.to = state.offset
          /\ Whole(segment)
    BY <1>12, <1>14, <1>19
  <2>5. /\ r.next = [reading.next EXCEPT ![l] = state]
        /\ r.segments = IF state.offset = start THEN reading.segments
                        ELSE reading.segments \union {segment}
        /\ r.missing = {} => reading.missing = {} /\ state.offset = state.last_size
    BY <1>12, <1>23 DEF n, g
  <2> QED  BY <1>2, <1>11, <1>13, <1>15, <1>16, <1>23, <2>1, <2>2, <2>3, <2>4, <2>5 DEF Taken
<1> QED  BY <1>1, <1>24 DEF position

\* A path that is skipped leaves what was read alone; a loss is noted.
LEMMA SkippedKeeps ==
  ASSUME NEW r \in Reading, NEW q \in Reading, ReadInv(r), LInv,
         q.next = r.next, q.segments = r.segments,
         r.seen \subseteq q.seen, q.missing # {} \/ (q.missing = r.missing /\ q.seen = r.seen)
  PROVE  ReadInv(q)
BY DEF ReadInv

\* A file that is read is read once; its segment follows what was committed.
LEMMA TakenKeeps ==
  ASSUME LInv, NEW l \in Log, NEW r, reading \in Reading, ReadInv(reading), Taken(l, r),
         l \notin reading.seen,
         NEW q \in Reading, q.next = r.next, q.segments = r.segments,
         q.seen = reading.seen \union {l}, q.missing = r.missing
  PROVE  ReadInv(q)
<1>1. PICK st \in LogState, seg \in Segment, start \in Nat :
        /\ KnownOf(l, st) /\ Follows(l, st)
        /\ start <= st.offset
        /\ start = 0 \/ st.hidden
             \/ \E t \in delivered : t.log = l /\ t.life = st.life /\ t.to = start
        /\ \A t \in delivered : t.log = l /\ t.life = st.life => t.to <= start
        /\ start < st.offset =>
             /\ seg.log = l /\ seg.life = st.life /\ seg.hidden = st.hidden
             /\ seg.from = start /\ seg.to = st.offset
             /\ Whole(seg)
        /\ r \in Reading /\ r.queue = reading.queue /\ r.seen = reading.seen
        /\ r.next = [reading.next EXCEPT ![l] = st]
        /\ r.segments = IF st.offset = start THEN reading.segments
                        ELSE reading.segments \union {seg}
        /\ r.missing = {} => reading.missing = {} /\ st.offset = st.last_size
  BY DEF Taken
<1>2. /\ reading.next \in [Log -> {Untracked} \union LogState]
      /\ reading.segments \subseteq Segment /\ reading.seen \subseteq Log
  BY ReadingFields
<1>3. /\ q.next[l] = st /\ st.tracked /\ st.offset \in Nat
      /\ \A k \in Log \ {l} : q.next[k] = reading.next[k]
  <2>1. st.tracked /\ st \in {Untracked} \union LogState
    BY DEF LogState
  <2>2. st.offset \in Nat
    BY <2>1, StateFields
  <2>3. q.next = [reading.next EXCEPT ![l] = st]
    BY <1>1
  <2> QED  BY <1>2, <2>1, <2>2, <2>3
<1>4. \A s \in reading.segments : s.log # l /\ s.log \in Log
  BY <1>2, SegmentFields DEF ReadInv
<1>5. /\ reading.segments \subseteq q.segments
      /\ q.segments \subseteq reading.segments \union {seg}
      /\ seg \in q.segments /\ seg \notin reading.segments => start < st.offset
      /\ start < st.offset => seg \in q.segments
  BY <1>1, <1>3
<1>6. ASSUME NEW k \in Log, q.next[k].tracked
      PROVE  /\ k \in q.seen /\ KnownOf(k, q.next[k]) /\ Follows(k, q.next[k])
             /\ Reached(k, q.next[k], delivered \union q.segments)
  <2>1. CASE k # l
    BY <1>3, <1>5, <1>6, <2>1 DEF ReadInv, Reached
  <2>2. CASE k = l
    <3>1. Reached(l, st, delivered \union q.segments)
      <4>1. CASE start < st.offset
        BY <1>1, <1>5, <4>1 DEF Reached
      <4>2. CASE start = st.offset
        BY <1>1, <4>2 DEF Reached
      <4> QED  BY <1>1, <1>3, <4>1, <4>2
    <3> QED  BY <1>1, <1>3, <2>2, <3>1
  <2> QED  BY <2>1, <2>2
<1>7. ASSUME NEW s \in q.segments
      PROVE  /\ q.next[s.log].tracked /\ s.life = q.next[s.log].life
             /\ s.to = q.next[s.log].offset
             /\ Whole(s) /\ Continues(s, delivered)
             /\ \A t \in delivered : SameLife(s, t) => t.to <= s.from
             /\ \A t \in q.segments : s.log = t.log => s = t
  <2>1. CASE s \in reading.segments
    <3>1. ASSUME NEW t \in q.segments, s.log = t.log PROVE s = t
      <4>1. CASE t \in reading.segments
        BY <2>1, <3>1, <4>1 DEF ReadInv
      <4>2. CASE t \notin reading.segments
        BY <1>1, <1>4, <1>5, <2>1, <3>1, <4>2
      <4> QED  BY <4>1, <4>2
    <3> QED  BY <1>3, <1>4, <2>1, <3>1 DEF ReadInv
  <2>2. CASE s \notin reading.segments
    <3>1. s = seg /\ start < st.offset
      BY <1>5, <2>2
    <3>2. /\ s.log = l /\ s.life = st.life /\ s.hidden = st.hidden
          /\ s.from = start /\ s.to = st.offset /\ Whole(s)
      BY <1>1, <3>1
    <3>3. Continues(s, delivered)
      BY <1>1, <3>2 DEF Continues, SameLife
    <3>4. \A t \in q.segments : s.log = t.log => s = t
      BY <1>4, <1>5, <3>1, <3>2
    <3>5. \A t \in delivered : SameLife(s, t) => t.to <= s.from
      BY <1>1, <3>2 DEF SameLife
    <3> QED  BY <1>3, <3>2, <3>3, <3>4, <3>5
  <2> QED  BY <2>1, <2>2
<1>8. ASSUME q.missing = {}, NEW k \in q.seen
      PROVE  q.next[k].tracked /\ q.next[k].offset = q.next[k].last_size
  <2>1. CASE k = l
    BY <1>1, <1>3, <1>8, <2>1
  <2>2. CASE k # l
    BY <1>1, <1>2, <1>3, <1>8, <2>2 DEF ReadInv
  <2> QED  BY <2>1, <2>2
<1> QED  BY <1>6, <1>7, <1>8 DEF ReadInv

----------------------------------------------------------------------------
(* The tracker's steps.                                                    *)

LEMMA StartPreparingKeeps ==
  ASSUME LInv, NEW paths \in Requests, StartPreparing(paths)
  PROVE  LInv'
<1> DEFINE n == Shorter(Len(paths), MaxFiles)
           q == SubSeq(paths, 1, n)
           missing == IF Len(paths) > MaxFiles THEN {"file_limit"} ELSE {}
           dropped == IF Len(paths) > MaxFiles THEN 1 ELSE 0
           next == [l \in Log |-> Untracked]
           r == [phase |-> "reading", queue |-> q, seen |-> {}, next |-> next,
                 captured |-> 0, segments |-> {}, missing |-> missing, dropped |-> dropped]
<1>1. reading' = r /\ UNCHANGED <<files, states, delivered>>
  BY DEF StartPreparing
<1>2. q \in Seq(Log)
  <2>1. paths \in Seq(Log) /\ Len(paths) \in Nat /\ MaxFiles \in Nat
    BY LogLimitsAssumption, LenProperties
  <2>2. n \in Nat /\ n <= Len(paths)
    BY <2>1, ShorterFacts
  <2> HIDE DEF n
  <2> QED  BY <2>1, <2>2, SubSeqProperties
<1>3. missing \subseteq LogReasons /\ dropped \in Nat /\ next \in [Log -> {Untracked} \union LogState]
  BY DEF LogReasons
<1> HIDE DEF q, missing, dropped
<1>4. r \in Reading
  BY <1>2, <1>3 DEF Reading
<1>5. ReadInv(r)
  BY DEF ReadInv, Untracked
<1> HIDE DEF r
<1>6. LogTypeOK'
  BY <1>1, <1>4 DEF LInv, LogTypeOK
<1>7. CommittedInv'
  BY <1>1 DEF LInv, CommittedInv, KnownOf, Reached, Continues, SameLife, NoByteTwice
<1>8. ReadInv(reading)'
  BY <1>1, <1>5 DEF ReadInv, KnownOf, Follows
<1> QED  BY <1>6, <1>7, <1>8 DEF LInv

\* What a step that only reads has to show.
LEMMA ReadingStep ==
  ASSUME LInv, UNCHANGED <<files, states, delivered>>, reading' \in Reading, ReadInv(reading')
  PROVE  LInv'
<1>1. LogTypeOK'
  BY DEF LInv, LogTypeOK
<1>2. CommittedInv'
  BY DEF LInv, CommittedInv, KnownOf, Reached, Continues, SameLife, NoByteTwice
<1>3. ReadInv(reading)'
  BY DEF ReadInv, KnownOf, Follows
<1> QED  BY <1>1, <1>2, <1>3 DEF LInv

LEMMA InspectPathKeeps ==
  ASSUME LInv, InspectPath
  PROVE  LInv'
<1> DEFINE l == Head(reading.queue)
           file == files[l]
           position == Position(states[l], file)
           limit == ReadLimit(reading.captured)
           end == Shorter(file.size, position.start + limit)
           tail == Tail(reading.queue)
<1>1. /\ reading.phase = "reading" /\ reading.queue # <<>>
      /\ UNCHANGED <<files, states, delivered>>
  BY DEF InspectPath
<1>2. reading \in Reading /\ ReadInv(reading)
  BY <1>1 DEF LInv, LogTypeOK, Idling
<1>3. l \in Log /\ tail \in Seq(Log) /\ reading.seen \subseteq Log /\ reading.captured \in Nat
      /\ reading.missing \subseteq LogReasons /\ reading.dropped \in Nat
  BY <1>1, <1>2, ReadingFields, HeadTailProperties
<1>4. limit \in Int
  BY <1>3, LogLimitsAssumption DEF ReadLimit, Shorter
<1> DEFINE onward(r) == [r EXCEPT !.queue = Tail(@)]
           seen(r) == [onward(r) EXCEPT !.seen = @ \union {l}]
<1>5. \/ \E reason \in LogReasons :
           \/ reading' = [Losing(reason) EXCEPT !.queue = <<>>]
           \/ reading' = onward(Losing(reason))
           \/ reading' = seen(Losing(reason))
      \/ reading' = onward(reading)
      \/ /\ limit > 0 /\ l \notin reading.seen /\ file.inode > 0
         /\ Decodable(position.start, end, file.size)
         /\ reading' = seen(Captured(l, file, position, limit))
  <2> HIDE DEF position, limit, end
  <2>1. {"total_size_limit", "refused", "file_limit", "unsupported", "read_failed", "binary"}
          \subseteq LogReasons
    BY DEF LogReasons
  <2> QED  BY <2>1 DEF InspectPath, position, limit, end
<1>6. ASSUME NEW reason \in LogReasons
      PROVE  LET q == Losing(reason)
             IN  /\ q \in Reading /\ q.next = reading.next /\ q.segments = reading.segments
                 /\ q.seen = reading.seen /\ q.queue = reading.queue /\ q.missing # {}
  <2> DEFINE m == reading.missing \union {reason}
             d == reading.dropped + 1
             q == Losing(reason)
  <2>1. m \subseteq LogReasons /\ d \in Nat /\ m # {}
    BY <1>3
  <2>2. q = [reading EXCEPT !.missing = m, !.dropped = d]
    BY <1>2 DEF Losing, Reading
  <2> HIDE DEF m, d, q
  <2>3. /\ q \in Reading /\ q.next = reading.next /\ q.segments = reading.segments
        /\ q.seen = reading.seen /\ q.queue = reading.queue /\ q.missing = m
    BY <1>2, <2>1, <2>2 DEF Reading
  <2> QED  BY <2>1, <2>3 DEF q
<1> HIDE DEF position, limit, end
<1>7. ASSUME NEW r \in Reading, r.queue = reading.queue
      PROVE  LET q == onward(r)
             IN  /\ q \in Reading /\ q.next = r.next /\ q.segments = r.segments
                 /\ q.seen = r.seen /\ q.missing = r.missing
  <2>1. onward(r) = [r EXCEPT !.queue = tail]
    BY <1>7
  <2> HIDE DEF tail
  <2> QED  BY <1>3, <2>1 DEF Reading
<1>8. ASSUME NEW r \in Reading, r.queue = reading.queue
      PROVE  LET q == seen(r)
             IN  /\ q \in Reading /\ q.next = r.next /\ q.segments = r.segments
                 /\ q.seen = r.seen \union {l} /\ q.missing = r.missing
  <2> DEFINE p == onward(r)
             z == r.seen \union {l}
  <2>1. /\ p \in Reading /\ p.next = r.next /\ p.segments = r.segments
        /\ p.seen = r.seen /\ p.missing = r.missing /\ z \subseteq Log
    BY <1>3, <1>7, <1>8, ReadingFields
  <2> HIDE DEF p
  <2>2. seen(r) = [p EXCEPT !.seen = z]
    BY <2>1 DEF p
  <2> HIDE DEF z
  <2>3. /\ [p EXCEPT !.seen = z] \in Reading /\ [p EXCEPT !.seen = z].next = p.next
        /\ [p EXCEPT !.seen = z].segments = p.segments
        /\ [p EXCEPT !.seen = z].seen = z /\ [p EXCEPT !.seen = z].missing = p.missing
    BY <2>1 DEF Reading
  <2> HIDE DEF seen
  <2> QED  BY <2>1, <2>2, <2>3 DEF z
<1>9. ASSUME NEW reason \in LogReasons, reading' = [Losing(reason) EXCEPT !.queue = <<>>]
      PROVE  LInv'
  <2> DEFINE p == Losing(reason)
  <2>1. /\ p \in Reading /\ p.next = reading.next /\ p.segments = reading.segments
        /\ p.seen = reading.seen /\ p.missing # {}
    BY <1>6
  <2> HIDE DEF p
  <2>2. reading' = [p EXCEPT !.queue = <<>>] /\ <<>> \in Seq(Log)
    BY <1>9 DEF p
  <2>3. /\ reading' \in Reading /\ reading'.next = reading.next
        /\ reading'.segments = reading.segments
        /\ reading'.seen = reading.seen /\ reading'.missing # {}
    BY <2>1, <2>2 DEF Reading
  <2> QED  BY <1>1, <1>2, <2>3, SkippedKeeps, ReadingStep
<1>10. ASSUME NEW reason \in LogReasons,
              reading' = onward(Losing(reason)) \/ reading' = seen(Losing(reason))
       PROVE  LInv'
  <2> HIDE DEF onward, seen
  <2>1. /\ reading' \in Reading /\ reading'.next = reading.next
        /\ reading'.segments = reading.segments
        /\ reading.seen \subseteq reading'.seen /\ reading'.missing # {}
    BY <1>6, <1>7, <1>8, <1>10
  <2> QED  BY <1>1, <1>2, <2>1, SkippedKeeps, ReadingStep
<1>11. ASSUME reading' = onward(reading) PROVE LInv'
  <2> HIDE DEF onward, seen
  <2>1. /\ reading' \in Reading /\ reading'.next = reading.next
        /\ reading'.segments = reading.segments
        /\ reading'.seen = reading.seen /\ reading'.missing = reading.missing
    BY <1>2, <1>7, <1>11
  <2> QED  BY <1>1, <1>2, <2>1, SkippedKeeps, ReadingStep
<1>12. ASSUME limit > 0, l \notin reading.seen, file.inode > 0,
              Decodable(position.start, end, file.size),
              reading' = seen(Captured(l, file, position, limit))
       PROVE  LInv'
  <2> DEFINE r == Captured(l, file, position, limit)
  <2>1. Taken(l, r)
    <3>1. limit \in Nat
      BY <1>4, <1>12
    <3> QED  BY <1>2, <1>3, <1>12, <3>1, CapturedFacts DEF position, end
  <2> HIDE DEF r, seen, onward
  <2>2. r \in Reading /\ r.queue = reading.queue /\ r.seen = reading.seen
    BY <2>1 DEF Taken
  <2>3. /\ reading' \in Reading /\ reading'.next = r.next /\ reading'.segments = r.segments
        /\ reading'.seen = reading.seen \union {l} /\ reading'.missing = r.missing
    BY <1>8, <1>12, <2>2 DEF r
  <2>4. ReadInv(reading')
    BY <1>2, <1>3, <1>12, <2>1, <2>3, TakenKeeps
  <2> QED  BY <1>1, <2>3, <2>4, ReadingStep
<1> HIDE DEF onward, seen
<1> QED  BY <1>5, <1>9, <1>10, <1>11, <1>12

LEMMA FinishPreparingKeeps ==
  ASSUME LInv, FinishPreparing
  PROVE  LInv'
<1>1. /\ reading.phase = "reading" /\ reading' = [reading EXCEPT !.phase = "staged"]
      /\ UNCHANGED <<files, states, delivered>>
  BY DEF FinishPreparing
<1>2. reading \in Reading /\ ReadInv(reading)
  BY <1>1 DEF LInv, LogTypeOK, Idling
<1>3. /\ reading' \in Reading /\ reading'.next = reading.next
      /\ reading'.segments = reading.segments
      /\ reading'.seen = reading.seen /\ reading'.missing = reading.missing
  BY <1>1, <1>2 DEF Reading
<1> QED  BY <1>1, <1>2, <1>3, SkippedKeeps, ReadingStep

LEMMA AbortLogsKeeps ==
  ASSUME LInv, AbortLogs
  PROVE  LInv'
<1>1. reading' = Idling /\ UNCHANGED <<files, states, delivered>>
  BY DEF AbortLogs, Kept
<1>2. LogTypeOK'
  BY <1>1 DEF LInv, LogTypeOK
<1>3. CommittedInv'
  BY <1>1 DEF LInv, CommittedInv, KnownOf, Reached, Continues, SameLife, NoByteTwice
<1> QED  BY <1>1, <1>2, <1>3 DEF LInv

LEMMA CommitLogsKeeps ==
  ASSUME LInv, CommitLogs
  PROVE  LInv'
<1> DEFINE next == reading.next
           segments == reading.segments
<1>1. /\ reading.phase = "staged" /\ reading' = Idling /\ files' = files
      /\ states' = [l \in Log |-> IF next[l].tracked THEN next[l] ELSE states[l]]
      /\ delivered' = delivered \union segments
  BY DEF CommitLogs, Updated
<1>2. reading \in Reading /\ ReadInv(reading)
  BY <1>1 DEF LInv, LogTypeOK, Idling
<1>3. /\ next \in [Log -> {Untracked} \union LogState] /\ segments \subseteq Segment
      /\ states \in [Log -> {Untracked} \union LogState] /\ delivered \subseteq Segment
  BY <1>2, ReadingFields DEF LInv, LogTypeOK
<1>4. /\ \A l \in Log : next[l].tracked => states'[l] = next[l]
      /\ \A l \in Log : ~ next[l].tracked => states'[l] = states[l]
      /\ states' \in [Log -> {Untracked} \union LogState]
  BY <1>1, <1>3
<1>5. /\ \A l \in Log : next[l].tracked =>
           /\ KnownOf(l, next[l]) /\ Follows(l, next[l])
           /\ Reached(l, next[l], delivered \union segments)
      /\ \A s \in segments :
           /\ next[s.log].tracked /\ s.life = next[s.log].life
           /\ s.to = next[s.log].offset
           /\ Whole(s) /\ Continues(s, delivered)
           /\ \A t \in delivered : SameLife(s, t) => t.to <= s.from
           /\ \A t \in segments : s.log = t.log => s = t
  BY <1>2 DEF ReadInv
<1>6. /\ \A l \in Log : states[l].tracked =>
           KnownOf(l, states[l]) /\ Reached(l, states[l], delivered)
      /\ \A s \in delivered :
           /\ states[s.log].tracked /\ s.life <= states[s.log].life
           /\ s.life = states[s.log].life => s.to <= states[s.log].offset
           /\ Whole(s) /\ Continues(s, delivered)
      /\ NoByteTwice
  BY DEF LInv, CommittedInv
<1>7. LogTypeOK'
  BY <1>1, <1>3, <1>4 DEF LInv, LogTypeOK
<1> HIDE DEF next, segments
<1>8. ASSUME NEW l \in Log, states'[l].tracked
      PROVE  KnownOf(l, states[l])' /\ Reached(l, states[l], delivered)'
  <2>1. CASE next[l].tracked
    BY <1>1, <1>4, <1>5, <2>1 DEF KnownOf, Reached
  <2>2. CASE ~ next[l].tracked
    BY <1>1, <1>4, <1>6, <1>8, <2>2 DEF KnownOf, Reached
  <2> QED  BY <2>1, <2>2
<1>9. ASSUME NEW s \in delivered'
      PROVE  /\ states'[s.log].tracked /\ s.life <= states'[s.log].life
             /\ s.life = states'[s.log].life => s.to <= states'[s.log].offset
             /\ Whole(s) /\ Continues(s, delivered')
  <2>1. Continues(s, delivered')
    BY <1>1, <1>5, <1>6, <1>9 DEF Continues
  <2>2. s \in Segment /\ s.log \in Log /\ s.life \in Nat /\ s.to \in Nat
    BY <1>1, <1>3, <1>9, SegmentFields
  <2>3. CASE s \in segments
    <3>1. s.to <= next[s.log].offset /\ s.life <= next[s.log].life
      BY <1>5, <2>2, <2>3
    <3> QED  BY <1>4, <1>5, <2>1, <2>2, <2>3, <3>1
  <2>4. CASE s \in delivered /\ ~ next[s.log].tracked
    BY <1>4, <1>6, <2>1, <2>2, <2>4
  <2>5. CASE s \in delivered /\ next[s.log].tracked
    <3> DEFINE st == states[s.log]
               nx == next[s.log]
    <3>1. /\ st.tracked /\ s.life <= st.life /\ (s.life = st.life => s.to <= st.offset)
          /\ Whole(s)
      BY <1>6, <2>5
    <3>2. /\ st.life <= nx.life /\ (st.life = nx.life => st.offset <= nx.offset)
      BY <1>5, <2>2, <2>5, <3>1 DEF Follows
    <3>3. /\ st.life \in Nat /\ st.offset \in Nat /\ nx.life \in Nat /\ nx.offset \in Nat
      <4>1. st \in {Untracked} \union LogState /\ nx \in {Untracked} \union LogState /\ nx.tracked
        BY <1>3, <2>2, <2>5
      <4> HIDE DEF st, nx
      <4> QED  BY <3>1, <4>1, StateFields
    <3>4. s.life <= nx.life /\ (s.life = nx.life => s.to <= nx.offset)
      <4> HIDE DEF st, nx
      <4> QED  BY <2>2, <3>1, <3>2, <3>3
    <3> QED  BY <1>4, <2>1, <2>2, <2>5, <3>1, <3>4
  <2> QED  BY <1>1, <1>9, <2>3, <2>4, <2>5
<1>10. NoByteTwice'
  <2>1. ASSUME NEW s \in delivered', NEW t \in delivered', s # t, SameLife(s, t)
        PROVE  s.to <= t.from \/ t.to <= s.from
    <3>1. CASE s \in segments /\ t \in segments
      BY <1>5, <2>1, <3>1 DEF SameLife
    <3>2. CASE s \in segments /\ t \in delivered
      BY <1>5, <2>1, <3>2
    <3>3. CASE s \in delivered /\ t \in segments
      <4>1. SameLife(t, s)
        BY <2>1 DEF SameLife
      <4> QED  BY <1>5, <3>3, <4>1
    <3>4. CASE s \in delivered /\ t \in delivered
      BY <1>6, <2>1, <3>4 DEF NoByteTwice
    <3> QED  BY <1>1, <2>1, <3>1, <3>2, <3>3, <3>4
  <2> QED  BY <2>1 DEF NoByteTwice, SameLife
<1>11. CommittedInv'
  BY <1>8, <1>9, <1>10 DEF CommittedInv, Whole, Continues, SameLife
<1> QED  BY <1>1, <1>7, <1>11 DEF LInv

----------------------------------------------------------------------------
(* The invariant, and what follows from it.                                *)

LEMMA LogStart == LogInit => LInv
<1> SUFFICES ASSUME LogInit PROVE LInv
  OBVIOUS
<1>1. /\ files = [l \in Log |-> [inode |-> 1, life |-> 1, size |-> 0]]
      /\ states = [l \in Log |-> Untracked] /\ reading = Idling /\ delivered = {}
      /\ 1 \in 0 .. MaxLives /\ 0 \in 0 .. MaxSize
  BY LogLimitsAssumption DEF LogInit
<1>2. LogTypeOK
  BY <1>1 DEF LogTypeOK, File
<1>3. CommittedInv
  BY <1>1 DEF CommittedInv, NoByteTwice, Untracked
<1> QED  BY <1>1, <1>2, <1>3 DEF LInv

LEMMA LogStep == LInv /\ [LogNext]_logVars => LInv'
<1> SUFFICES ASSUME LInv, [LogNext]_logVars PROVE LInv'
  OBVIOUS
<1>1. ASSUME NEW l \in Log, WriterAppends(l) \/ WriterTruncates(l) \/ WriterRotates(l)
      PROVE  LInv'
  BY <1>1, WritersKeep
<1>2. ASSUME NEW paths \in Requests, StartPreparing(paths)
      PROVE  LInv'
  BY <1>2, StartPreparingKeeps
<1>3. CASE InspectPath \/ FinishPreparing \/ CommitLogs \/ AbortLogs
  BY <1>3, InspectPathKeeps, FinishPreparingKeeps, CommitLogsKeeps, AbortLogsKeeps
<1>4. CASE UNCHANGED logVars
  BY <1>4 DEF logVars, LInv, LogTypeOK, CommittedInv, ReadInv, KnownOf, Reached, Continues,
     Follows, SameLife, NoByteTwice
<1>5. Written \subseteq Log /\ Rotated \subseteq Log
  BY LogLimitsAssumption DEF Written
<1> QED  BY <1>1, <1>2, <1>3, <1>4, <1>5 DEF LogNext

\* The inductive invariant of the log tracker: what is committed and what is
\* being prepared of a file are positions in the file's present life or in an
\* earlier one, never past its end nor inside a character, and each segment
\* begins where an earlier one of the same life ended.
THEOREM LogInvariance == LogSpec => []LInv
BY LogStart, LogStep, PTL DEF LogSpec

\* Every field of the tracker keeps its type, for any logs, sizes and lives.
THEOREM LogTypes == LogSpec => []LogTypeOK
<1>1. LInv => LogTypeOK
  BY DEF LInv
<1> QED  BY <1>1, LogInvariance, PTL

\* The segments that were committed share no byte, and each begins at the
\* start of the file's life or where another ended: appends, truncations,
\* rotations, aborted and repeated preparations neither repeat nor lose one.
THEOREM BytesOnce == LogSpec => []BytesDeliveredOnce
<1>1. LInv => BytesDeliveredOnce
  <2> SUFFICES ASSUME LInv PROVE BytesDeliveredOnce
    OBVIOUS
  <2>1. NoByteTwice /\ NoByteSkipped /\ \A s \in delivered : s.from % 2 = 0 /\ s.to % 2 = 0
    BY DEF LInv, CommittedInv, NoByteSkipped, Continues, Whole
  <2>2. CompleteLogsAreRead
    <3> SUFFICES ASSUME reading.phase = "staged", LogStatus(reading) = "complete"
                 PROVE  \A l \in reading.seen :
                          /\ reading.next[l].tracked
                          /\ reading.next[l].offset = reading.next[l].last_size
      BY DEF CompleteLogsAreRead
    <3>1. reading # Idling /\ reading.missing = {}
      BY DEF Idling, LogStatus
    <3> QED  BY <3>1 DEF LInv, ReadInv
  <2> QED  BY <2>1, <2>2 DEF BytesDeliveredOnce
<1> QED  BY <1>1, LogInvariance, PTL

----------------------------------------------------------------------------
(* The comparison of two Snapshots.                                        *)

\* A key that a removed and an added path have belongs to no other pair.
LEMMA PairsUnique ==
  ASSUME NEW A, NEW B, NEW before, NEW after,
         NEW r \in Pairs(A, B, before, after), NEW s \in Pairs(A, B, before, after)
  PROVE  /\ r[1] \in A /\ r[2] \in B /\ s[1] \in A /\ s[2] \in B
         /\ r[1] = s[1] => r[2] = s[2]
         /\ r[2] = s[2] => r[1] = s[1]
         /\ r = <<r[1], r[2]>> /\ s = <<s[1], s[2]>>
<1>1. /\ r \in A \X B /\ SameKey(before[r[1]], after[r[2]])
      /\ \A p \in A \ {r[1]} : ~SameKey(before[p], after[r[2]])
      /\ \A p \in B \ {r[2]} : ~SameKey(before[r[1]], after[p])
  BY DEF Pairs
<1>2. s \in A \X B /\ SameKey(before[s[1]], after[s[2]])
  BY DEF Pairs
<1>3. r[1] = s[1] => r[2] = s[2]
  BY <1>1, <1>2
<1>4. r[2] = s[2] => r[1] = s[1]
  BY <1>1, <1>2
<1> QED  BY <1>1, <1>2, <1>3, <1>4

LEMMA ChangeFields ==
  ASSUME NEW type, NEW path, NEW old, NEW before, NEW after
  PROVE  LET c == FileChange(type, path, old, before, after)
         IN  c.type = type /\ c.path = path /\ c.old = old
             /\ c.before = before /\ c.after = after
BY DEF FileChange

\* What a comparison says of each path: nothing, or one change that ends with
\* what the later Snapshot holds; and what it does not name has not changed.
Explains(changes, before, after) ==
  /\ \A c, d \in changes : {c.path, c.old} \cap {d.path, d.old} # {} => c = d
  /\ \A c \in changes : c.path \in Path /\ c.old \in Path /\ c.after = after[c.path]
  /\ \A c \in changes : c.type = "renamed" => after[c.old] = NoEntry
  /\ \A p \in Path :
       (\A c \in changes : p # c.path /\ (c.type = "renamed" => p # c.old)) =>
          /\ before[p] = NoEntry <=> after[p] = NoEntry
          /\ before[p] # NoEntry => ~Changed(before[p], after[p])

\* What the type of a change says of the two Snapshots.
Tells(changes, before, after) ==
  \A c \in changes :
    /\ c = FileChange(c.type, c.path, c.old, c.before, c.after)
    /\ \/ /\ c.type = "renamed" /\ c.path \in Recorded(after) \ Recorded(before)
          /\ c.old \in Recorded(before) \ Recorded(after)
       \/ c.type = "deleted" /\ c.path = c.old /\ c.path \in Recorded(before) \ Recorded(after)
       \/ c.type = "created" /\ c.path = c.old /\ c.path \in Recorded(after) \ Recorded(before)
       \/ /\ c.type = "modified" /\ c.path = c.old
          /\ c.path \in Recorded(before) \cap Recorded(after)
          /\ Changed(before[c.path], after[c.path])

LEMMA ComparedExplains ==
  ASSUME NEW before, NEW after
  PROVE  LET changes == Compared(before, after).changes
         IN  Explains(changes, before, after) /\ Tells(changes, before, after)
<1> DEFINE gone == Recorded(before) \ Recorded(after)
           new == Recorded(after) \ Recorded(before)
           renamed == Pairs(gone, new, before, after)
           deleted == gone \ {r[1] : r \in renamed}
           created == new \ {r[2] : r \in renamed}
           modified == {p \in Recorded(before) \cap Recorded(after) :
                          Changed(before[p], after[p])}
           Moved(r) == FileChange("renamed", r[2], r[1], before[r[1]], after[r[2]])
           Lost(p) == FileChange("deleted", p, p, before[p], NoEntry)
           Added(p) == FileChange("created", p, p, NoEntry, after[p])
           Edited(p) == FileChange("modified", p, p, before[p], after[p])
           changes == {Moved(r) : r \in renamed} \union {Lost(p) : p \in deleted}
                        \union {Added(p) : p \in created} \union {Edited(p) : p \in modified}
<1>1. Compared(before, after).changes = changes
  BY DEF Compared
<1>2. /\ gone \subseteq Path /\ new \subseteq Path /\ modified \subseteq Path
      /\ \A p \in Path : p \in gone <=> before[p] # NoEntry /\ after[p] = NoEntry
      /\ \A p \in Path : p \in new <=> before[p] = NoEntry /\ after[p] # NoEntry
      /\ \A p \in Path : p \in modified <=> /\ before[p] # NoEntry /\ after[p] # NoEntry
                                             /\ Changed(before[p], after[p])
  BY DEF Recorded
<1>3. \A r, s \in renamed :
        /\ r[1] \in gone /\ r[2] \in new /\ s[1] \in gone /\ s[2] \in new
        /\ (r[1] = s[1] \/ r[2] = s[2]) => r = s
  BY PairsUnique
<1>4. /\ deleted \subseteq gone /\ created \subseteq new
      /\ \A r \in renamed : r[1] \notin deleted /\ r[2] \notin created
      /\ \A p \in gone : p \notin deleted => \E r \in renamed : r[1] = p
      /\ \A p \in new : p \notin created => \E r \in renamed : r[2] = p
  OBVIOUS
<1>k. /\ gone = Recorded(before) \ Recorded(after) /\ new = Recorded(after) \ Recorded(before)
      /\ \A p \in modified : p \in Recorded(before) \cap Recorded(after)
  OBVIOUS
<1> HIDE DEF gone, new, renamed, deleted, created, modified
<1>5. /\ \A r : /\ Moved(r).type = "renamed" /\ Moved(r).path = r[2] /\ Moved(r).old = r[1]
                /\ Moved(r).after = after[r[2]]
      /\ \A p : /\ Lost(p).type = "deleted" /\ Lost(p).path = p /\ Lost(p).old = p
                /\ Lost(p).after = NoEntry
      /\ \A p : /\ Added(p).type = "created" /\ Added(p).path = p /\ Added(p).old = p
                /\ Added(p).after = after[p]
      /\ \A p : /\ Edited(p).type = "modified" /\ Edited(p).path = p /\ Edited(p).old = p
                /\ Edited(p).after = after[p]
  BY ChangeFields
<1>l. /\ \A r : LET c == Moved(r) IN c = FileChange(c.type, c.path, c.old, c.before, c.after)
      /\ \A p : LET c == Lost(p) IN c = FileChange(c.type, c.path, c.old, c.before, c.after)
      /\ \A p : LET c == Added(p) IN c = FileChange(c.type, c.path, c.old, c.before, c.after)
      /\ \A p : LET c == Edited(p) IN c = FileChange(c.type, c.path, c.old, c.before, c.after)
  BY ChangeFields
<1> DEFINE M(c) == \E r \in renamed : c = Moved(r)
           L(c) == \E p \in deleted : c = Lost(p)
           A(c) == \E p \in created : c = Added(p)
           E(c) == \E p \in modified : c = Edited(p)
<1>6. \A c : c \in changes <=> M(c) \/ L(c) \/ A(c) \/ E(c)
  OBVIOUS
<1> HIDE DEF Moved, Lost, Added, Edited, changes
<1>a. ASSUME NEW c, M(c)
      PROVE  /\ c.type = "renamed" /\ c.path \in new /\ c.path \notin created
             /\ c.old \in gone /\ c.old \notin deleted /\ c.after = after[c.path]
  <2>1. PICK r \in renamed : c = Moved(r)
    BY <1>a
  <2>2. c.type = "renamed" /\ c.path = r[2] /\ c.old = r[1] /\ c.after = after[r[2]]
    BY <1>5, <2>1
  <2>3. r[1] \in gone /\ r[2] \in new
    BY <1>3, <2>1
  <2>4. r[1] \notin deleted /\ r[2] \notin created
    BY <1>4, <2>1
  <2> QED  BY <2>2, <2>3, <2>4
<1>b. ASSUME NEW c, L(c)
      PROVE  c.type = "deleted" /\ c.path = c.old /\ c.path \in deleted /\ c.after = NoEntry
  <2>1. PICK p \in deleted : c = Lost(p)
    BY <1>b
  <2> QED  BY <1>5, <2>1
<1>c. ASSUME NEW c, A(c)
      PROVE  c.type = "created" /\ c.path = c.old /\ c.path \in created /\ c.after = after[c.path]
  <2>1. PICK p \in created : c = Added(p)
    BY <1>c
  <2>2. c.type = "created" /\ c.path = p /\ c.old = p /\ c.after = after[p]
    BY <1>5, <2>1
  <2> QED  BY <2>1, <2>2
<1>d. ASSUME NEW c, E(c)
      PROVE  c.type = "modified" /\ c.path = c.old /\ c.path \in modified /\ c.after = after[c.path]
  <2>1. PICK p \in modified : c = Edited(p)
    BY <1>d
  <2>2. c.type = "modified" /\ c.path = p /\ c.old = p /\ c.after = after[p]
    BY <1>5, <2>1
  <2> QED  BY <2>1, <2>2
<1>e. ASSUME NEW c, NEW d, M(c), M(d), c.path = d.path \/ c.old = d.old
      PROVE  c = d
  <2>1. PICK r \in renamed : c = Moved(r)
    BY <1>e
  <2>2. PICK s \in renamed : d = Moved(s)
    BY <1>e
  <2>3. r[1] = s[1] \/ r[2] = s[2]
    BY <1>5, <1>e, <2>1, <2>2
  <2> QED  BY <1>3, <2>1, <2>2, <2>3
<1>f. ASSUME NEW c, NEW d, c.path = d.path,
             (L(c) /\ L(d)) \/ (A(c) /\ A(d)) \/ (E(c) /\ E(d))
      PROVE  c = d
  <2>1. CASE L(c) /\ L(d)
    <3>1. PICK p \in deleted : c = Lost(p)
      BY <2>1
    <3>2. PICK q \in deleted : d = Lost(q)
      BY <2>1
    <3>3. c.path = p /\ d.path = q
      BY <1>5, <3>1, <3>2
    <3> QED  BY <1>f, <3>1, <3>2, <3>3
  <2>2. CASE A(c) /\ A(d)
    <3>1. PICK p \in created : c = Added(p)
      BY <2>2
    <3>2. PICK q \in created : d = Added(q)
      BY <2>2
    <3>3. c.path = p /\ d.path = q
      BY <1>5, <3>1, <3>2
    <3> QED  BY <1>f, <3>1, <3>2, <3>3
  <2>3. CASE E(c) /\ E(d)
    <3>1. PICK p \in modified : c = Edited(p)
      BY <2>3
    <3>2. PICK q \in modified : d = Edited(q)
      BY <2>3
    <3>3. c.path = p /\ d.path = q
      BY <1>5, <3>1, <3>2
    <3> QED  BY <1>f, <3>1, <3>2, <3>3
  <2> QED  BY <1>f, <2>1, <2>2, <2>3
<1>g. \A p \in gone : \E c \in changes : p = c.path \/ (c.type = "renamed" /\ p = c.old)
  <2> SUFFICES ASSUME NEW p \in gone
               PROVE  \E c \in changes : p = c.path \/ (c.type = "renamed" /\ p = c.old)
    OBVIOUS
  <2>1. CASE p \in deleted
    <3>1. Lost(p) \in changes /\ Lost(p).path = p
      BY <1>5, <1>6, <2>1
    <3> QED  BY <3>1
  <2>2. CASE p \notin deleted
    <3>1. PICK r \in renamed : r[1] = p
      BY <1>4, <2>2
    <3>2. Moved(r) \in changes /\ Moved(r).old = p /\ Moved(r).type = "renamed"
      BY <1>5, <1>6, <3>1
    <3> QED  BY <3>2
  <2> QED  BY <2>1, <2>2
<1>h. \A p \in new : \E c \in changes : p = c.path
  <2> SUFFICES ASSUME NEW p \in new PROVE \E c \in changes : p = c.path
    OBVIOUS
  <2>1. CASE p \in created
    <3>1. Added(p) \in changes /\ Added(p).path = p
      BY <1>5, <1>6, <2>1
    <3> QED  BY <3>1
  <2>2. CASE p \notin created
    <3>1. PICK r \in renamed : r[2] = p
      BY <1>4, <2>2
    <3>2. Moved(r) \in changes /\ Moved(r).path = p
      BY <1>5, <1>6, <3>1
    <3> QED  BY <3>2
  <2> QED  BY <2>1, <2>2
<1>i. \A p \in modified : \E c \in changes : p = c.path
  <2> SUFFICES ASSUME NEW p \in modified PROVE \E c \in changes : p = c.path
    OBVIOUS
  <2>1. Edited(p) \in changes /\ Edited(p).path = p
    BY <1>5, <1>6
  <2> QED  BY <2>1
<1>j. /\ gone \cap new = {} /\ gone \cap modified = {} /\ new \cap modified = {}
  BY <1>2
<1>m. \A c \in changes : c = FileChange(c.type, c.path, c.old, c.before, c.after)
  BY <1>6, <1>l
<1> HIDE DEF M, L, A, E
<1>7. ASSUME NEW c \in changes
      PROVE  /\ c.path \in Path /\ c.old \in Path /\ c.after = after[c.path]
             /\ c.type = "renamed" => after[c.old] = NoEntry
  <2>1. CASE M(c)
    BY <1>2, <1>a, <2>1
  <2>2. CASE L(c)
    <3>1. c.path \in gone /\ c.path \in Path /\ after[c.path] = NoEntry
      BY <1>2, <1>4, <1>b, <2>2
    <3> QED  BY <1>b, <2>2, <3>1
  <2>3. CASE A(c)
    BY <1>2, <1>4, <1>c, <2>3
  <2>4. CASE E(c)
    BY <1>2, <1>d, <2>4
  <2> QED  BY <1>6, <2>1, <2>2, <2>3, <2>4
<1>8. ASSUME NEW c \in changes, NEW d \in changes, NEW p, p \in {c.path, c.old},
             p \in {d.path, d.old}
      PROVE  c = d
  <2>1. /\ M(c) => /\ c.path \in new /\ c.path \notin created /\ c.old \in gone
                   /\ c.old \notin deleted
        /\ M(d) => /\ d.path \in new /\ d.path \notin created /\ d.old \in gone
                   /\ d.old \notin deleted
        /\ L(c) => c.path = c.old /\ c.path \in deleted /\ c.path \in gone
        /\ L(d) => d.path = d.old /\ d.path \in deleted /\ d.path \in gone
        /\ A(c) => c.path = c.old /\ c.path \in created /\ c.path \in new
        /\ A(d) => d.path = d.old /\ d.path \in created /\ d.path \in new
        /\ E(c) => c.path = c.old /\ c.path \in modified
        /\ E(d) => d.path = d.old /\ d.path \in modified
    BY <1>4, <1>a, <1>b, <1>c, <1>d
  <2>2. (M(c) /\ M(d)) \/ (L(c) /\ L(d)) \/ (A(c) /\ A(d)) \/ (E(c) /\ E(d))
    BY <1>6, <1>8, <1>j, <2>1
  <2>3. CASE M(c) /\ M(d)
    <3>1. c.path = d.path \/ c.old = d.old
      BY <1>8, <1>j, <2>1, <2>3
    <3> QED  BY <1>e, <2>3, <3>1
  <2>4. CASE ~ (M(c) /\ M(d))
    <3>1. c.path = d.path
      BY <1>8, <2>1, <2>2, <2>4
    <3> QED  BY <1>f, <2>2, <2>4, <3>1
  <2> QED  BY <2>3, <2>4
<1>9. ASSUME NEW p \in Path,
             \A c \in changes : p # c.path /\ (c.type = "renamed" => p # c.old)
      PROVE  /\ before[p] = NoEntry <=> after[p] = NoEntry
             /\ before[p] # NoEntry => ~Changed(before[p], after[p])
  <2>1. p \notin gone
    BY <1>9, <1>g
  <2>2. p \notin new
    BY <1>9, <1>h
  <2>3. p \notin modified
    BY <1>9, <1>i
  <2> QED  BY <1>2, <2>1, <2>2, <2>3
<1>10. \A c, d \in changes : {c.path, c.old} \cap {d.path, d.old} # {} => c = d
  BY <1>8
<1>11. Explains(changes, before, after)
  BY <1>7, <1>9, <1>10 DEF Explains
<1>12. ASSUME NEW c \in changes
       PROVE  \/ c.type = "renamed" /\ c.path \in new /\ c.old \in gone
              \/ c.type = "deleted" /\ c.path = c.old /\ c.path \in gone
              \/ c.type = "created" /\ c.path = c.old /\ c.path \in new
              \/ c.type = "modified" /\ c.path = c.old /\ c.path \in modified
  BY <1>4, <1>6, <1>a, <1>b, <1>c, <1>d
<1>13. Tells(changes, before, after)
  BY <1>2, <1>k, <1>m, <1>12 DEF Tells
<1> QED  BY <1>1, <1>11, <1>13


\* What was found stays the comparison of the two Snapshots.
FoundInv ==
  step = "prepared" /\ ~Failed(baseline) /\ ~Failed(prepared.after) =>
    prepared.found = Compared(baseline.entries, prepared.after.entries).changes

LEMMA FoundHolds == FileSpec => []FoundInv
<1>1. FileInit => FoundInv
  BY DEF FileInit, FoundInv
<1>2. FoundInv /\ [FileNext]_fileVars => FoundInv'
  <2> SUFFICES ASSUME FoundInv, [FileNext]_fileVars PROVE FoundInv'
    OBVIOUS
  <2>1. CASE step' # "prepared"
    BY <2>1 DEF FoundInv
  <2>2. CASE UNCHANGED <<step, baseline, prepared>>
    BY <2>2 DEF FoundInv, Failed, Complete
  <2>3. ASSUME PrepareFiles PROVE FoundInv'
    <3> DEFINE after == Snapshot(scan)
               failed == Failed(baseline) \/ Failed(after)
    <3>1. /\ prepared'.after = after /\ baseline' = baseline
          /\ prepared'.found = (IF failed THEN NoComparison
                                ELSE Compared(baseline.entries, after.entries)).changes
      BY <2>3 DEF PrepareFiles
    <3> HIDE DEF after
    <3> QED  BY <3>1 DEF FoundInv, Failed, Complete
  <2>4. ASSUME NEW p \in Touchable,
               ProgramCreates(p) \/ ProgramModifies(p) \/ ProgramDeletes(p)
        PROVE  UNCHANGED <<step, baseline, prepared>>
    BY <2>4 DEF ProgramCreates, ProgramModifies, ProgramDeletes, Write
  <2>5. ASSUME NEW p \in Touchable, NEW q \in Touchable, ProgramRenames(p, q)
        PROVE  UNCHANGED <<step, baseline, prepared>>
    BY <2>5 DEF ProgramRenames, Write
  <2>6. CASE OpenDirectory \/ LookAtChild \/ ReadChild \/ CloseDirectory
    <3>1. UNCHANGED <<step, baseline, prepared>>
      BY <2>6 DEF OpenDirectory, LookAtChild, ReadChild, CloseDirectory
    <3> QED  BY <2>2, <3>1
  <2>7. CASE BeginBaseline \/ FreezeBaseline \/ BeginFinal \/ AbortFiles \/ EndStep
    <3>1. step' # "prepared"
      BY <2>7 DEF BeginBaseline, FreezeBaseline, BeginFinal, AbortFiles, EndStep
    <3> QED  BY <2>1, <3>1
  <2>8. CASE UNCHANGED fileVars
    BY <2>2, <2>8 DEF fileVars
  <2> QED  BY <2>2, <2>3, <2>4, <2>5, <2>6, <2>7, <2>8 DEF FileNext
<1> QED  BY <1>1, <1>2, PTL DEF FileSpec

\* Whatever was scanned, the changes that were found, renames included, turn
\* the baseline into the final Snapshot, and no path is in two of them.
THEOREM ComparisonExplains == FileSpec => []ChangesExplain
<1>1. FoundInv => ChangesExplain
  <2> SUFFICES ASSUME FoundInv, step = "prepared", ~Failed(baseline), ~Failed(prepared.after)
               PROVE  ChangesExplain
    BY DEF ChangesExplain
  <2> DEFINE found == prepared.found
             before == baseline.entries
             after == prepared.after.entries
             ends(p) == {c \in found : p \in {c.path, c.old}}
             result == Replayed(found, before)
  <2>1. Explains(found, before, after)
    BY ComparedExplains DEF FoundInv
  <2> HIDE DEF found, before, after
  <2>2. ASSUME NEW p \in Path PROVE Cardinality(ends(p)) <= 1
    <3>1. \A c, d \in ends(p) : c = d
      <4>1. \A c, d \in found : {c.path, c.old} \cap {d.path, d.old} # {} => c = d
        BY <2>1 DEF Explains
      <4> QED  BY <4>1
    <3>2. CASE ends(p) = {}
      BY <3>2, FS_EmptySet
    <3>3. CASE ends(p) # {}
      <4>1. PICK c \in ends(p) : TRUE
        BY <3>3
      <4>2. ends(p) = {c}
        BY <3>1, <4>1
      <4> QED  BY <4>2, FS_Singleton
    <3> QED  BY <3>2, <3>3
  <2>3. ASSUME NEW p \in Path
        PROVE  /\ result[p] = NoEntry <=> after[p] = NoEntry
               /\ result[p] # NoEntry => ~Changed(result[p], after[p])
    <3>1. result[p] = IF \E c \in found : c.path = p
                      THEN (CHOOSE c \in found : c.path = p).after
                      ELSE IF \E c \in found : c.type = "renamed" /\ c.old = p THEN NoEntry
                      ELSE before[p]
      BY DEF Replayed
    <3>2. CASE \E c \in found : c.path = p
      <4>1. PICK c \in found : c = (CHOOSE d \in found : d.path = p) /\ c.path = p
        BY <3>2
      <4>2. result[p] = after[p]
        BY <2>1, <3>1, <3>2, <4>1 DEF Explains
      <4> QED  BY <4>2 DEF Changed
    <3>3. CASE /\ ~ \E c \in found : c.path = p
               /\ \E c \in found : c.type = "renamed" /\ c.old = p
      <4>1. result[p] = NoEntry /\ after[p] = NoEntry
        BY <2>1, <3>1, <3>3 DEF Explains
      <4> QED  BY <4>1
    <3>4. CASE /\ ~ \E c \in found : c.path = p
               /\ ~ \E c \in found : c.type = "renamed" /\ c.old = p
      <4>1. result[p] = before[p]
        BY <3>1, <3>4
      <4> QED  BY <2>1, <3>4, <4>1 DEF Explains
    <3> QED  BY <3>2, <3>3, <3>4
  <2> QED  BY <2>2, <2>3 DEF ChangesExplain, found, before, after
<1> QED  BY <1>1, FoundHolds, PTL

----------------------------------------------------------------------------
(* A scan and the disk it walks: the inductive invariant.                  *)

\* The paths from p up to the root.
Above(p) ==
  {a \in Path \cup {Top} : \A S \in SUBSET (Path \cup {Top}) :
     p \in S /\ (\A q \in S \cap Path : Folder[q] \in S) => a \in S}

Among(p, s) == \E i \in 1 .. Len(s) : s[i] = p

\* Every node is in a directory.
TreeInv ==
  /\ writes \in Nat /\ disk \in [Path -> Node \cup {Absent}]
  /\ \A p \in Path :
       disk[p] # Absent /\ Folder[p] # Top => disk[Folder[p]].kind = "directory"

\* An entry is the node as it is.
Same(entry, node) ==
  /\ node # Absent /\ entry # NoEntry
  /\ entry.kind = node.kind /\ entry.data = node.data /\ entry.version = node.version
  /\ entry.whole = TRUE /\ entry.error = ""

\* A path is recorded, about to be looked at, or in a directory to be opened.
Covered(s, a) ==
  \/ s.entries[a] # NoEntry
  \/ Among(a, s.children) \/ (s.looked # NoLook /\ s.looked.path = a)
  \/ Among(Folder[a], s.pending) \/ Among(Folder[a], s.found)
  \/ (Folder[a] \in Path /\ s.entries[Folder[a]] = NoEntry)

\* What programs left alone is recorded as it is.
RecordedAsIs(s) ==
  \A p \in Path \ s.touched : s.entries[p] # NoEntry => Same(s.entries[p], disk[p])

\* What was there all the time is not passed by.
NothingPassed(s) ==
  \A p \in Path \ (s.touched \cup Excluded) :
    disk[p] # Absent => \A a \in Above(p) \cap Path : Covered(s, a)

ScanErrors == EntryErrors \cup {"scan_failed", "entry_limit_exceeded", "stat_failed"}

ScanFields ==
  [pending: Seq(Path \cup {Top}), children: Seq(Path), found: Seq(Path),
   looked: {NoLook} \cup [path: Path, node: Node], entries: [Path -> SnapshotEntry \cup {NoEntry}],
   errors: SUBSET ScanErrors, truncated: BOOLEAN, text: Nat, text_dropped: BOOLEAN,
   touched: SUBSET Path]

ScanInv ==
  /\ scan \in ScanFields
  /\ scan.looked # NoLook => scan.looked.node.kind = "file"
  /\ scan.truncated => scan.errors # {}
  /\ scan.errors = {} => RecordedAsIs(scan) /\ NothingPassed(scan)

\* A complete Snapshot is the disk, but for what programs wrote meanwhile.
Reliable(snapshot) ==
  Complete(snapshot) =>
    \A p \in Path \ (snapshot.touched \cup Excluded) :
      IF snapshot.entries[p] = NoEntry THEN snapshot.disk[p] = Absent
      ELSE Same(snapshot.entries[p], snapshot.disk[p])

FInv ==
  /\ TreeInv /\ ScanInv /\ Reliable(baseline)
  /\ step = "prepared" => Reliable(prepared.after)
  /\ SummaryIsTrue

\* The paths above one: itself, and with each its directory.
LEMMA AboveFacts ==
  ASSUME NEW p \in Path
  PROVE  /\ p \in Above(p) /\ Above(p) \subseteq Path \cup {Top}
         /\ \A a \in Above(p) \cap Path : Folder[a] \in Above(p)
         /\ \A S \in SUBSET (Path \cup {Top}) :
              p \in S /\ (\A q \in S \cap Path : Folder[q] \in S) => Above(p) \subseteq S
<1>1. \A a \in Above(p) \cap Path : Folder[a] \in Above(p)
  <2> SUFFICES ASSUME NEW a \in Above(p) \cap Path PROVE Folder[a] \in Above(p)
    OBVIOUS
  <2>1. Folder[a] \in Path \cup {Top}
    BY FactsAssumption
  <2>2. ASSUME NEW S \in SUBSET (Path \cup {Top}), p \in S,
               \A q \in S \cap Path : Folder[q] \in S
        PROVE  Folder[a] \in S
    BY <2>2 DEF Above
  <2> QED  BY <2>1, <2>2 DEF Above
<1> QED  BY <1>1 DEF Above

\* What is above a node is there, and is no excluded path if it is none.
LEMMA AboveIsThere ==
  ASSUME TreeInv, NEW p \in Path, disk[p] # Absent
  PROVE  \A a \in Above(p) \cap Path : disk[a] # Absent
<1> DEFINE S == {a \in Path : disk[a] # Absent} \cup {Top}
<1>1. S \in SUBSET (Path \cup {Top}) /\ p \in S
  OBVIOUS
<1>2. ASSUME NEW q \in S \cap Path PROVE Folder[q] \in S
  <2>1. Folder[q] \in Path \cup {Top} /\ disk[q] # Absent
    BY FactsAssumption
  <2>2. CASE Folder[q] # Top
    <3>1. disk[Folder[q]].kind = "directory"
      BY <2>1, <2>2 DEF TreeInv
    <3> QED  BY <2>1, <2>2, <3>1 DEF Absent
  <2> QED  BY <2>1, <2>2
<1> HIDE DEF S
<1>3. Above(p) \subseteq S
  BY <1>1, <1>2, AboveFacts
<1> QED  BY <1>3, FactsAssumption DEF S

LEMMA AboveIsIncluded ==
  ASSUME NEW p \in Path \ Excluded
  PROVE  Above(p) \cap Path \cap Excluded = {}
<1> DEFINE S == (Path \ Excluded) \cup {Top}
<1>1. S \in SUBSET (Path \cup {Top}) /\ p \in S
  OBVIOUS
<1>2. \A q \in S \cap Path : Folder[q] \in S
  BY FactsAssumption, ScanAssumption
<1> HIDE DEF S
<1>3. Above(p) \subseteq S
  BY <1>1, <1>2, AboveFacts
<1> QED  BY <1>3, FactsAssumption DEF S

\* When nothing is left to be opened or looked at, what is covered is recorded.
LEMMA CoveredAtEnd ==
  ASSUME NEW s, s.pending = <<>>, s.children = <<>>, s.found = <<>>, s.looked = NoLook,
         NEW p \in Path, \A a \in Above(p) \cap Path : Covered(s, a)
  PROVE  s.entries[p] # NoEntry
<1> DEFINE U == {a \in Above(p) \cap Path : s.entries[a] = NoEntry}
<1> SUFFICES ASSUME s.entries[p] = NoEntry PROVE FALSE
  OBVIOUS
<1>1. U \in SUBSET Nat /\ p \in U
  BY FactsAssumption, AboveFacts
<1>2. PICK m \in U : \A n \in U : m <= n
  <2> HIDE DEF U
  <2> QED  BY <1>1, LeastNatural
<1>3. Folder[m] \in Path /\ s.entries[Folder[m]] = NoEntry
  BY <1>2 DEF Covered, Among
<1>4. Folder[m] \in U
  BY <1>2, <1>3, AboveFacts
<1>5. Folder[m] < m /\ Folder[m] \in Nat /\ m \in Nat
  BY <1>1, <1>2, <1>3, <1>4, FactsAssumption
<1>6. m <= Folder[m]
  BY <1>2, <1>4
<1> QED  BY <1>5, <1>6

\* A sorted set lists its elements.
LEMMA SortedFacts ==
  ASSUME NEW S \in SUBSET Path
  PROVE  /\ Sorted(S) \in Seq(Path)
         /\ \A p \in S : Among(p, Sorted(S))
         /\ \A i \in 1 .. Len(Sorted(S)) : Sorted(S)[i] \in S
<1> DEFINE rank(p) == Cardinality({q \in S : q < p})
           n == Cardinality(S)
           ord == [p \in S |-> p]
<1>1. S \subseteq Nat /\ IsFiniteSet(S) /\ n \in Nat
  BY FactsAssumption, FS_Subset, FS_CardinalityType
<1>2. ASSUME NEW p \in S PROVE rank(p) \in Nat /\ rank(p) < n
  <2>1. {q \in S : q < p} \subseteq S /\ p \notin {q \in S : q < p}
    BY <1>1
  <2> QED  BY <1>1, <2>1, FS_Subset, FS_CardinalityType
<1>3. ASSUME NEW p \in S, NEW q \in S, p < q PROVE rank(p) < rank(q)
  <2>1. /\ {r \in S : r < p} \subseteq {r \in S : r < q} /\ p \in {r \in S : r < q}
        /\ p \notin {r \in S : r < p}
    <3>1. \A r \in S : r \in Nat
      BY <1>1
    <3>2. p \in Nat /\ q \in Nat /\ ~(p < p)
      BY <1>1
    <3>3. \A r \in S : r < p => r < q
      BY <1>3, <3>1, <3>2
    <3> QED  BY <1>3, <3>2, <3>3
  <2>2. IsFiniteSet({r \in S : r < q})
    BY <1>1, FS_Subset
  <2> QED  BY <2>1, <2>2, FS_Subset, FS_CardinalityType
<1>4. \A p, q \in S : rank(p) = rank(q) => p = q
  <2> SUFFICES ASSUME NEW p \in S, NEW q \in S, rank(p) = rank(q), p # q PROVE FALSE
    OBVIOUS
  <2>1. p \in Nat /\ q \in Nat /\ rank(p) \in Nat
    BY <1>1, <1>2
  <2>2. p < q \/ q < p
    BY <2>1
  <2>3. CASE p < q
    <3>1. rank(p) < rank(q)
      BY <1>3, <2>3
    <3> HIDE DEF rank
    <3> QED  BY <2>1, <3>1
  <2>4. CASE q < p
    <3>1. rank(q) < rank(p)
      BY <1>3, <2>4
    <3> HIDE DEF rank
    <3> QED  BY <2>1, <3>1
  <2> QED  BY <2>2, <2>3, <2>4
<1>5. ord \in [S -> Nat] /\ \A i, j \in S : ord[i] = ord[j] => i = j
  BY <1>1
<1>6. \A k \in 0 .. n : Foremost(S, ord, k) = {p \in S : rank(p) < k}
  BY DEF Foremost
<1>7. \A k \in 0 .. n : Cardinality({p \in S : rank(p) < k}) = k
  <2> SUFFICES ASSUME NEW k \in 0 .. n PROVE Cardinality({p \in S : rank(p) < k}) = k
    OBVIOUS
  <2> HIDE DEF ord
  <2>1. Cardinality(Foremost(S, ord, k)) = k
    BY <1>1, <1>5, FirstOnes
  <2> QED  BY <1>6, <2>1
<1>8. ASSUME NEW i \in 1 .. n PROVE \E p \in S : rank(p) = i - 1
  <2> DEFINE A == {p \in S : rank(p) < i}  B == {p \in S : rank(p) < i - 1}
  <2>1. Cardinality(A) = i /\ Cardinality(B) = i - 1 /\ i \in Nat
    <3>1. i \in 0 .. n /\ i - 1 \in 0 .. n /\ i \in Nat
      BY <1>1
    <3> QED  BY <1>7, <3>1
  <2>2. A # B
    <3> HIDE DEF A, B
    <3> QED  BY <2>1
  <2>3. \A p \in S : rank(p) \in Nat
    BY <1>2
  <2> HIDE DEF rank
  <2> QED  BY <2>1, <2>2, <2>3
<1>9. Sorted(S) = [i \in 1 .. n |-> CHOOSE p \in S : rank(p) = i - 1]
  BY DEF Sorted
<1> HIDE DEF rank
<1>10. \A i \in 1 .. n : Sorted(S)[i] \in S /\ rank(Sorted(S)[i]) = i - 1
  BY <1>8, <1>9
<1>11. Len(Sorted(S)) = n /\ Sorted(S) \in Seq(Path) /\ Sorted(S) \in [1 .. n -> Path]
  <2>1. Sorted(S) \in [1 .. n -> Path]
    <3> DEFINE f == [i \in 1 .. n |-> CHOOSE p \in S : rank(p) = i - 1]
    <3>1. \A i \in 1 .. n : f[i] \in Path
      BY <1>9, <1>10
    <3>2. f \in [1 .. n -> Path]
      BY <3>1
    <3> QED  BY <1>9, <3>2
  <2> QED  BY <1>1, <2>1
<1>12. ASSUME NEW p \in S PROVE Among(p, Sorted(S))
  <2>1. rank(p) + 1 \in 1 .. n /\ (rank(p) + 1) - 1 = rank(p)
    BY <1>1, <1>2
  <2>2. Sorted(S)[rank(p) + 1] = p
    BY <1>4, <1>10, <2>1
  <2> QED  BY <1>11, <2>1, <2>2 DEF Among
<1> QED  BY <1>10, <1>11, <1>12

LEMMA KindFacts ==
  /\ \A e \in SnapshotEntry : e # NoEntry /\ e.kind \in Kinds
  /\ \A n \in Node : n # Absent /\ n.kind \in Kinds /\ n.inode \in Nat /\ n.version \in Nat
  /\ \A n \in Node : n.data \in Content \cup Path \cup {Outside, 0}
  /\ \A n \in Node : n.kind = "file" => n.data \in Content
  /\ \A n \in Node : n.kind = "directory" => n.data = 0
<1>1. "none" \notin Kinds /\ "absent" \notin Kinds /\ NoEntry.kind = "none"
      /\ Absent.kind = "absent"
  BY DEF Kinds, NoEntry, Absent
<1>2. ASSUME NEW e \in SnapshotEntry PROVE e # NoEntry /\ e.kind \in Kinds
  <2>1. e.kind \in Kinds
    BY DEF SnapshotEntry
  <2> QED  BY <1>1, <2>1
<1>3. ASSUME NEW n \in Node
      PROVE  /\ n.kind \in Kinds /\ n.inode \in Nat /\ n.version \in Nat
             /\ n.data \in Content \cup Path \cup {Outside, 0}
             /\ (n.kind = "file" => n.data \in Content)
             /\ (n.kind = "directory" => n.data = 0)
  BY DEF Node, Kinds
<1>4. \A n \in Node : n # Absent
  BY <1>1, <1>3
<1> QED  BY <1>2, <1>3, <1>4

\* A write keeps the tree, and says what it touched.
LEMMA WriteKeeps ==
  ASSUME TreeInv, ScanInv, NEW paths \in SUBSET Path,
         NEW new \in [paths -> Node \cup {Absent}], Write(paths, new),
         \A p \in paths : Folder[p] # Top => disk[Folder[p]].kind = "directory",
         \A c \in Path \ paths : Folder[c] \in paths /\ disk[c] # Absent =>
           new[Folder[c]].kind = "directory",
         \A p \in paths : Folder[p] \in paths /\ new[p] # Absent =>
           new[Folder[p]].kind = "directory"
  PROVE  TreeInv' /\ ScanInv'
<1> DEFINE parents == {Folder[p] : p \in {q \in paths : disk[q] = Absent \/ new[q] = Absent}}
           touched == scan.touched \cup paths \cup (parents \ {Top})
<1>1. /\ writes < MaxWrites
      /\ disk' = [p \in Path |-> IF p \in paths THEN new[p]
                    ELSE IF p \in parents THEN [disk[p] EXCEPT !.version = writes + 1]
                    ELSE disk[p]]
      /\ scan' = [scan EXCEPT !.touched = scan.touched \cup paths \cup (parents \ {Top})]
      /\ writes' = writes + 1
  BY DEF Write
<1>2. \A p \in parents \cap Path : disk[p].kind = "directory" /\ disk[p] \in Node
  <2> SUFFICES ASSUME NEW p \in parents \cap Path
               PROVE  disk[p].kind = "directory" /\ disk[p] \in Node
    OBVIOUS
  <2>1. PICK q \in paths : Folder[q] = p
    OBVIOUS
  <2>2. disk[p].kind = "directory"
    BY <2>1, FactsAssumption
  <2> QED  BY <2>2 DEF TreeInv, Absent
<1> HIDE DEF parents
<1>3. ASSUME NEW p \in Path \ paths
      PROVE  /\ disk'[p] \in Node \cup {Absent}
             /\ disk'[p] = Absent <=> disk[p] = Absent
             /\ disk'[p].kind = disk[p].kind
             /\ p \notin touched => disk'[p] = disk[p]
  <2>1. disk[p] \in Node \cup {Absent}
    BY DEF TreeInv
  <2>2. CASE p \in parents
    <3>1. disk[p].kind = "directory" /\ disk[p] \in Node
      BY <1>2, <2>2
    <3>2. disk'[p] = [disk[p] EXCEPT !.version = writes + 1] /\ writes + 1 \in Nat
      BY <1>1, <2>2 DEF TreeInv
    <3>3. disk'[p] \in Node /\ disk'[p].kind = disk[p].kind
      BY <3>1, <3>2 DEF Node
    <3>4. disk[p] # Absent /\ disk'[p] # Absent
      BY <3>1, <3>3 DEF Absent
    <3>5. p \in touched
      BY <2>2, FactsAssumption
    <3> QED  BY <2>1, <3>1, <3>3, <3>4, <3>5
  <2>3. CASE p \notin parents
    <3>1. disk'[p] = disk[p]
      BY <1>1, <2>3
    <3> QED  BY <2>1, <3>1
  <2> QED  BY <2>2, <2>3
<1>4. \A p \in paths : disk'[p] = new[p]
  BY <1>1
<1>5. TreeInv'
  <2>1. disk' \in [Path -> Node \cup {Absent}] /\ writes' \in Nat
    <3>1. \A p \in Path : disk'[p] \in Node \cup {Absent}
      BY <1>3, <1>4
    <3> QED  BY <1>1, <3>1 DEF TreeInv
  <2>2. ASSUME NEW p \in Path, disk'[p] # Absent, Folder[p] # Top
        PROVE  disk'[Folder[p]].kind = "directory"
    <3>1. Folder[p] \in Path
      BY <2>2, FactsAssumption
    <3>2. CASE Folder[p] \in paths
      <4>1. CASE p \in paths
        BY <1>4, <2>2, <3>2, <4>1
      <4>2. CASE p \notin paths
        <5>1. disk[p] # Absent
          BY <1>3, <2>2, <4>2
        <5> QED  BY <1>4, <3>2, <4>2, <5>1
      <4> QED  BY <4>1, <4>2
    <3>3. CASE Folder[p] \notin paths
      <4>1. disk[Folder[p]].kind = "directory"
        <5>1. CASE p \in paths
          BY <2>2, <5>1
        <5>2. CASE p \notin paths
          <6>1. disk[p] # Absent
            BY <1>3, <2>2, <5>2
          <6> QED  BY <2>2, <6>1 DEF TreeInv
        <5> QED  BY <5>1, <5>2
      <4> QED  BY <1>3, <3>1, <3>3, <4>1
    <3> QED  BY <3>2, <3>3
  <2> QED  BY <2>1, <2>2 DEF TreeInv
<1>6. ScanInv'
  <2>1. /\ scan' \in ScanFields /\ scan'.touched = touched /\ scan'.looked = scan.looked
        /\ scan'.truncated = scan.truncated /\ scan'.errors = scan.errors
        /\ scan'.entries = scan.entries /\ scan'.pending = scan.pending
        /\ scan'.found = scan.found /\ scan'.children = scan.children
    <3>1. scan \in ScanFields /\ touched \in SUBSET Path
      <4>1. parents \subseteq Path \cup {Top}
        BY FactsAssumption DEF parents
      <4> QED  BY <4>1 DEF ScanInv, ScanFields
    <3> HIDE DEF touched
    <3>2. scan' = [scan EXCEPT !.touched = touched]
      BY <1>1 DEF touched
    <3> QED  BY <3>1, <3>2 DEF ScanFields
  <2>2. \A p \in Path \ touched : p \notin scan.touched /\ disk'[p] = disk[p]
    BY <1>3
  <2> HIDE DEF touched
  <2>3. scan.errors = {} => RecordedAsIs(scan)'
    BY <2>1, <2>2 DEF RecordedAsIs, ScanInv
  <2>4. ASSUME scan.errors = {}, NEW p \in Path \ (touched \cup Excluded), disk'[p] # Absent,
               NEW a \in Above(p) \cap Path
        PROVE  Covered(scan', a)
    <3>1. Covered(scan, a)
      BY <2>2, <2>4 DEF ScanInv, NothingPassed
    <3> QED  BY <2>1, <3>1 DEF Covered
  <2>5. scan.errors = {} => NothingPassed(scan)'
    BY <2>1, <2>4 DEF NothingPassed
  <2> QED  BY <2>1, <2>3, <2>5 DEF ScanInv
<1> QED  BY <1>5, <1>6

LEMMA FreshFacts ==
  ASSUME TreeInv, NEW kind, NEW data,
         \/ kind = "file" /\ data \in Content
         \/ kind = "symlink" /\ data \in Path \cup {Outside}
         \/ kind = "directory" /\ data = 0
  PROVE  /\ Fresh(kind, data) \in Node /\ Fresh(kind, data) # Absent
         /\ Fresh(kind, data).kind = kind /\ Fresh(kind, data).data = data
<1>1. Fresh(kind, data) \in Node /\ Fresh(kind, data).kind = kind
  BY DEF TreeInv, Fresh, Node
<1> QED  BY <1>1, KindFacts DEF Fresh

LEMMA ProgramsKeep ==
  ASSUME TreeInv, ScanInv,
         \/ \E p \in Touchable : ProgramCreates(p) \/ ProgramModifies(p) \/ ProgramDeletes(p)
         \/ \E q, r \in Touchable : ProgramRenames(q, r)
  PROVE  TreeInv' /\ ScanInv' /\ UNCHANGED <<step, baseline, prepared>>
<1>0. /\ Touchable \subseteq Path /\ NewContent \subseteq Content /\ Top \notin Path
      /\ \A p \in Path : Folder[p] \in Path \cup {Top} /\ LinkTarget[p] \in Path \cup {Outside}
      /\ \A p \in Path : Folder[p] # p
  <2>1. \A p \in Path : Folder[p] = Top \/ Folder[p] < p
    BY FactsAssumption
  <2>2. \A p \in Path : p \in Nat /\ p # Top
    BY FactsAssumption
  <2>3. \A p \in Path : Folder[p] # p
    BY <2>1, <2>2
  <2>4. \A p \in Path : Folder[p] \in Path \cup {Top} /\ LinkTarget[p] \in Path \cup {Outside}
    BY FactsAssumption, ScanAssumption
  <2>5. Touchable \subseteq Path /\ NewContent \subseteq Content /\ Top \notin Path
    BY FactsAssumption, ScanAssumption
  <2> QED  BY <2>3, <2>4, <2>5
<1>t. \A p \in Path :
        /\ disk[p] \in Node \cup {Absent}
        /\ disk[p] # Absent /\ Folder[p] # Top => disk[Folder[p]].kind = "directory"
  BY DEF TreeInv
<1>k. Absent.kind = "absent"
  BY DEF Absent
<1>1. ASSUME NEW p \in Touchable, ProgramCreates(p)
      PROVE  TreeInv' /\ ScanInv' /\ UNCHANGED <<step, baseline, prepared>>
  <2>1. /\ p \in Path /\ disk[p] = Absent
        /\ Folder[p] # Top => disk[Folder[p]].kind = "directory"
    BY <1>0, <1>1 DEF ProgramCreates, CanHold
  <2>2. PICK node \in {Fresh("file", c) : c \in NewContent}
                        \cup {Fresh("symlink", LinkTarget[p]), Fresh("directory", 0)} :
          Write({p}, [q \in {p} |-> node])
    BY <1>1 DEF ProgramCreates
  <2>3. node \in Node
    <3>1. CASE node = Fresh("directory", 0)
      BY <3>1, FreshFacts 
    <3>2. CASE node = Fresh("symlink", LinkTarget[p])
      BY <1>0, <2>1, <3>2, FreshFacts 
    <3>3. CASE \E c \in NewContent : node = Fresh("file", c)
      BY <1>0, <3>3, FreshFacts 
    <3> QED  BY <2>2, <3>1, <3>2, <3>3
  <2> DEFINE new == [q \in {p} |-> node]
  <2>4. new \in [{p} -> Node \cup {Absent}] /\ new[p] = node
    BY <2>3
  <2>5. \A c \in Path \ {p} : Folder[c] \in {p} /\ disk[c] # Absent =>
          new[Folder[c]].kind = "directory"
    BY <1>k, <1>t, <1>0, <2>1
  <2> HIDE DEF new
  <2>6. TreeInv' /\ ScanInv'
    BY <1>0, <2>1, <2>2, <2>3, <2>4, <2>5, WriteKeeps DEF new
  <2> QED  BY <2>2, <2>6 DEF Write
<1>2. ASSUME NEW p \in Touchable, ProgramModifies(p)
      PROVE  TreeInv' /\ ScanInv' /\ UNCHANGED <<step, baseline, prepared>>
  <2>1. p \in Path /\ disk[p].kind = "file" /\ disk[p] \in Node
    BY <1>0, <1>2, <1>t, <1>k DEF ProgramModifies
  <2>2. PICK c \in NewContent :
          Write({p}, [q \in {p} |-> [disk[p] EXCEPT !.data = c, !.version = writes + 1]])
    BY <1>2 DEF ProgramModifies
  <2> DEFINE node == [disk[p] EXCEPT !.data = c, !.version = writes + 1]
             new == [q \in {p} |-> node]
  <2>3. node \in Node /\ node.kind = "file"
    <3>1. c \in Content /\ writes + 1 \in Nat
      BY <1>0, <2>2 DEF TreeInv
    <3> QED  BY <2>1, <3>1 DEF Node
  <2>4. new \in [{p} -> Node \cup {Absent}] /\ new[p] = node
    BY <2>3
  <2>5. \A d \in Path \ {p} : Folder[d] \in {p} /\ disk[d] # Absent =>
          new[Folder[d]].kind = "directory"
    BY <1>t, <1>0, <2>1
  <2>6. disk[p] # Absent
    BY <2>1, <1>k
  <2>7. Write({p}, new)
    BY <2>2
  <2> HIDE DEF new, node
  <2>8. TreeInv' /\ ScanInv'
    BY <1>0, <1>t, <2>1, <2>3, <2>4, <2>5, <2>6, <2>7, WriteKeeps
  <2> QED  BY <2>2, <2>8 DEF Write
<1>3. ASSUME NEW p \in Touchable, ProgramDeletes(p)
      PROVE  TreeInv' /\ ScanInv' /\ UNCHANGED <<step, baseline, prepared>>
  <2>1. p \in Path /\ disk[p] # Absent /\ Children(p) = {}
        /\ Write({p}, [q \in {p} |-> Absent])
    BY <1>0, <1>3 DEF ProgramDeletes
  <2> DEFINE new == [q \in {p} |-> Absent]
  <2>2. new \in [{p} -> Node \cup {Absent}] /\ new[p] = Absent
    OBVIOUS
  <2>3. \A d \in Path \ {p} : Folder[d] \in {p} => disk[d] = Absent
    BY <2>1 DEF Children
  <2>4. Write({p}, new)
    BY <2>1
  <2> HIDE DEF new
  <2>5. TreeInv' /\ ScanInv'
    BY <1>0, <1>t, <1>k, <2>1, <2>2, <2>3, <2>4, WriteKeeps
  <2> QED  BY <2>1, <2>5 DEF Write
<1>4. ASSUME NEW p \in Touchable, NEW q \in Touchable, ProgramRenames(p, q)
      PROVE  TreeInv' /\ ScanInv' /\ UNCHANGED <<step, baseline, prepared>>
  <2>1. /\ p \in Path /\ q \in Path /\ disk[p].kind = "file" /\ disk[q] = Absent
        /\ Folder[q] # Top => disk[Folder[q]].kind = "directory"
        /\ \A c \in Path : Folder[c] # q
        /\ Write({p, q}, [r \in {p, q} |-> IF r = q THEN disk[p] ELSE Absent])
    BY <1>0, <1>4 DEF ProgramRenames, CanHold
  <2>2. disk[p] # Absent /\ disk[p] \in Node /\ p # q
    BY <1>t, <1>k, <2>1
  <2> DEFINE new == [r \in {p, q} |-> IF r = q THEN disk[p] ELSE Absent]
  <2>3. new \in [{p, q} -> Node \cup {Absent}] /\ new[p] = Absent /\ new[q] = disk[p]
    BY <2>2
  <2>4. \A c \in Path : Folder[c] = p => disk[c] = Absent
    BY <1>0, <1>t, <2>1
  <2>5. Folder[q] # p /\ Folder[p] # p
    BY <1>0, <2>1
  <2>6. Write({p, q}, new)
    BY <2>1
  <2> HIDE DEF new
  <2>7. \A r \in {p, q} : Folder[r] # Top => disk[Folder[r]].kind = "directory"
    BY <1>t, <2>1, <2>2
  <2>8. \A c \in Path \ {p, q} : Folder[c] \in {p, q} /\ disk[c] # Absent =>
          new[Folder[c]].kind = "directory"
    BY <2>1, <2>4
  <2>9. \A r \in {p, q} : Folder[r] \in {p, q} /\ new[r] # Absent =>
           new[Folder[r]].kind = "directory"
    BY <2>1, <2>5
  <2>10. TreeInv' /\ ScanInv'
    BY <2>1, <2>3, <2>6, <2>7, <2>8, <2>9, WriteKeeps
  <2> QED  BY <2>1, <2>10 DEF Write
<1> QED  BY <1>1, <1>2, <1>3, <1>4

\* What became of the sets of directories and children that a scan still has
\* to see, and of the fields of its state.
LEMMA AmongFacts ==
  ASSUME NEW S, NEW s \in Seq(S), NEW a
  PROVE  /\ Among(a, s) => s # <<>>
         /\ s # <<>> => /\ Front(s) \in Seq(S) /\ Last(s) \in S
                        /\ Among(a, s) => a = Last(s) \/ Among(a, Front(s))
                        /\ Head(s) \in S /\ Tail(s) \in Seq(S)
                        /\ Among(a, s) => a = Head(s) \/ Among(a, Tail(s))
<1>1. Among(a, s) => s # <<>>
  BY DEF Among
<1>2. ASSUME s # <<>>
      PROVE  /\ Front(s) \in Seq(S) /\ Last(s) \in S
             /\ Among(a, s) => a = Last(s) \/ Among(a, Front(s))
  <2>1. Len(s) \in Nat /\ Len(s) >= 1
    BY <1>2
  <2>2. /\ Front(s) \in Seq(S) /\ Len(Front(s)) = Len(s) - 1
        /\ \A i \in 1 .. Len(s) - 1 : Front(s)[i] = s[i]
    <3> DEFINE n == Len(s) - 1
    <3>1. Front(s) = SubSeq(s, 1, n)
      BY DEF Front
    <3>2. n \in Nat /\ \A i \in 1 .. n : s[i] \in S /\ 1 + i - 1 = i
      BY <2>1
    <3> HIDE DEF n
    <3>3. (IF 1 <= n THEN n - 1 + 1 ELSE 0) = n /\ n - 1 + 1 = n
      BY <3>2
    <3>4. /\ SubSeq(s, 1, n) \in Seq(S)
          /\ Len(SubSeq(s, 1, n)) = IF 1 <= n THEN n - 1 + 1 ELSE 0
          /\ \A i \in 1 .. n - 1 + 1 : SubSeq(s, 1, n)[i] = s[1 + i - 1]
      BY <3>2, SubSeqProperties
    <3>5. \A i \in 1 .. n : SubSeq(s, 1, n)[i] = s[i]
      BY <3>2, <3>3, <3>4
    <3> QED  BY <3>1, <3>3, <3>4, <3>5 DEF n
  <2>3. Last(s) = s[Len(s)] /\ Last(s) \in S
    BY <2>1 DEF Last
  <2>4. ASSUME NEW i \in 1 .. Len(s), s[i] = a, i # Len(s)
        PROVE  Among(a, Front(s))
    <3>1. i \in 1 .. Len(s) - 1
      BY <2>1, <2>4
    <3> QED  BY <2>2, <2>4, <3>1 DEF Among
  <2> QED  BY <2>2, <2>3, <2>4 DEF Among
<1>3. ASSUME s # <<>>
      PROVE  /\ Head(s) \in S /\ Tail(s) \in Seq(S)
             /\ Among(a, s) => a = Head(s) \/ Among(a, Tail(s))
  <2>1. Len(s) \in Nat /\ Len(s) >= 1
    BY <1>3
  <2>2. /\ Head(s) = s[1] /\ Head(s) \in S /\ Tail(s) \in Seq(S) /\ Len(Tail(s)) = Len(s) - 1
        /\ \A i \in 1 .. Len(s) - 1 : Tail(s)[i] = s[i + 1]
    BY <1>3, <2>1
  <2>3. ASSUME NEW i \in 1 .. Len(s), s[i] = a, i # 1
        PROVE  Among(a, Tail(s))
    <3>1. i - 1 \in 1 .. Len(s) - 1 /\ (i - 1) + 1 = i
      BY <2>1, <2>3
    <3> QED  BY <2>2, <2>3, <3>1 DEF Among
  <2> QED  BY <2>2, <2>3 DEF Among
<1> QED  BY <1>1, <1>2, <1>3

\* The identity check finds the directory that was recorded.
LEMMA OpenDirectoryKeeps ==
  ASSUME TreeInv, ScanInv, OpenDirectory
  PROVE  ScanInv'
<1> DEFINE d == Last(scan.pending)
           rest == [scan EXCEPT !.pending = Front(scan.pending)]
           there == Children(d)
           room == MaxEntries - Cardinality(Recorded(scan.entries))
<1>1. /\ scan \in ScanFields /\ scan.pending # <<>> /\ scan.children = <<>>
      /\ scan.found = <<>> /\ scan.looked = NoLook /\ ~scan.truncated
  BY DEF ScanInv, OpenDirectory
<1>2. /\ Front(scan.pending) \in Seq(Path \cup {Top}) /\ d \in Path \cup {Top}
      /\ \A a : Among(a, scan.pending) => a = d \/ Among(a, Front(scan.pending))
  BY <1>1, AmongFacts DEF ScanFields
<1>3. disk' = disk
  BY DEF OpenDirectory
<1>4. CASE scan' = Erring(rest, "scan_failed")
  <2>1. /\ scan' \in ScanFields /\ scan'.errors # {} /\ scan'.looked = scan.looked
    <3>1. /\ scan' = [scan EXCEPT !.pending = Front(scan.pending),
                                  !.errors = scan.errors \cup {"scan_failed"}]
          /\ "scan_failed" \in ScanErrors
      BY <1>1, <1>4 DEF ScanFields, Erring, ScanErrors
    <3> HIDE DEF d, rest
    <3> QED  BY <1>1, <1>2, <3>1 DEF ScanFields
  <2> QED  BY <1>1, <2>1 DEF ScanInv
<1>5. ASSUME NEW listed \in kSubset(Smaller(room, Cardinality(there)), there),
             scan' = [rest EXCEPT
                !.children = Sorted(listed), !.truncated = Cardinality(there) > room,
                !.errors = IF Cardinality(there) > room
                           THEN rest.errors \cup {"entry_limit_exceeded"} ELSE rest.errors]
      PROVE  ScanInv'
  <2> DEFINE front == Front(scan.pending)  over == Cardinality(there) > room
             errors == IF over THEN rest.errors \cup {"entry_limit_exceeded"} ELSE rest.errors
  <2>1. there \subseteq Path /\ listed \subseteq there /\ IsFiniteSet(there)
        /\ Cardinality(listed) = Smaller(room, Cardinality(there))
        /\ \A p \in Path : p \in there <=> Folder[p] = d /\ disk[p] # Absent
    <3>1. there \subseteq Path
      BY DEF Children
    <3>2. IsFiniteSet(there)
      BY <3>1, FactsAssumption, FS_Subset
    <3> QED  BY <1>5, <3>1, <3>2 DEF kSubset, Children
  <2> HIDE DEF there, room, d
  <2>2. over \/ listed = there
    <3>1. room \in Int
      <4>1. Cardinality(Recorded(scan.entries)) \in Nat
        BY FactsAssumption, FS_Subset, FS_CardinalityType DEF Recorded
      <4> QED  BY <4>1, ScanAssumption DEF room
    <3>2. Cardinality(there) \in Nat
      BY <2>1, FS_CardinalityType
    <3>3. ~over => Cardinality(listed) = Cardinality(there)
      BY <2>1, <3>1, <3>2 DEF Smaller
    <3> QED  BY <2>1, <3>3, FS_Subset
  <2>3. Sorted(listed) \in Seq(Path) /\ \A p \in listed : Among(p, Sorted(listed))
    BY <2>1, SortedFacts
  <2>4. errors \in SUBSET ScanErrors /\ (over => errors # {}) /\ (~over => errors = scan.errors)
    <3>1. rest.errors = scan.errors /\ scan.errors \in SUBSET ScanErrors
          /\ "entry_limit_exceeded" \in ScanErrors
      BY <1>1 DEF ScanFields, ScanErrors
    <3> HIDE DEF over, rest
    <3> QED  BY <3>1
  <2>5. scan' = [scan EXCEPT !.pending = front, !.children = Sorted(listed),
                             !.truncated = over, !.errors = errors]
    BY <1>1, <1>5 DEF ScanFields
  <2> HIDE DEF over, errors, front
  <2>6. /\ scan' \in ScanFields /\ scan'.pending = front /\ scan'.children = Sorted(listed)
        /\ scan'.truncated = over /\ scan'.errors = errors /\ scan'.found = scan.found
        /\ scan'.looked = NoLook /\ scan'.entries = scan.entries /\ scan'.touched = scan.touched
    <3>1. front \in Seq(Path \cup {Top}) /\ over \in BOOLEAN
      BY <1>2 DEF front, over
    <3> QED  BY <1>1, <2>3, <2>4, <2>5, <3>1 DEF ScanFields
  <2>7. ASSUME scan'.errors = {} PROVE RecordedAsIs(scan)' /\ NothingPassed(scan)'
    <3>1. ~over /\ scan.errors = {} /\ listed = there
      BY <2>2, <2>4, <2>6, <2>7
    <3>2. RecordedAsIs(scan)'
      BY <1>3, <2>6, <3>1 DEF ScanInv, RecordedAsIs
    <3>3. ASSUME NEW p \in Path \ (scan.touched \cup Excluded), disk[p] # Absent,
                 NEW a \in Above(p) \cap Path
          PROVE  Covered(scan', a)
      <4>1. Covered(scan, a)
        BY <3>1, <3>3 DEF ScanInv, NothingPassed
      <4>2. disk[a] # Absent
        BY <3>3, AboveIsThere
      <4>3. CASE Folder[a] = d
        <5>1. Among(a, scan'.children)
          BY <2>1, <2>3, <2>6, <3>1, <4>2, <4>3
        <5> QED  BY <5>1 DEF Covered
      <4>4. CASE Folder[a] # d
        <5>1. Among(Folder[a], scan.pending) => Among(Folder[a], front)
          BY <1>2, <4>4 DEF front
        <5>2. ~ Among(a, scan.children) /\ ~ (scan.looked # NoLook)
          BY <1>1 DEF Among
        <5> QED  BY <2>6, <4>1, <5>1, <5>2 DEF Covered
      <4> QED  BY <4>3, <4>4
    <3>4. NothingPassed(scan)'
      BY <1>3, <2>6, <3>3 DEF NothingPassed
    <3> QED  BY <3>2, <3>4
  <2> QED  BY <2>4, <2>6, <2>7 DEF ScanInv
<1> HIDE DEF room
<1>6. \/ scan' = Erring(rest, "scan_failed")
      \/ \E listed \in kSubset(Smaller(room, Cardinality(there)), there) :
           scan' = [rest EXCEPT
                !.children = Sorted(listed), !.truncated = Cardinality(there) > room,
                !.errors = IF Cardinality(there) > room
                           THEN rest.errors \cup {"entry_limit_exceeded"} ELSE rest.errors]
  BY DEF OpenDirectory, room
<1> QED  BY <1>4, <1>5, <1>6

\* What recording an entry does to the invariant.  The entry has an error, or
\* the node was no directory, or the directory was put among those found.
LEMMA RecordingKeeps ==
  ASSUME TreeInv, scan \in ScanFields, scan.truncated => scan.errors # {},
         scan.errors = {} => RecordedAsIs(scan) /\ NothingPassed(scan),
         disk' = disk, NEW p \in Path, NEW e \in SnapshotEntry,
         scan' \in ScanFields, scan'.entries = [scan.entries EXCEPT ![p] = e],
         scan'.touched = scan.touched, scan'.truncated = scan.truncated,
         scan'.looked # NoLook => scan'.looked.node.kind = "file",
         scan.errors \subseteq scan'.errors,
         \A a : a # p => /\ Among(a, scan.children) => Among(a, scan'.children)
                         /\ scan.looked # NoLook => scan.looked.path # a,
         \A a : /\ Among(a, scan.pending) => Among(a, scan'.pending)
                /\ Among(a, scan.found) => Among(a, scan'.found),
         scan'.errors = {} /\ p \notin scan.touched => Same(e, disk[p]),
         scan'.errors = {} /\ disk[p].kind = "directory" => Among(p, scan'.found)
  PROVE  ScanInv'
<1>1. /\ scan'.entries[p] = e /\ e # NoEntry
      /\ \A a \in Path \ {p} : scan'.entries[a] = scan.entries[a]
  BY KindFacts DEF ScanFields
<1>2. ASSUME scan'.errors = {} PROVE RecordedAsIs(scan)' /\ NothingPassed(scan)'
  <2>1. scan.errors = {}
    BY <1>2
  <2>2. RecordedAsIs(scan)'
    BY <1>1, <1>2, <2>1 DEF RecordedAsIs
  <2>3. ASSUME NEW q \in Path \ (scan.touched \cup Excluded), disk[q] # Absent,
               NEW a \in Above(q) \cap Path
        PROVE  Covered(scan', a)
    <3>1. Covered(scan, a) /\ disk[a] # Absent
      BY <2>1, <2>3, AboveIsThere DEF NothingPassed
    <3>2. CASE a = p
      BY <1>1, <3>2 DEF Covered
    <3>3. CASE a # p /\ scan.entries[a] # NoEntry
      BY <1>1, <3>3 DEF Covered
    <3>4. CASE a # p /\ Among(a, scan.children)
      BY <3>4 DEF Covered
    <3>5. CASE Among(Folder[a], scan.pending) \/ Among(Folder[a], scan.found)
      BY <3>5 DEF Covered
    <3>6. CASE Folder[a] \in Path /\ scan.entries[Folder[a]] = NoEntry
      <4>1. CASE Folder[a] = p
        <5>1. disk[p].kind = "directory"
          BY <3>1, <4>1, FactsAssumption DEF TreeInv
        <5> QED  BY <1>2, <4>1, <5>1 DEF Covered
      <4>2. CASE Folder[a] # p
        BY <1>1, <3>6, <4>2 DEF Covered
      <4> QED  BY <4>1, <4>2
    <3> QED  BY <3>1, <3>2, <3>3, <3>4, <3>5, <3>6 DEF Covered
  <2>4. NothingPassed(scan)'
    BY <2>3 DEF NothingPassed
  <2> QED  BY <2>2, <2>4
<1> QED  BY <1>2 DEF ScanInv

\* What skipping one does: it is excluded, or will be looked at again, or an
\* error is noted.
LEMMA SkippingKeeps ==
  ASSUME TreeInv, scan \in ScanFields, scan.truncated => scan.errors # {},
         scan.errors = {} => RecordedAsIs(scan) /\ NothingPassed(scan),
         disk' = disk, NEW p \in Path,
         scan' \in ScanFields, scan'.entries = scan.entries, scan'.looked # NoLook =>
           scan'.looked.node.kind = "file",
         scan'.touched = scan.touched, scan'.truncated = scan.truncated,
         scan.errors \subseteq scan'.errors, scan.looked = NoLook,
         \A a : /\ Among(a, scan.pending) => Among(a, scan'.pending)
                /\ Among(a, scan.found) => Among(a, scan'.found)
                /\ a # p /\ Among(a, scan.children) => Among(a, scan'.children),
         scan'.errors = {} => p \in Excluded \/ (scan'.looked # NoLook /\ scan'.looked.path = p)
  PROVE  ScanInv'
<1>1. ASSUME scan'.errors = {} PROVE RecordedAsIs(scan)' /\ NothingPassed(scan)'
  <2>1. scan.errors = {}
    BY <1>1
  <2>2. RecordedAsIs(scan)'
    BY <2>1 DEF RecordedAsIs
  <2>3. ASSUME NEW q \in Path \ (scan.touched \cup Excluded), disk[q] # Absent,
               NEW a \in Above(q) \cap Path
        PROVE  Covered(scan', a)
    <3>1. Covered(scan, a) /\ a \notin Excluded
      BY <2>1, <2>3, AboveIsIncluded DEF NothingPassed
    <3>2. CASE a = p
      BY <1>1, <3>1, <3>2 DEF Covered
    <3>3. CASE a # p
      BY <3>1, <3>3 DEF Covered
    <3> QED  BY <3>2, <3>3
  <2>4. NothingPassed(scan)'
    BY <2>3 DEF NothingPassed
  <2> QED  BY <2>2, <2>4
<1> QED  BY <1>1 DEF ScanInv

LEMMA EntryFacts ==
  ASSUME NEW node \in Node, NEW kind \in Kinds, NEW error \in EntryErrors \cup {""}
  PROVE  /\ EntryOf(node, kind, error) \in SnapshotEntry
         /\ EntryOf(node, kind, error).error = error
         /\ kind = node.kind /\ error = "" /\ (kind = "symlink" \/ node.data = 0) =>
              Same(EntryOf(node, kind, error), node)
<1> DEFINE e == EntryOf(node, kind, error)
<1>1. node.data \in Content \cup Path \cup {Outside, 0} /\ node.inode \in Nat
      /\ node.version \in Nat /\ node # Absent /\ node.kind \in Kinds
  BY KindFacts
<1>2. /\ e.kind = kind /\ e.version = node.version /\ e.whole = (error = "") /\ e.error = error
      /\ e.data = IF kind = "symlink" THEN node.data ELSE 0
  BY DEF EntryOf
<1>3. e \in SnapshotEntry
  BY <1>1 DEF EntryOf, SnapshotEntry
<1>4. e # NoEntry
  BY <1>3, KindFacts
<1> HIDE DEF e
<1>5. kind = node.kind /\ error = "" /\ (kind = "symlink" \/ node.data = 0) => Same(e, node)
  BY <1>1, <1>2, <1>4 DEF Same
<1> QED  BY <1>2, <1>3, <1>5 DEF e

LEMMA WholeFileFacts ==
  ASSUME NEW node \in Node, node.kind = "file"
  PROVE  WholeFile(node) \in SnapshotEntry /\ Same(WholeFile(node), node)
         /\ WholeFile(node).error = ""
<1> DEFINE e == WholeFile(node)
<1>1. node.data \in Content \cup Path \cup {Outside, 0} /\ node.inode \in Nat
      /\ node.version \in Nat /\ node # Absent /\ node.kind \in Kinds
  BY KindFacts
<1>2. /\ e.kind = "file" /\ e.data = node.data /\ e.version = node.version /\ e.whole = TRUE
      /\ e.error = ""
  BY DEF WholeFile
<1>3. e \in SnapshotEntry
  BY <1>1 DEF WholeFile, SnapshotEntry, Kinds
<1>4. e # NoEntry
  BY <1>3, KindFacts
<1> HIDE DEF e
<1>5. Same(e, node)
  BY <1>1, <1>2, <1>4 DEF Same
<1> QED  BY <1>2, <1>3, <1>5 DEF e

\* A scan with one more entry.
WithEntry(t, s, p, e) ==
  /\ t \in ScanFields /\ t.entries = [s.entries EXCEPT ![p] = e]
  /\ t.errors = s.errors \cup (IF e.error = "" THEN {} ELSE {e.error})
  /\ t.pending = s.pending /\ t.children = s.children /\ t.found = s.found
  /\ t.looked = s.looked /\ t.touched = s.touched /\ t.truncated = s.truncated

LEMMA CapturingFacts ==
  ASSUME NEW s \in ScanFields, NEW p \in Path, NEW e \in SnapshotEntry
  PROVE  WithEntry(Capturing(s, p, e), s, p, e)
<1> DEFINE entries == [s.entries EXCEPT ![p] = e]
           t == [s EXCEPT !.entries = entries]
<1>1. entries \in [Path -> SnapshotEntry \cup {NoEntry}]
  BY DEF ScanFields
<1>2. t = [s EXCEPT !.entries[p] = e]
  BY DEF ScanFields
<1>3. Capturing(s, p, e) = IF e.error = "" THEN t ELSE Erring(t, e.error)
  BY <1>2 DEF Capturing
<1>4. e.error \in EntryErrors \cup {""}
  BY DEF SnapshotEntry
<1> HIDE DEF entries
<1>5. CASE e.error = ""
  <2>1. Capturing(s, p, e) = t
    BY <1>3, <1>5
  <2>2. /\ t \in ScanFields /\ t.entries = entries /\ t.errors = s.errors
        /\ t.pending = s.pending /\ t.children = s.children /\ t.found = s.found
        /\ t.looked = s.looked /\ t.touched = s.touched /\ t.truncated = s.truncated
    BY <1>1 DEF ScanFields
  <2> HIDE DEF t
  <2> QED  BY <1>5, <2>1, <2>2 DEF WithEntry, entries
<1>6. CASE e.error # ""
  <2> DEFINE u == [s EXCEPT !.entries = entries, !.errors = s.errors \cup {e.error}]
  <2>1. Capturing(s, p, e) = u
    BY <1>3, <1>6 DEF ScanFields, Erring
  <2>2. e.error \in ScanErrors
    BY <1>4, <1>6 DEF ScanErrors
  <2>3. /\ u \in ScanFields /\ u.entries = entries /\ u.errors = s.errors \cup {e.error}
        /\ u.pending = s.pending /\ u.children = s.children /\ u.found = s.found
        /\ u.looked = s.looked /\ u.touched = s.touched /\ u.truncated = s.truncated
    BY <1>1, <2>2 DEF ScanFields
  <2> HIDE DEF u
  <2> QED  BY <1>6, <2>1, <2>3 DEF WithEntry, entries
<1> QED  BY <1>5, <1>6

LEMMA AppendFacts ==
  ASSUME NEW S, NEW s \in Seq(S), NEW x \in S
  PROVE  /\ Append(s, x) \in Seq(S) /\ Among(x, Append(s, x))
         /\ \A a : Among(a, s) => Among(a, Append(s, x))
<1>1. /\ Append(s, x) \in Seq(S) /\ Len(Append(s, x)) = Len(s) + 1 /\ Len(s) \in Nat
      /\ Append(s, x)[Len(s) + 1] = x
      /\ \A i \in 1 .. Len(s) : Append(s, x)[i] = s[i]
  OBVIOUS
<1>2. Len(s) + 1 \in 1 .. Len(Append(s, x))
      /\ \A i \in 1 .. Len(s) : i \in 1 .. Len(Append(s, x))
  BY <1>1
<1> QED  BY <1>1, <1>2 DEF Among

\* One child is looked at: it is skipped, recorded, or read next.
LEMMA LookAtChildKeeps ==
  ASSUME TreeInv, ScanInv, LookAtChild
  PROVE  ScanInv'
<1> DEFINE p == Head(scan.children)
           node == disk[p]
           left == Tail(scan.children)
           rest == [scan EXCEPT !.children = left]
<1>1. /\ scan \in ScanFields /\ scan.children # <<>> /\ scan.looked = NoLook /\ disk' = disk
      /\ scan.truncated => scan.errors # {}
      /\ scan.errors = {} => RecordedAsIs(scan) /\ NothingPassed(scan)
  BY DEF ScanInv, LookAtChild
<1>2. /\ p \in Path /\ left \in Seq(Path)
      /\ \A a : a # p /\ Among(a, scan.children) => Among(a, left)
  BY <1>1, AmongFacts DEF ScanFields
<1>3. node \in Node \cup {Absent} /\ (node.kind = "directory" => node.data = 0)
  BY <1>2, KindFacts DEF TreeInv, Absent
<1>4. \/ scan' = rest /\ p \in Excluded
      \/ scan' = Erring(rest, "stat_failed")
      \/ /\ node # Absent
         /\ \E kind \in Kinds :
              scan' = Capturing(rest, p, EntryOf(node, kind, "mount_boundary"))
      \/ /\ node # Absent /\ node.kind = "symlink"
         /\ scan' = Capturing(rest, p, EntryOf(node, "symlink", ""))
      \/ /\ node # Absent /\ node.kind = "directory"
         /\ scan' = [Capturing(rest, p, EntryOf(node, "directory", ""))
                       EXCEPT !.found = Append(@, p)]
      \/ /\ node # Absent
         /\ scan' = Capturing(rest, p, EntryOf(node, "special", "special_file"))
      \/ /\ node # Absent
         /\ scan' = Capturing(rest, p, EntryOf(node, "file", "hash_size_limit"))
      \/ /\ node # Absent /\ node.kind = "file"
         /\ scan' = [rest EXCEPT !.looked = [path |-> p, node |-> node]]
  <2>1. "directory" \in Kinds /\ "special" \in Kinds
    BY DEF Kinds
  <2> HIDE DEF rest
  <2> QED  BY <2>1 DEF LookAtChild, rest
<1> HIDE DEF p, left
<1>5. rest \in ScanFields /\ rest.children = left /\ rest.entries = scan.entries
      /\ rest.errors = scan.errors /\ rest.looked = NoLook /\ rest.touched = scan.touched
      /\ rest.truncated = scan.truncated /\ rest.pending = scan.pending
      /\ rest.found = scan.found
  BY <1>1, <1>2 DEF ScanFields
<1> HIDE DEF rest, node
<1>6. CASE scan' = rest /\ p \in Excluded
  BY <1>1, <1>2, <1>5, <1>6, SkippingKeeps
<1>7. CASE scan' = Erring(rest, "stat_failed")
  <2>1. scan' = [rest EXCEPT !.errors = rest.errors \cup {"stat_failed"}]
        /\ "stat_failed" \in ScanErrors
    BY <1>7 DEF Erring, ScanErrors
  <2>2. /\ scan' \in ScanFields /\ scan'.children = left /\ scan'.entries = scan.entries
        /\ scan'.errors = scan.errors \cup {"stat_failed"} /\ scan'.looked = NoLook
        /\ scan'.touched = scan.touched /\ scan'.truncated = scan.truncated
        /\ scan'.pending = scan.pending /\ scan'.found = scan.found
    BY <1>5, <2>1 DEF ScanFields
  <2> QED  BY <1>1, <1>2, <2>2, SkippingKeeps
<1>8. ASSUME NEW e \in SnapshotEntry, scan' = Capturing(rest, p, e),
             e.error = "" => Same(e, node) /\ node.kind # "directory"
      PROVE  ScanInv'
  <2>1. WithEntry(scan', rest, p, e)
    BY <1>2, <1>5, <1>8, CapturingFacts
  <2>2. scan'.errors = {} => e.error = ""
    BY <2>1 DEF WithEntry
  <2>3. /\ scan' \in ScanFields /\ scan'.entries = [scan.entries EXCEPT ![p] = e]
        /\ scan'.touched = scan.touched /\ scan'.truncated = scan.truncated
        /\ scan'.looked = NoLook /\ scan.errors \subseteq scan'.errors
        /\ scan'.children = left /\ scan'.pending = scan.pending /\ scan'.found = scan.found
    BY <1>5, <2>1 DEF WithEntry
  <2>4. /\ scan'.errors = {} /\ p \notin scan.touched => Same(e, disk[p])
        /\ scan'.errors = {} /\ disk[p].kind = "directory" => Among(p, scan'.found)
    BY <1>8, <2>2 DEF node
  <2> QED  BY <1>1, <1>2, <2>3, <2>4, RecordingKeeps
<1>9. CASE /\ node # Absent
           /\ \E kind \in Kinds :
                scan' = Capturing(rest, p, EntryOf(node, kind, "mount_boundary"))
  <2>1. PICK kind \in Kinds : scan' = Capturing(rest, p, EntryOf(node, kind, "mount_boundary"))
    BY <1>9
  <2>2. "mount_boundary" \in EntryErrors /\ "mount_boundary" # "" /\ node \in Node
    BY <1>3, <1>9 DEF EntryErrors
  <2> QED  BY <1>8, <2>1, <2>2, EntryFacts
<1>10. CASE /\ node # Absent /\ node.kind = "symlink"
            /\ scan' = Capturing(rest, p, EntryOf(node, "symlink", ""))
  <2>1. node \in Node /\ "symlink" \in Kinds
    BY <1>3, <1>10 DEF Kinds
  <2>2. EntryOf(node, "symlink", "") \in SnapshotEntry /\ Same(EntryOf(node, "symlink", ""), node)
    BY <1>10, <2>1, EntryFacts
  <2> QED  BY <1>8, <1>10, <2>2
<1>11. CASE /\ node # Absent
            /\ \/ scan' = Capturing(rest, p, EntryOf(node, "special", "special_file"))
               \/ scan' = Capturing(rest, p, EntryOf(node, "file", "hash_size_limit"))
  <2>1. /\ node \in Node /\ {"special", "file"} \subseteq Kinds
        /\ {"special_file", "hash_size_limit"} \subseteq EntryErrors
        /\ "special_file" # "" /\ "hash_size_limit" # ""
    BY <1>3, <1>11 DEF Kinds, EntryErrors
  <2>2. CASE scan' = Capturing(rest, p, EntryOf(node, "special", "special_file"))
    <3> DEFINE e == EntryOf(node, "special", "special_file")
    <3>1. e \in SnapshotEntry /\ e.error = "special_file"
      BY <2>1, EntryFacts
    <3>2. scan' = Capturing(rest, p, e)
      BY <2>2
    <3> HIDE DEF e
    <3> QED  BY <1>8, <2>1, <3>1, <3>2
  <2>3. CASE scan' = Capturing(rest, p, EntryOf(node, "file", "hash_size_limit"))
    <3> DEFINE e == EntryOf(node, "file", "hash_size_limit")
    <3>1. e \in SnapshotEntry /\ e.error = "hash_size_limit"
      BY <2>1, EntryFacts
    <3>2. scan' = Capturing(rest, p, e)
      BY <2>3
    <3> HIDE DEF e
    <3> QED  BY <1>8, <2>1, <3>1, <3>2
  <2> QED  BY <1>11, <2>2, <2>3
<1>12. CASE /\ node # Absent /\ node.kind = "directory"
            /\ scan' = [Capturing(rest, p, EntryOf(node, "directory", ""))
                          EXCEPT !.found = Append(@, p)]
  <2> DEFINE e == EntryOf(node, "directory", "")  c == Capturing(rest, p, e)
  <2>1. node \in Node /\ "directory" \in Kinds
    BY <1>3, <1>12 DEF Kinds
  <2>2. e \in SnapshotEntry /\ e.error = "" /\ Same(e, node)
    BY <1>3, <1>12, <2>1, EntryFacts
  <2> HIDE DEF e
  <2>3. WithEntry(c, rest, p, e)
    BY <1>2, <1>5, <2>2, CapturingFacts
  <2>4. scan' = [c EXCEPT !.found = Append(c.found, p)]
    BY <1>12 DEF e
  <2> HIDE DEF c
  <2>5. /\ c \in ScanFields /\ c.found = scan.found /\ c.errors = scan.errors
    BY <1>5, <2>2, <2>3 DEF WithEntry
  <2>6. /\ Append(c.found, p) \in Seq(Path) /\ Among(p, Append(c.found, p))
        /\ \A a : Among(a, c.found) => Among(a, Append(c.found, p))
    <3>1. c.found \in Seq(Path)
      BY <2>5 DEF ScanFields
    <3> QED  BY <1>2, <3>1, AppendFacts
  <2>7. /\ scan' \in ScanFields /\ scan'.entries = c.entries /\ scan'.touched = c.touched
        /\ scan'.truncated = c.truncated /\ scan'.looked = c.looked /\ scan'.errors = c.errors
        /\ scan'.children = c.children /\ scan'.pending = c.pending
        /\ scan'.found = Append(c.found, p)
    BY <2>4, <2>5, <2>6 DEF ScanFields
  <2>8. /\ scan'.entries = [scan.entries EXCEPT ![p] = e] /\ scan'.looked = NoLook
        /\ scan'.touched = scan.touched /\ scan'.truncated = scan.truncated
        /\ scan'.errors = scan.errors /\ scan'.children = left
        /\ scan'.pending = scan.pending
    BY <1>5, <2>3, <2>5, <2>7 DEF WithEntry
  <2>9. Among(p, scan'.found) /\ \A a : Among(a, scan.found) => Among(a, scan'.found)
    BY <2>5, <2>6, <2>7
  <2> QED  BY <1>1, <1>2, <2>2, <2>7, <2>8, <2>9, RecordingKeeps DEF node
<1>13. CASE /\ node # Absent /\ node.kind = "file"
            /\ scan' = [rest EXCEPT !.looked = [path |-> p, node |-> node]]
  <2> DEFINE l == [path |-> p, node |-> node]
  <2>1. l \in [path: Path, node: Node] /\ l.path = p /\ l.node.kind = "file"
    BY <1>2, <1>3, <1>13
  <2>2. l # NoLook
    BY <1>2, FactsAssumption DEF NoLook
  <2>3. scan' = [rest EXCEPT !.looked = l]
    BY <1>13
  <2> HIDE DEF l
  <2>4. /\ scan' \in ScanFields /\ scan'.children = left /\ scan'.entries = scan.entries
        /\ scan'.errors = scan.errors /\ scan'.looked = l
        /\ scan'.touched = scan.touched /\ scan'.truncated = scan.truncated
        /\ scan'.pending = scan.pending /\ scan'.found = scan.found
    BY <1>5, <2>1, <2>3 DEF ScanFields
  <2> QED  BY <1>1, <1>2, <2>1, <2>2, <2>4, SkippingKeeps
<1> QED  BY <1>4, <1>6, <1>7, <1>9, <1>10, <1>11, <1>12, <1>13

\* The bytes of a file are read, or it is found to have changed.
LEMMA ReadChildKeeps ==
  ASSUME TreeInv, ScanInv, ReadChild
  PROVE  ScanInv'
<1> DEFINE p == scan.looked.path
           node == scan.looked.node
           rest == [scan EXCEPT !.looked = NoLook]
           whole == WholeFile(node)
<1>1. /\ scan \in ScanFields /\ scan.looked # NoLook /\ disk' = disk
      /\ scan.truncated => scan.errors # {}
      /\ scan.errors = {} => RecordedAsIs(scan) /\ NothingPassed(scan)
      /\ scan.looked.node.kind = "file"
  BY DEF ScanInv, ReadChild
<1>2. p \in Path /\ node \in Node /\ node.kind = "file" /\ node.data \in Content
      /\ SizeOf[node.data] \in Nat
  <2>1. scan.looked \in [path: Path, node: Node]
    BY <1>1 DEF ScanFields
  <2> QED  BY <1>1, <2>1, KindFacts, FactsAssumption
<1>3. \/ /\ disk[p] = node
         /\ scan' = [Capturing(rest, p, whole) EXCEPT
              !.text = IF whole.text THEN @ + SizeOf[node.data] ELSE @,
              !.text_dropped = @ \/ (whole.omission = "size_limit"
                                       /\ SizeOf[node.data] <= MaxText)]
      \/ \E error \in {"read_failed", "changed_during_scan"} :
           scan' = Capturing(rest, p, EntryOf(node, "file", error))
  BY DEF ReadChild, Stable
<1>4. rest \in ScanFields /\ rest.children = scan.children /\ rest.entries = scan.entries
      /\ rest.errors = scan.errors /\ rest.looked = NoLook /\ rest.touched = scan.touched
      /\ rest.truncated = scan.truncated /\ rest.pending = scan.pending
      /\ rest.found = scan.found
  BY <1>1 DEF ScanFields
<1>5. \A a : a # p => scan.looked.path # a
  OBVIOUS
<1> HIDE DEF rest, p, node, whole
<1>6. CASE /\ disk[p] = node
           /\ scan' = [Capturing(rest, p, whole) EXCEPT
              !.text = IF whole.text THEN @ + SizeOf[node.data] ELSE @,
              !.text_dropped = @ \/ (whole.omission = "size_limit"
                                       /\ SizeOf[node.data] <= MaxText)]
  <2> DEFINE c == Capturing(rest, p, whole)
             text == IF whole.text THEN c.text + SizeOf[node.data] ELSE c.text
             dropped == c.text_dropped \/ (whole.omission = "size_limit"
                                             /\ SizeOf[node.data] <= MaxText)
  <2>1. whole \in SnapshotEntry /\ Same(whole, node) /\ whole.error = ""
    BY <1>2, WholeFileFacts DEF whole
  <2>2. WithEntry(c, rest, p, whole)
    BY <1>2, <1>4, <2>1, CapturingFacts
  <2>3. scan' = [c EXCEPT !.text = text, !.text_dropped = dropped]
    BY <1>6
  <2> HIDE DEF c
  <2>4. c \in ScanFields /\ text \in Nat /\ dropped \in BOOLEAN
    <3>1. c \in ScanFields
      BY <2>2 DEF WithEntry
    <3>2. c.text \in Nat /\ c.text_dropped \in BOOLEAN
      BY <3>1 DEF ScanFields
    <3> HIDE DEF c
    <3>3. text \in Nat
      BY <1>2, <3>2
    <3>4. dropped \in BOOLEAN
      BY <3>2
    <3> QED  BY <3>1, <3>3, <3>4
  <2> HIDE DEF text, dropped
  <2>5. /\ scan' \in ScanFields /\ scan'.entries = c.entries /\ scan'.touched = c.touched
        /\ scan'.truncated = c.truncated /\ scan'.looked = c.looked /\ scan'.errors = c.errors
        /\ scan'.children = c.children /\ scan'.pending = c.pending /\ scan'.found = c.found
    BY <2>3, <2>4 DEF ScanFields
  <2>6. /\ scan'.entries = [scan.entries EXCEPT ![p] = whole] /\ scan'.looked = NoLook
        /\ scan'.touched = scan.touched /\ scan'.truncated = scan.truncated
        /\ scan'.errors = scan.errors /\ scan'.children = scan.children
        /\ scan'.pending = scan.pending /\ scan'.found = scan.found
    BY <1>4, <2>1, <2>2, <2>5 DEF WithEntry
  <2>7. Same(whole, disk[p]) /\ disk[p].kind # "directory"
    BY <1>2, <1>6, <2>1
  <2> QED  BY <1>1, <1>2, <1>5, <2>1, <2>5, <2>6, <2>7, RecordingKeeps
<1>7. ASSUME NEW error \in {"read_failed", "changed_during_scan"},
             scan' = Capturing(rest, p, EntryOf(node, "file", error))
      PROVE  ScanInv'
  <2> DEFINE e == EntryOf(node, "file", error)
  <2>1. "file" \in Kinds /\ error \in EntryErrors /\ error # ""
    BY <1>7 DEF Kinds, EntryErrors
  <2>2. e \in SnapshotEntry /\ e.error = error
    BY <1>2, <2>1, EntryFacts
  <2>3. WithEntry(scan', rest, p, e)
    BY <1>2, <1>4, <1>7, <2>2, CapturingFacts
  <2> HIDE DEF e
  <2>4. /\ scan' \in ScanFields /\ scan'.entries = [scan.entries EXCEPT ![p] = e]
        /\ scan'.looked = NoLook /\ scan'.errors # {} /\ scan.errors \subseteq scan'.errors
        /\ scan'.touched = scan.touched /\ scan'.truncated = scan.truncated
        /\ scan'.children = scan.children
        /\ scan'.pending = scan.pending /\ scan'.found = scan.found
    BY <1>4, <2>1, <2>2, <2>3 DEF WithEntry
  <2> QED  BY <1>1, <1>2, <1>5, <2>2, <2>4, RecordingKeeps
<1> QED  BY <1>3, <1>6, <1>7

LEMMA CloseDirectoryKeeps ==
  ASSUME ScanInv, CloseDirectory
  PROVE  ScanInv'
<1> DEFINE pending == IF scan.truncated THEN <<>> ELSE scan.pending \o Reverse(scan.found)
<1>1. /\ scan \in ScanFields /\ scan.children = <<>> /\ scan.looked = NoLook /\ disk' = disk
      /\ scan.truncated => scan.errors # {}
      /\ scan' = [scan EXCEPT !.found = <<>>, !.pending = pending]
      /\ scan.looked # NoLook => scan.looked.node.kind = "file"
  BY DEF ScanInv, CloseDirectory
<1>2. /\ scan.pending \in Seq(Path \cup {Top}) /\ scan.found \in Seq(Path)
  BY <1>1 DEF ScanFields
<1>3. /\ Reverse(scan.found) \in Seq(Path \cup {Top})
      /\ \A a : Among(a, scan.found) => Among(a, Reverse(scan.found))
  <2> DEFINE n == Len(scan.found)  r == Reverse(scan.found)
  <2>1. n \in Nat /\ r = [i \in 1 .. n |-> scan.found[n - i + 1]]
    BY <1>2 DEF Reverse
  <2>2. r \in Seq(Path \cup {Top}) /\ Len(r) = n
    <3>1. \A i \in 1 .. n : n - i + 1 \in 1 .. n /\ n - (n - i + 1) + 1 = i
      BY <2>1
    <3>2. \A i \in 1 .. n : scan.found[n - i + 1] \in Path
      BY <1>2, <3>1
    <3> QED  BY <2>1, <3>2
  <2>3. ASSUME NEW i \in 1 .. n PROVE n - i + 1 \in 1 .. n /\ r[n - i + 1] = scan.found[i]
    <3>1. n - i + 1 \in 1 .. n /\ n - (n - i + 1) + 1 = i
      BY <2>1
    <3> QED  BY <2>1, <3>1
  <2> QED  BY <2>2, <2>3 DEF Among
<1>4. /\ pending \in Seq(Path \cup {Top})
      /\ ~scan.truncated => \A a : Among(a, scan.pending) \/ Among(a, scan.found) =>
                                     Among(a, pending)
  <2> DEFINE r == Reverse(scan.found)  c == scan.pending \o r
  <2>1. r \in Seq(Path \cup {Top}) /\ \A a : Among(a, scan.found) => Among(a, r)
    BY <1>3
  <2> HIDE DEF r
  <2>2. /\ c \in Seq(Path \cup {Top}) /\ Len(c) = Len(scan.pending) + Len(r)
        /\ \A i \in 1 .. Len(scan.pending) + Len(r) :
             c[i] = IF i <= Len(scan.pending) THEN scan.pending[i] ELSE r[i - Len(scan.pending)]
        /\ Len(scan.pending) \in Nat /\ Len(r) \in Nat
    BY <1>2, <2>1, ConcatProperties
  <2> HIDE DEF c
  <2>3. ASSUME NEW a, Among(a, scan.pending) PROVE Among(a, c)
    <3>1. PICK i \in 1 .. Len(scan.pending) : scan.pending[i] = a
      BY <2>3 DEF Among
    <3>2. i \in 1 .. Len(c) /\ c[i] = a
      BY <2>2, <3>1
    <3> QED  BY <3>2 DEF Among
  <2>4. ASSUME NEW a, Among(a, scan.found) PROVE Among(a, c)
    <3>1. PICK i \in 1 .. Len(r) : r[i] = a
      BY <2>1, <2>4 DEF Among
    <3>2. Len(scan.pending) + i \in 1 .. Len(c) /\ ~ (Len(scan.pending) + i <= Len(scan.pending))
          /\ (Len(scan.pending) + i) - Len(scan.pending) = i
      BY <2>2, <3>1
    <3>3. c[Len(scan.pending) + i] = a
      BY <2>2, <3>1, <3>2
    <3> QED  BY <3>2, <3>3 DEF Among
  <2>5. scan.truncated => pending = <<>>
    OBVIOUS
  <2>6. ~scan.truncated => pending = c
    BY DEF c, r
  <2> HIDE DEF pending
  <2>7. CASE scan.truncated
    BY <2>5, <2>7
  <2>8. CASE ~scan.truncated
    <3>1. pending = c
      BY <2>6, <2>8
    <3> QED  BY <2>2, <2>3, <2>4, <2>8, <3>1
  <2> QED  BY <2>7, <2>8
<1> HIDE DEF pending
<1>5. /\ scan' \in ScanFields /\ scan'.entries = scan.entries /\ scan'.touched = scan.touched
      /\ scan'.truncated = scan.truncated /\ scan'.looked = scan.looked
      /\ scan'.errors = scan.errors /\ scan'.children = scan.children
      /\ scan'.pending = pending
  BY <1>1, <1>4 DEF ScanFields
<1>6. ASSUME scan.errors = {} PROVE RecordedAsIs(scan)' /\ NothingPassed(scan)'
  <2>1. RecordedAsIs(scan) /\ NothingPassed(scan) /\ ~scan.truncated
    BY <1>1, <1>6 DEF ScanInv
  <2>2. RecordedAsIs(scan)'
    BY <1>1, <1>5, <2>1 DEF RecordedAsIs
  <2>3. \A a : Covered(scan, a) => Covered(scan', a)
    BY <1>4, <1>5, <2>1 DEF Covered
  <2>4. NothingPassed(scan)'
    BY <1>1, <1>5, <2>1, <2>3 DEF NothingPassed
  <2> QED  BY <2>2, <2>4
<1> QED  BY <1>1, <1>5, <1>6 DEF ScanInv

----------------------------------------------------------------------------
(* Counting the facts of a set of changes.                                 *)

\* An image has as many elements as the set, when no two have the same.
LEMMA ImageCount ==
  ASSUME NEW S, IsFiniteSet(S), NEW f, \A x, y \in S : f[x] = f[y] => x = y
  PROVE  IsFiniteSet({f[x] : x \in S}) /\ Cardinality({f[x] : x \in S}) = Cardinality(S)
<1> DEFINE T == {f[x] : x \in S}
           g == [x \in S |-> f[x]]
<1>1. g \in [S -> T] /\ \A t \in T : \E x \in S : g[x] = t
  OBVIOUS
<1>2. \A x, y \in S : g[x] = g[y] => x = y
  OBVIOUS
<1> HIDE DEF g, T
<1>3. g \in Surjection(S, T) /\ g \in Injection(S, T)
  BY <1>1, <1>2 DEF Surjection, Injection, IsInjective
<1>4. IsFiniteSet(T) /\ Cardinality(T) = Cardinality(S)
  BY <1>3, FS_Surjection
<1> QED  BY <1>4 DEF T

\* Changes that have no end in common.
Separate(changes) ==
  /\ \A c, d \in changes : {c.path, c.old} \cap {d.path, d.old} # {} => c = d
  /\ \A c \in changes : /\ c.path \in Path /\ c.old \in Path
                        /\ c.type = "renamed" => c.path # c.old

RenamedOf(changes) == {c \in changes : c.type = "renamed"}

LEMMA SeparateFinite ==
  ASSUME NEW C, Separate(C)
  PROVE  /\ IsFiniteSet(C) /\ IsFiniteSet(RenamedOf(C)) /\ FactCount(C) \in Nat
         /\ FactCount(C) = Cardinality(C) + Cardinality(RenamedOf(C))
         /\ \A c, d \in C : c.path = d.path => c = d
<1>1. \A c, d \in C : c.path = d.path => c = d
  BY DEF Separate
<1> DEFINE f == [c \in C |-> c.path]
<1>2. f \in [C -> Path] /\ \A c, d \in C : f[c] = f[d] => c = d
  BY <1>1 DEF Separate
<1> HIDE DEF f
<1>3. f \in Injection(C, Path)
  BY <1>2 DEF Injection, IsInjective
<1>4. IsFiniteSet(C)
  BY <1>3, FactsAssumption, FS_Injection
<1>5. IsFiniteSet(RenamedOf(C)) /\ Cardinality(RenamedOf(C)) \in Nat /\ Cardinality(C) \in Nat
  BY <1>4, FS_Subset, FS_CardinalityType DEF RenamedOf
<1> QED  BY <1>1, <1>4, <1>5 DEF FactCount, RenamedOf

\* Fewer changes are fewer facts.
LEMMA FewerFacts ==
  ASSUME NEW C, Separate(C), NEW D \in SUBSET C
  PROVE  /\ Separate(D) /\ FactCount(D) <= FactCount(C)
         /\ FactCount(D) = FactCount(C) => D = C
<1>1. Separate(D)
  BY DEF Separate
<1>2. RenamedOf(D) \subseteq RenamedOf(C)
  BY DEF RenamedOf
<1>3. /\ Cardinality(D) <= Cardinality(C) /\ Cardinality(RenamedOf(D)) <= Cardinality(RenamedOf(C))
      /\ Cardinality(D) = Cardinality(C) => C = D
  BY <1>2, SeparateFinite, FS_Subset
<1>4. /\ Cardinality(D) \in Nat /\ Cardinality(C) \in Nat
      /\ Cardinality(RenamedOf(D)) \in Nat /\ Cardinality(RenamedOf(C)) \in Nat
  BY <1>1, SeparateFinite, FS_CardinalityType
<1>5. /\ FactCount(D) = Cardinality(D) + Cardinality(RenamedOf(D))
      /\ FactCount(C) = Cardinality(C) + Cardinality(RenamedOf(C))
  BY <1>1, SeparateFinite
<1>6. FactCount(D) <= FactCount(C) /\ (FactCount(D) = FactCount(C) => Cardinality(D) = Cardinality(C))
  BY <1>3, <1>4, <1>5
<1> QED  BY <1>1, <1>3, <1>6

\* The operations that the facts of some changes tell of a path.
Told(changes, p) ==
  {IF c.type = "renamed" THEN "created" ELSE c.type : c \in {d \in changes : d.path = p}}
    \cup {"deleted" : c \in {d \in changes : d.type = "renamed" /\ d.old = p}}

\* Each fact is the component of one change, and they have different ranks.
LEMMA ComponentFacts ==
  ASSUME NEW C, Separate(C), NEW tree
  PROVE  LET kept == {c \in C : Nameable(c.path, tree) /\ Nameable(c.old, tree)}
             components == FileComponents(C, tree)
         IN  /\ IsFiniteSet(components) /\ Cardinality(components) = FactCount(kept)
             /\ \A f \in components : f.rank \in Nat
             /\ \A f, g \in components : f.rank = g.rank => f = g
             /\ kept = C => \A p \in Path :
                  {f.op : f \in {g \in components : g.from = p}} = Told(C, p)
<1> DEFINE N == {c \in C : Nameable(c.path, tree) /\ Nameable(c.old, tree)}
           M == RenamedOf(N)
           op(c) == IF c.type = "renamed" THEN "created" ELSE c.type
           one(c) == FileComponent(c, c.path, op(c), tree)
           two(c) == FileComponent(c, c.old, "deleted", tree)
           A == {one(c) : c \in N}
           B == {two(c) : c \in M}
<1>1. FileComponents(C, tree) = A \cup B
  <2>1. M = {c \in C : /\ c.type = "renamed"
                       /\ Nameable(c.path, tree) /\ Nameable(c.old, tree)}
    BY DEF RenamedOf
  <2> QED  BY <2>1 DEF FileComponents
<1>2. Separate(N)
  <2> HIDE DEF N
  <2>1. N \in SUBSET C
    BY DEF N
  <2> QED  BY <2>1, FewerFacts
<1>3. /\ IsFiniteSet(N) /\ IsFiniteSet(M) /\ FactCount(N) = Cardinality(N) + Cardinality(M)
      /\ M = {c \in N : c.type = "renamed"}
      /\ \A c, d \in N : c.path = d.path => c = d
      /\ \A c \in N : c.path \in Nat
  <2> HIDE DEF N
  <2>1. \A c \in N : c.path \in Path
    BY <1>2 DEF Separate
  <2> QED  BY <1>2, <2>1, SeparateFinite, FactsAssumption DEF RenamedOf
<1>4. \A c : /\ one(c).from = c.path /\ one(c).op = op(c)
             /\ one(c).rank = 2 * c.path + IF c.type = "renamed" /\ op(c) = "created"
                                           THEN 1 ELSE 0
             /\ two(c).from = c.old /\ two(c).op = "deleted"
             /\ two(c).rank = 2 * c.path + IF c.type = "renamed" /\ "deleted" = "created"
                                           THEN 1 ELSE 0
  BY DEF FileComponent
<1>5. /\ \A c \in N : one(c).rank = IF c.type = "renamed" THEN 2 * c.path + 1 ELSE 2 * c.path
      /\ \A c \in M : two(c).rank = 2 * c.path
  <2>1. \A c \in N : c.type = "renamed" => op(c) = "created"
    OBVIOUS
  <2> HIDE DEF op, one, two
  <2>2. ASSUME NEW c \in N
        PROVE  one(c).rank = IF c.type = "renamed" THEN 2 * c.path + 1 ELSE 2 * c.path
    <3>1. one(c).rank = 2 * c.path + IF c.type = "renamed" /\ op(c) = "created" THEN 1 ELSE 0
      BY <1>4
    <3>2. c.path \in Nat /\ (c.type = "renamed" => op(c) = "created")
      BY <1>3, <2>1
    <3> QED  BY <3>1, <3>2
  <2>3. ASSUME NEW c \in M PROVE two(c).rank = 2 * c.path
    <3>1. two(c).rank = 2 * c.path + IF c.type = "renamed" /\ "deleted" = "created" THEN 1 ELSE 0
      BY <1>4
    <3>2. c.path \in Nat
      BY <1>3
    <3> QED  BY <3>1, <3>2
  <2> QED  BY <2>2, <2>3
<1> HIDE DEF one, two, N, M
<1>6. \A c, d \in N : one(c).rank = one(d).rank => c = d
  BY <1>3, <1>5
<1>7. \A c, d \in M : two(c).rank = two(d).rank => c = d
  BY <1>3, <1>5
<1>8. \A c \in N, d \in M : one(c).rank # two(d).rank
  <2> SUFFICES ASSUME NEW c \in N, NEW d \in M, one(c).rank = two(d).rank PROVE FALSE
    OBVIOUS
  <2>1. d \in N /\ d.type = "renamed" /\ two(d).rank = 2 * d.path
    BY <1>3, <1>5
  <2>2. c.path \in Nat /\ d.path \in Nat
    BY <1>3, <2>1
  <2>3. CASE c.type = "renamed"
    BY <1>5, <2>1, <2>2, <2>3
  <2>4. CASE c.type # "renamed"
    <3>1. c.path = d.path
      BY <1>5, <2>1, <2>2, <2>4
    <3> QED  BY <1>3, <2>1, <2>4, <3>1
  <2> QED  BY <2>3, <2>4
<1>9. IsFiniteSet(A) /\ Cardinality(A) = Cardinality(N)
  <2> DEFINE f == [c \in N |-> one(c)]
  <2>1. A = {f[c] : c \in N} /\ \A c, d \in N : f[c] = f[d] => c = d
    BY <1>6
  <2> HIDE DEF f, A
  <2> QED  BY <1>3, <2>1, ImageCount
<1>10. IsFiniteSet(B) /\ Cardinality(B) = Cardinality(M)
  <2> DEFINE f == [c \in M |-> two(c)]
  <2>1. B = {f[c] : c \in M} /\ \A c, d \in M : f[c] = f[d] => c = d
    BY <1>7
  <2> HIDE DEF f, B
  <2> QED  BY <1>3, <2>1, ImageCount
<1>11. A \cap B = {}
  BY <1>8
<1>12. IsFiniteSet(A \cup B) /\ Cardinality(A \cup B) = Cardinality(N) + Cardinality(M)
  <2> HIDE DEF A, B
  <2>1. Cardinality(A \cap B) = 0
    BY <1>11, FS_EmptySet
  <2>2. Cardinality(A) \in Nat /\ Cardinality(B) \in Nat
    BY <1>3, <1>9, <1>10, FS_CardinalityType
  <2>3. /\ IsFiniteSet(A \cup B)
        /\ Cardinality(A \cup B) = Cardinality(A) + Cardinality(B) - Cardinality(A \cap B)
    BY <1>9, <1>10, FS_Union
  <2> QED  BY <1>9, <1>10, <2>1, <2>2, <2>3
<1>13. \A f \in A \cup B : f.rank \in Nat
  <2>1. \A c \in N : one(c).rank \in Nat
    BY <1>3, <1>5
  <2>2. \A c \in M : two(c).rank \in Nat
    <3>1. \A c \in M : c \in N
      BY <1>3
    <3> QED  BY <1>3, <1>5, <3>1
  <2> QED  BY <2>1, <2>2
<1>14. \A f, g \in A \cup B : f.rank = g.rank => f = g
  BY <1>6, <1>7, <1>8
<1>15. ASSUME N = C, NEW p \in Path
       PROVE  {f.op : f \in {g \in A \cup B : g.from = p}} = Told(C, p)
  <2> DEFINE L == {f.op : f \in {g \in A \cup B : g.from = p}}
             R == Told(C, p)
  <2>1. \A x : x \in L <=> \/ \E c \in N : one(c).from = p /\ x = one(c).op
                           \/ \E c \in M : two(c).from = p /\ x = two(c).op
    OBVIOUS
  <2>2. \A x : x \in R <=> \/ \E c \in N : c.path = p /\ x = op(c)
                           \/ \E c \in M : c.old = p /\ x = "deleted"
    BY <1>3, <1>15 DEF Told
  <2>3. /\ \A c : one(c).from = c.path /\ one(c).op = op(c)
        /\ \A c : two(c).from = c.old /\ two(c).op = "deleted"
    BY <1>4
  <2> HIDE DEF A, B, op, L, R
  <2>4. ASSUME NEW x, x \in L PROVE x \in R
    <3>1. CASE \E c \in N : one(c).from = p /\ x = one(c).op
      <4>1. PICK c \in N : one(c).from = p /\ x = one(c).op
        BY <3>1
      <4>2. c.path = p /\ x = op(c)
        BY <2>3, <4>1
      <4> QED  BY <2>2, <4>2
    <3>2. CASE \E c \in M : two(c).from = p /\ x = two(c).op
      <4>1. PICK c \in M : two(c).from = p /\ x = two(c).op
        BY <3>2
      <4>2. c.old = p /\ x = "deleted"
        BY <2>3, <4>1
      <4> QED  BY <2>2, <4>2
    <3> QED  BY <2>1, <2>4, <3>1, <3>2
  <2>5. ASSUME NEW x, x \in R PROVE x \in L
    <3>1. CASE \E c \in N : c.path = p /\ x = op(c)
      <4>1. PICK c \in N : c.path = p /\ x = op(c)
        BY <3>1
      <4>2. one(c).from = p /\ x = one(c).op
        BY <2>3, <4>1
      <4> QED  BY <2>1, <4>2
    <3>2. CASE \E c \in M : c.old = p /\ x = "deleted"
      <4>1. PICK c \in M : c.old = p /\ x = "deleted"
        BY <3>2
      <4>2. two(c).from = p /\ x = two(c).op
        BY <2>3, <4>1
      <4> QED  BY <2>1, <4>2
    <3> QED  BY <2>2, <2>5, <3>1, <3>2
  <2>6. L = R
    BY <2>4, <2>5
  <2> QED  BY <2>6 DEF L, R
<1>16. FileComponents(C, tree) = A \cup B
  BY <1>1
<1> HIDE DEF A, B, op
<1>17. /\ IsFiniteSet(FileComponents(C, tree))
       /\ Cardinality(FileComponents(C, tree)) = FactCount(N)
       /\ \A f \in FileComponents(C, tree) : f.rank \in Nat
       /\ \A f, g \in FileComponents(C, tree) : f.rank = g.rank => f = g
       /\ N = C => \A p \in Path :
            {f.op : f \in {g \in FileComponents(C, tree) : g.from = p}} = Told(C, p)
  BY <1>3, <1>12, <1>13, <1>14, <1>15, <1>16
<1> QED  BY <1>17 DEF N

----------------------------------------------------------------------------
(* The summary and the facts that are uploaded.                            *)

AllReasons == LossReasons \cup {"capture_incomplete", "capture_failed"}

SummaryType ==
  [status: {"complete", "partial"}, observed: Nat, retained: Nat, omitted: Nat,
   reasons: SUBSET AllReasons]
  \cup [status: {"unavailable"}, observed: {Unknown}, retained: Nat, omitted: {Unknown},
       reasons: SUBSET AllReasons]

\* A loss that is noted leaves a valid summary, and never a complete one.
LEMMA OmittingKeeps ==
  ASSUME NEW s \in SummaryType, NEW r \in Nat, ValidSummary(s, r), NEW n \in 0 .. r,
         NEW reason \in LossReasons
  PROVE  LET t == OmittingFacts(s, n, reason)
         IN  /\ t \in SummaryType /\ ValidSummary(t, r - n)
             /\ t.status = "complete" => n = 0 /\ s.status = "complete"
<1> DEFINE t == OmittingFacts(s, n, reason)
<1>1. CASE n = 0
  BY <1>1 DEF OmittingFacts
<1>2. CASE n # 0
  <2>1. r # 0 /\ s.retained = r
    BY <1>2 DEF ValidSummary
  <2>2. s.status # "unavailable"
    BY <2>1 DEF ValidSummary
  <2>3. s \in [status: {"complete", "partial"}, observed: Nat, retained: Nat, omitted: Nat,
              reasons: SUBSET AllReasons]
    BY <2>2 DEF SummaryType
  <2>4. /\ s.observed = s.retained + s.omitted /\ s.observed # Unknown
        /\ s.retained \in Nat /\ s.omitted \in Nat /\ s.observed \in Nat
        /\ s.reasons \subseteq LossReasons \cup {"capture_incomplete"}
    <3>1. s.retained \in Nat /\ s.omitted \in Nat /\ s.observed \in Nat
      BY <2>3
    <3>2. CASE s.status = "complete"
      <4>1. s.observed = s.retained + s.omitted /\ s.reasons = {}
        BY <3>2 DEF ValidSummary
      <4> QED  BY <3>1, <4>1 DEF Unknown
    <3>3. CASE s.status = "partial"
      <4>1. /\ s.observed = s.retained + s.omitted
            /\ s.reasons \subseteq LossReasons \cup {"capture_incomplete"}
        BY <3>3 DEF ValidSummary
      <4> QED  BY <3>1, <4>1 DEF Unknown
    <3> QED  BY <2>3, <3>2, <3>3
  <2> DEFINE u == [s EXCEPT !.retained = s.retained - n, !.omitted = s.omitted + n,
                     !.status = "partial", !.reasons = s.reasons \cup {reason}]
  <2>5. t = u
    BY <1>2, <2>3, <2>4 DEF OmittingFacts
  <2>6. s.omitted + n \in Nat /\ s.retained - n \in Nat /\ s.omitted + n > 0
        /\ s.observed = (s.retained - n) + (s.omitted + n)
    BY <1>2, <2>1, <2>4
  <2>7. /\ u \in SummaryType /\ u.retained = r - n /\ u.omitted = s.omitted + n
        /\ u.status = "partial" /\ u.reasons = s.reasons \cup {reason}
        /\ u.observed = s.observed
    <3>1. u \in [status: {"complete", "partial"}, observed: Nat, retained: Nat, omitted: Nat,
                reasons: SUBSET AllReasons]
      BY <2>3, <2>6 DEF AllReasons
    <3> QED  BY <2>1, <2>3, <3>1 DEF SummaryType
  <2>8. reason \notin {"capture_incomplete", "capture_failed"}
    BY DEF LossReasons
  <2> HIDE DEF u
  <2>9. ValidSummary(u, r - n)
    <3>1. u.observed = u.retained + u.omitted /\ u.observed # Unknown /\ u.omitted > 0
      BY <2>1, <2>4, <2>6, <2>7
    <3>2. u.reasons # {} /\ u.reasons \subseteq LossReasons \cup {"capture_incomplete"}
          /\ u.reasons \cap LossReasons # {}
      BY <2>4, <2>7
    <3> QED  BY <2>7, <3>1, <3>2 DEF ValidSummary
  <2> QED  BY <2>5, <2>7, <2>9
<1> QED  BY <1>1, <1>2

\* The summary before any loss of the projection.
LEMMA SummaryFacts ==
  ASSUME NEW failed \in BOOLEAN, NEW incomplete \in BOOLEAN, NEW observed \in Nat,
         NEW retained \in Nat, retained <= observed, failed => observed = 0
  PROVE  LET s == Summary(failed, incomplete, observed, retained)
         IN  /\ s \in SummaryType /\ ValidSummary(s, retained)
             /\ s.status = "complete" => ~failed /\ ~incomplete /\ observed = retained
<1> DEFINE reasons == (IF incomplete THEN {"capture_incomplete"} ELSE {})
                        \cup (IF observed > retained THEN {"privacy_filtered"} ELSE {})
           s == Summary(failed, incomplete, observed, retained)
<1> SUFFICES /\ s \in SummaryType /\ ValidSummary(s, retained)
             /\ s.status = "complete" => ~failed /\ ~incomplete /\ observed = retained
  OBVIOUS
<1>1. CASE failed
  <2>1. s = [status |-> "unavailable", observed |-> Unknown, retained |-> retained,
             omitted |-> Unknown, reasons |-> {"capture_failed"}]
    BY <1>1 DEF Summary
  <2>2. retained = 0
    BY <1>1
  <2>3. {"capture_failed"} \in SUBSET AllReasons
    BY DEF AllReasons
  <2>4. s \in SummaryType
    BY <2>1, <2>3 DEF SummaryType
  <2>5. s.status = "unavailable" /\ ValidSummary(s, retained)
    <3>1. /\ s.status = "unavailable" /\ s.observed = Unknown /\ s.omitted = Unknown
          /\ s.reasons = {"capture_failed"} /\ s.retained = retained
      BY <2>1
    <3> HIDE DEF s
    <3> QED  BY <2>2, <3>1 DEF ValidSummary
  <2> QED  BY <2>4, <2>5
<1>2. CASE ~failed
  <2>1. /\ "privacy_filtered" \in LossReasons /\ "capture_incomplete" \notin LossReasons
        /\ "capture_incomplete" # "privacy_filtered"
    BY DEF LossReasons
  <2>2. /\ reasons \subseteq LossReasons \cup {"capture_incomplete"}
        /\ reasons = {} <=> ~incomplete /\ ~(observed > retained)
        /\ "capture_incomplete" \in reasons <=> incomplete
        /\ observed > retained => "privacy_filtered" \in reasons \cap LossReasons
    BY <2>1
  <2> DEFINE status == IF reasons = {} THEN "complete" ELSE "partial"
  <2>3. s = [status |-> status, observed |-> observed, retained |-> retained,
             omitted |-> observed - retained, reasons |-> reasons]
    BY <1>2 DEF Summary
  <2> HIDE DEF reasons
  <2>4. /\ observed - retained \in Nat /\ observed = retained + (observed - retained)
        /\ observed - retained = 0 <=> ~(observed > retained)
        /\ observed # Unknown
        /\ observed - retained = 0 <=> observed = retained
        /\ observed - retained > 0 <=> observed > retained
    BY DEF Unknown
  <2>5. s.status = status /\ s.observed = observed /\ s.retained = retained
        /\ s.omitted = observed - retained /\ s.reasons = reasons
    BY <2>3
  <2>6. status \in {"complete", "partial"}
    OBVIOUS
  <2>7. s \in SummaryType
    <3>1. reasons \in SUBSET AllReasons
      BY <2>2 DEF AllReasons
    <3> QED  BY <2>3, <2>4, <2>6, <3>1 DEF SummaryType
  <2> HIDE DEF s
  <2>8. CASE reasons = {}
    <3>1. s.status = "complete" /\ observed = retained /\ ~incomplete
      BY <2>2, <2>4, <2>5, <2>8
    <3>2. s.observed = s.retained + s.omitted /\ s.omitted = 0 /\ s.reasons = {}
      BY <2>4, <2>5, <2>8, <3>1
    <3>3. ValidSummary(s, retained)
      <4>1. s.retained = retained
        BY <2>5
      <4> QED  BY <3>1, <3>2, <4>1 DEF ValidSummary
    <3> QED  BY <1>2, <2>7, <3>1, <3>3
  <2>9. CASE reasons # {}
    <3>1. s.status = "partial"
      BY <2>5, <2>9
    <3>a. s.observed = s.retained + s.omitted /\ s.observed # Unknown
      <4>1. s.observed = observed /\ s.retained = retained /\ s.omitted = observed - retained
        BY <2>5
      <4>2. observed = retained + (observed - retained) /\ observed # Unknown
        BY <2>4
      <4> QED  BY <4>1, <4>2
    <3>2. /\ s.observed = s.retained + s.omitted /\ s.observed # Unknown /\ s.reasons # {}
          /\ s.reasons \subseteq LossReasons \cup {"capture_incomplete"}
      BY <2>2, <2>5, <2>9, <3>a
    <3>3. s.omitted > 0 \/ "capture_incomplete" \in s.reasons
      <4>1. incomplete \/ observed > retained
        BY <2>2, <2>9
      <4> QED  BY <2>2, <2>4, <2>5, <4>1
    <3>4. s.omitted = 0 \/ s.reasons \cap LossReasons # {}
      <4>1. CASE observed > retained
        BY <2>2, <2>5, <4>1
      <4>2. CASE ~(observed > retained)
        BY <2>4, <2>5, <4>2
      <4> QED  BY <4>1, <4>2
    <3>5. ValidSummary(s, retained)
      BY <2>5, <3>1, <3>2, <3>3, <3>4 DEF ValidSummary
    <3>6. s.status # "complete"
      BY <3>1
    <3> QED  BY <2>7, <3>5, <3>6
  <2> QED  BY <2>8, <2>9 DEF s
<1> QED  BY <1>1, <1>2

\* The cut at the item limit and at the bytes: what is left is counted.
LEMMA FittedFacts ==
  ASSUME NEW components, IsFiniteSet(components), \A f \in components : f.rank \in Nat,
         \A f, g \in components : f.rank = g.rank => f = g,
         NEW s \in SummaryType, ValidSummary(s, Cardinality(components))
  PROVE  LET fitted == Fitted(components, s)
         IN  /\ ValidSummary(fitted.summary, Cardinality(fitted.facts))
             /\ fitted.summary.status = "complete" =>
                  s.status = "complete" /\ fitted.facts = components
<1> DEFINE total == Cardinality(components)
           places == Smaller(total + Logs, MaxComponents - 2)
           fitting == Smaller(places, MaxEnvelope - 3)
           counted == Smaller(total, places)
           kept == Smaller(total, fitting)
           items == OmittingFacts(s, total - counted, "component_limit")
           bytes == OmittingFacts(items, counted - kept, "byte_limit")
           L == MaxComponents - 2
           E == MaxEnvelope - 3
<1>1. total \in Nat /\ Logs \in Nat /\ MaxComponents - 2 \in Nat /\ MaxEnvelope - 3 \in Nat
  BY FactsAssumption, FS_CardinalityType
<1>2. /\ counted \in 0 .. total /\ kept \in 0 .. counted /\ kept \in 0 .. total
      /\ total - counted \in 0 .. total /\ counted - kept \in 0 .. counted
      /\ total - (total - counted) = counted /\ counted - (counted - kept) = kept
      /\ counted \in Nat /\ kept \in Nat
      /\ total - counted = 0 /\ counted - kept = 0 => kept = total
  <2>1. /\ places = Smaller(total + Logs, L) /\ fitting = Smaller(places, E)
        /\ L \in Nat /\ E \in Nat
    BY <1>1
  <2> HIDE DEF total, L, E
  <2>2. places \in Nat /\ places <= total + Logs
    BY <1>1, <2>1 DEF Smaller
  <2> HIDE DEF places
  <2>3. fitting \in Nat /\ fitting <= places
    BY <2>1, <2>2 DEF Smaller
  <2> HIDE DEF fitting
  <2>4. counted \in Nat /\ counted <= total /\ counted <= places
        /\ (counted = total \/ counted = places)
    BY <1>1, <2>2 DEF Smaller
  <2>5. kept \in Nat /\ kept <= total /\ kept <= fitting
    BY <1>1, <2>3 DEF Smaller
  <2>6. kept <= counted
    BY <1>1, <2>2, <2>3, <2>4, <2>5
  <2> HIDE DEF counted, kept
  <2> QED  BY <1>1, <2>4, <2>5, <2>6
<1>3. LET fitted == Fitted(components, s)
      IN  fitted.facts = First(components, kept) /\ fitted.summary = bytes
  BY DEF Fitted
<1> HIDE DEF counted, kept
<1>4. "component_limit" \in LossReasons /\ "byte_limit" \in LossReasons
  BY DEF LossReasons
<1>5. /\ items \in SummaryType /\ ValidSummary(items, counted)
      /\ items.status = "complete" => total - counted = 0 /\ s.status = "complete"
  <2>1. /\ items \in SummaryType /\ ValidSummary(items, total - (total - counted))
        /\ items.status = "complete" => total - counted = 0 /\ s.status = "complete"
    <3> HIDE DEF total
    <3> QED  BY <1>1, <1>2, <1>4, OmittingKeeps DEF total
  <2> QED  BY <1>2, <2>1
<1> HIDE DEF items
<1>6. /\ ValidSummary(bytes, kept)
      /\ bytes.status = "complete" => counted - kept = 0 /\ items.status = "complete"
  <2>1. /\ ValidSummary(bytes, counted - (counted - kept))
        /\ bytes.status = "complete" => counted - kept = 0 /\ items.status = "complete"
    BY <1>2, <1>4, <1>5, OmittingKeeps
  <2> QED  BY <1>2, <2>1
<1> HIDE DEF bytes
<1>7. First(components, kept) \subseteq components /\ Cardinality(First(components, kept)) = kept
  <2> DEFINE ord == [f \in components |-> f.rank]
  <2>1. ord \in [components -> Nat] /\ \A f, g \in components : ord[f] = ord[g] => f = g
    OBVIOUS
  <2>2. First(components, kept) = Foremost(components, ord, kept)
    <3>1. \A f \in components :
            {g \in components : g.rank < f.rank} = {g \in components : ord[g] < ord[f]}
      OBVIOUS
    <3> HIDE DEF ord
    <3> QED  BY <3>1 DEF First, Foremost
  <2> HIDE DEF ord
  <2>3. Cardinality(Foremost(components, ord, kept)) = kept
    BY <1>2, <2>1, FirstOnes
  <2> QED  BY <2>2, <2>3 DEF First
<1>8. kept = total => First(components, kept) = components
  BY <1>7, FS_Subset
<1> QED  BY <1>2, <1>3, <1>5, <1>6, <1>7, <1>8

\* build_runtime_evidence: whatever it drops, its summary is valid; and when
\* that is complete, the facts tell all that the changes tell.
LEMMA EvidenceFacts ==
  ASSUME NEW C, Separate(C), NEW tree, NEW s \in SummaryType, ValidSummary(s, FactCount(C))
  PROVE  LET evidence == RuntimeEvidence(C, s, tree)
         IN  /\ ValidSummary(evidence.summary, Cardinality(evidence.facts))
             /\ evidence.summary.status = "complete" =>
                  /\ s.status = "complete"
                  /\ \A p \in Path :
                       {f.op : f \in {g \in evidence.facts : g.from = p}} = Told(C, p)
<1> DEFINE N == {c \in C : Nameable(c.path, tree) /\ Nameable(c.old, tree)}
           components == FileComponents(C, tree)
           n == FactCount(C) - Cardinality(components)
           named == OmittingFacts(s, n, "path_filtered")
<1>1. /\ IsFiniteSet(components) /\ Cardinality(components) = FactCount(N)
      /\ \A f \in components : f.rank \in Nat
      /\ \A f, g \in components : f.rank = g.rank => f = g
      /\ N = C => \A p \in Path :
           {f.op : f \in {g \in components : g.from = p}} = Told(C, p)
  BY ComponentFacts
<1>2. FactCount(N) <= FactCount(C) /\ (FactCount(N) = FactCount(C) => N = C)
      /\ FactCount(N) \in Nat /\ FactCount(C) \in Nat
  <2>1. N \in SUBSET C
    OBVIOUS
  <2> HIDE DEF N
  <2>2. /\ Separate(N) /\ FactCount(N) <= FactCount(C)
        /\ FactCount(N) = FactCount(C) => N = C
    BY <2>1, FewerFacts
  <2> QED  BY <2>2, SeparateFinite
<1>3. RuntimeEvidence(C, s, tree) = Fitted(components, named)
  BY DEF RuntimeEvidence
<1> HIDE DEF N, components
<1>4. n \in 0 .. FactCount(C) /\ FactCount(C) - n = Cardinality(components)
      /\ (n = 0 => N = C) /\ "path_filtered" \in LossReasons
  BY <1>1, <1>2 DEF LossReasons
<1> HIDE DEF n
<1>5. /\ named \in SummaryType /\ ValidSummary(named, Cardinality(components))
      /\ named.status = "complete" => n = 0 /\ s.status = "complete"
  <2>1. /\ named \in SummaryType /\ ValidSummary(named, FactCount(C) - n)
        /\ named.status = "complete" => n = 0 /\ s.status = "complete"
    BY <1>2, <1>4, OmittingKeeps
  <2> QED  BY <1>4, <2>1
<1> HIDE DEF named
<1>6. /\ ValidSummary(Fitted(components, named).summary,
                      Cardinality(Fitted(components, named).facts))
      /\ Fitted(components, named).summary.status = "complete" =>
           named.status = "complete" /\ Fitted(components, named).facts = components
  BY <1>1, <1>5, FittedFacts
<1> QED  BY <1>1, <1>3, <1>4, <1>5, <1>6

----------------------------------------------------------------------------
(* The facts of a step.                                                    *)

\* The privacy filters leave some of the changes, and their facts.
LEMMA FilteredFacts ==
  ASSUME NEW found, Separate(found.changes),
         \A c \in found.changes : c = FileChange(c.type, c.path, c.old, c.before, c.after)
  PROVE  LET visible == WithoutSensitivePaths(found)
             result == WithoutSensitiveDiffs(visible)
         IN  /\ visible.changes \in SUBSET found.changes
             /\ Separate(visible.changes) /\ Separate(result.changes)
             /\ FactCount(result.changes) = FactCount(visible.changes)
             /\ \A p \in Path : Told(result.changes, p) = Told(visible.changes, p)
<1> DEFINE visible == WithoutSensitivePaths(found)
           V == visible.changes
           result == WithoutSensitiveDiffs(visible)
           R == result.changes
<1> SUFFICES /\ V \in SUBSET found.changes /\ Separate(V) /\ Separate(R)
             /\ FactCount(R) = FactCount(V)
             /\ \A p \in Path : Told(R, p) = Told(V, p)
  OBVIOUS
<1>1. V \in SUBSET found.changes
  BY DEF WithoutSensitivePaths
<1> HIDE DEF visible
<1>2. Separate(V) /\ \A c \in V : c = FileChange(c.type, c.path, c.old, c.before, c.after)
  BY <1>1, FewerFacts
<1>3. CASE ~UploadDiff
  BY <1>1, <1>2, <1>3 DEF WithoutSensitiveDiffs, visible
<1>4. CASE UploadDiff
  <2> DEFINE secret == {c \in V : c.diff /\ SecretText(c)}
             f == [c \in V |-> IF c \in secret
                               THEN [c EXCEPT !.diff = FALSE,
                                              !.reasons = @ \cup {"sensitive_content"}]
                               ELSE c]
  <2>1. R = {f[c] : c \in V}
    BY <1>4 DEF WithoutSensitiveDiffs
  <2>2. ASSUME NEW c \in V
        PROVE  f[c].path = c.path /\ f[c].old = c.old /\ f[c].type = c.type
    <3>1. CASE c \in secret
      <4>1. f[c] = [c EXCEPT !.diff = FALSE, !.reasons = @ \cup {"sensitive_content"}]
        BY <3>1
      <4>2. DOMAIN c = DOMAIN FileChange(c.type, c.path, c.old, c.before, c.after)
        BY <1>2
      <4>3. DOMAIN c = {"type", "path", "old", "before", "after", "complete", "reasons", "diff"}
        BY <4>2 DEF FileChange
      <4> HIDE DEF f
      <4> QED  BY <4>1, <4>3
    <3>2. CASE c \notin secret
      BY <3>2
    <3> QED  BY <3>1, <3>2
  <2> HIDE DEF f, R, V, secret
  <2>3. \A c, d \in V : f[c] = f[d] => c = d
    <3>1. \A c, d \in V : c.path = d.path => c = d
      BY <1>2, SeparateFinite
    <3> QED  BY <2>2, <3>1
  <2>4. Separate(R)
    <3>1. ASSUME NEW x \in R, NEW y \in R, {x.path, x.old} \cap {y.path, y.old} # {}
          PROVE  x = y
      <4>1. PICK c \in V : x = f[c]
        BY <2>1
      <4>2. PICK d \in V : y = f[d]
        BY <2>1
      <4>3. {c.path, c.old} \cap {d.path, d.old} # {}
        BY <2>2, <3>1, <4>1, <4>2
      <4> QED  BY <1>2, <4>1, <4>2, <4>3 DEF Separate
    <3>2. ASSUME NEW x \in R
          PROVE  /\ x.path \in Path /\ x.old \in Path
                 /\ x.type = "renamed" => x.path # x.old
      <4>1. PICK c \in V : x = f[c]
        BY <2>1
      <4>2. c.path \in Path /\ c.old \in Path /\ (c.type = "renamed" => c.path # c.old)
        BY <1>2 DEF Separate
      <4> QED  BY <2>2, <4>1, <4>2
    <3> QED  BY <3>1, <3>2 DEF Separate
  <2>5. FactCount(R) = FactCount(V)
    <3>1. RenamedOf(R) = {f[c] : c \in RenamedOf(V)}
      BY <2>1, <2>2 DEF RenamedOf
    <3>2. \A c \in RenamedOf(V) : c \in V
      BY DEF RenamedOf
    <3>3. IsFiniteSet(V) /\ IsFiniteSet(RenamedOf(V))
      BY <1>2, SeparateFinite
    <3>4. Cardinality(R) = Cardinality(V)
      BY <2>1, <2>3, <3>3, ImageCount
    <3>5. Cardinality(RenamedOf(R)) = Cardinality(RenamedOf(V))
      BY <2>3, <3>1, <3>2, <3>3, ImageCount
    <3> QED  BY <1>2, <2>4, <3>4, <3>5, SeparateFinite
  <2>6. ASSUME NEW p \in Path PROVE Told(R, p) = Told(V, p)
    <3>1. \A x : x \in Told(R, p) <=>
            \/ \E c \in R : c.path = p /\ x = (IF c.type = "renamed" THEN "created" ELSE c.type)
            \/ \E c \in R : c.type = "renamed" /\ c.old = p /\ x = "deleted"
      BY DEF Told
    <3>2. \A x : x \in Told(V, p) <=>
            \/ \E c \in V : c.path = p /\ x = (IF c.type = "renamed" THEN "created" ELSE c.type)
            \/ \E c \in V : c.type = "renamed" /\ c.old = p /\ x = "deleted"
      BY DEF Told
    <3>3. \A x : x \in Told(R, p) <=> x \in Told(V, p)
      BY <2>1, <2>2, <3>1, <3>2
    <3> QED  BY <3>3
  <2> QED  BY <1>1, <1>2, <2>4, <2>5, <2>6
<1> QED  BY <1>3, <1>4

\* What the changes of a comparison tell of a path.
ToldOf(before, after, p) ==
  LET told == Told(Compared(before, after).changes, p)
      gone == before[p] # NoEntry /\ after[p] = NoEntry
      new == before[p] = NoEntry /\ after[p] # NoEntry
      both == before[p] # NoEntry /\ after[p] # NoEntry
  IN  /\ gone => told = {"deleted"}
      /\ new => told = {"created"}
      /\ both /\ Changed(before[p], after[p]) => told = {"modified"}
      /\ ~gone /\ ~new /\ ~(both /\ Changed(before[p], after[p])) => told = {}

LEMMA ToldFacts ==
  ASSUME NEW before, NEW after, NEW p \in Path
  PROVE  ToldOf(before, after, p)
<1> DEFINE C == Compared(before, after).changes
           gone == before[p] # NoEntry /\ after[p] = NoEntry
           new == before[p] = NoEntry /\ after[p] # NoEntry
           edited == before[p] # NoEntry /\ after[p] # NoEntry /\ Changed(before[p], after[p])
<1>1. Explains(C, before, after) /\ Tells(C, before, after)
  BY ComparedExplains
<1> HIDE DEF C
<1>2. /\ p \in Recorded(before) <=> before[p] # NoEntry
      /\ p \in Recorded(after) <=> after[p] # NoEntry
  BY DEF Recorded
<1>3. ASSUME NEW c \in C, c.path = p
      PROVE  \/ new /\ c.type \in {"renamed", "created"}
             \/ gone /\ c.type = "deleted"
             \/ edited /\ c.type = "modified"
  BY <1>1, <1>2, <1>3 DEF Tells
<1>4. ASSUME NEW c \in C, c.type = "renamed", c.old = p PROVE gone
  BY <1>1, <1>2, <1>4 DEF Tells
<1>5. gone \/ new \/ edited =>
        \E c \in C : c.path = p \/ (c.type = "renamed" /\ c.old = p)
  BY <1>1 DEF Explains
<1>6. \A x : x \in Told(C, p) <=>
        \/ \E c \in C : c.path = p /\ x = (IF c.type = "renamed" THEN "created" ELSE c.type)
        \/ \E c \in C : c.type = "renamed" /\ c.old = p /\ x = "deleted"
  BY DEF Told
<1>7. \A x \in Told(C, p) : \/ new /\ x = "created"
                            \/ gone /\ x = "deleted"
                            \/ edited /\ x = "modified"
  <2> SUFFICES ASSUME NEW x \in Told(C, p)
               PROVE  \/ new /\ x = "created"
                      \/ gone /\ x = "deleted"
                      \/ edited /\ x = "modified"
    OBVIOUS
  <2>1. CASE \E c \in C : c.path = p /\ x = (IF c.type = "renamed" THEN "created" ELSE c.type)
    <3>1. PICK c \in C : c.path = p /\ x = (IF c.type = "renamed" THEN "created" ELSE c.type)
      BY <2>1
    <3>2. \/ new /\ c.type \in {"renamed", "created"}
          \/ gone /\ c.type = "deleted"
          \/ edited /\ c.type = "modified"
      BY <1>3, <3>1
    <3> HIDE DEF new, gone, edited
    <3> QED  BY <3>1, <3>2
  <2>2. CASE \E c \in C : c.type = "renamed" /\ c.old = p /\ x = "deleted"
    BY <1>4, <2>2
  <2> QED  BY <1>6, <2>1, <2>2
<1>8. gone \/ new \/ edited => Told(C, p) # {}
  <2> SUFFICES ASSUME gone \/ new \/ edited PROVE \E x : x \in Told(C, p)
    OBVIOUS
  <2>1. PICK c \in C : c.path = p \/ (c.type = "renamed" /\ c.old = p)
    BY <1>5
  <2> HIDE DEF gone, new, edited
  <2>2. CASE c.path = p
    BY <1>6, <2>2
  <2>3. CASE c.type = "renamed" /\ c.old = p
    BY <1>6, <2>3
  <2> QED  BY <2>1, <2>2, <2>3
<1>9. /\ ~(gone /\ new) /\ ~(gone /\ edited) /\ ~(new /\ edited)
  OBVIOUS
<1> HIDE DEF gone, new, edited
<1>10. /\ (gone => Told(C, p) = {"deleted"})
       /\ (new => Told(C, p) = {"created"})
       /\ (edited => Told(C, p) = {"modified"})
       /\ (~gone /\ ~new /\ ~edited => Told(C, p) = {})
  BY <1>7, <1>8, <1>9
<1> QED  BY <1>10 DEF ToldOf, C, gone, new, edited

\* What became of a path, told by its nodes at the two scans.
Became(before, after) ==
  IF before = Absent THEN IF after = Absent THEN "none" ELSE "created"
  ELSE IF after = Absent THEN "deleted"
  ELSE IF /\ before.kind = after.kind /\ before.data = after.data
          /\ before.version = after.version
       THEN "none" ELSE "modified"

LEMMA BecameFacts ==
  \A p : RealChange(p) = Became(baseline.disk[p], prepared.after.disk[p])
<1> TAKE p
<1> DEFINE before == baseline.disk[p]  after == prepared.after.disk[p]
<1> SUFFICES RealChange(p) = Became(before, after)
  OBVIOUS
<1>1. RealChange(p) =
        CASE before = Absent /\ after = Absent -> "none"
          [] before = Absent /\ after # Absent -> "created"
          [] before # Absent /\ after = Absent -> "deleted"
          [] OTHER -> IF /\ before.kind = after.kind /\ before.data = after.data
                         /\ before.version = after.version
                      THEN "none" ELSE "modified"
  BY DEF RealChange
<1> HIDE DEF before, after
<1>2. CASE before = Absent /\ after = Absent
  BY <1>1, <1>2 DEF Became
<1>3. CASE before = Absent /\ after # Absent
  BY <1>1, <1>3 DEF Became
<1>4. CASE before # Absent /\ after = Absent
  BY <1>1, <1>4 DEF Became
<1>5. CASE before # Absent /\ after # Absent
  BY <1>1, <1>5 DEF Became
<1> QED  BY <1>2, <1>3, <1>4, <1>5

\* Two complete Snapshots tell of a path that was left alone what became of it.
LEMMA ToldIsReal ==
  ASSUME NEW b, NEW a, Reliable(b), Reliable(a), Complete(b), Complete(a),
         NEW p \in Path \ Excluded, p \notin b.touched, p \notin a.touched
  PROVE  Told(Compared(b.entries, a.entries).changes, p)
           = {Became(b.disk[p], a.disk[p])} \ {"none"}
<1> DEFINE before == b.entries[p]  after == a.entries[p]
           was == b.disk[p]  is == a.disk[p]
           told == Told(Compared(b.entries, a.entries).changes, p)
<1> SUFFICES told = {Became(was, is)} \ {"none"}
  OBVIOUS
<1>1. /\ IF before = NoEntry THEN was = Absent ELSE Same(before, was)
      /\ IF after = NoEntry THEN is = Absent ELSE Same(after, is)
  BY DEF Reliable
<1>2. /\ before # NoEntry /\ after = NoEntry => told = {"deleted"}
      /\ before = NoEntry /\ after # NoEntry => told = {"created"}
      /\ before # NoEntry /\ after # NoEntry /\ Changed(before, after) => told = {"modified"}
      /\ before # NoEntry /\ after # NoEntry /\ ~Changed(before, after) => told = {}
      /\ before = NoEntry /\ after = NoEntry => told = {}
  <2> DEFINE gone == before # NoEntry /\ after = NoEntry
             new == before = NoEntry /\ after # NoEntry
             both == before # NoEntry /\ after # NoEntry
  <2>1. /\ gone => told = {"deleted"}
        /\ new => told = {"created"}
        /\ both /\ Changed(before, after) => told = {"modified"}
        /\ ~gone /\ ~new /\ ~(both /\ Changed(before, after)) => told = {}
    <3>1. p \in Path
      OBVIOUS
    <3>2. ToldOf(b.entries, a.entries, p)
      BY <3>1, ToldFacts
    <3> QED  BY <3>2 DEF ToldOf
  <2> HIDE DEF before, after, told
  <2> QED  BY <2>1
<1> HIDE DEF before, after, was, is, told
<1>3. CASE before = NoEntry \/ after = NoEntry
  BY <1>1, <1>2, <1>3 DEF Same, Became
<1>4. CASE before # NoEntry /\ after # NoEntry
  <2>1. Same(before, was) /\ Same(after, is)
    BY <1>1, <1>4
  <2>2. Changed(before, after) <=>
          \/ was.kind # is.kind \/ was.data # is.data \/ was.version # is.version
    BY <2>1 DEF Same, Changed
  <2>3. was # Absent /\ is # Absent
    BY <2>1 DEF Same
  <2>4. CASE Changed(before, after)
    BY <1>2, <1>4, <2>2, <2>3, <2>4 DEF Became
  <2>5. CASE ~Changed(before, after)
    BY <1>2, <1>4, <2>2, <2>3, <2>5 DEF Became
  <2> QED  BY <2>4, <2>5
<1> QED  BY <1>3, <1>4

\* The end of a scan.
LEMMA ScannedIsReliable ==
  ASSUME ScanInv, Scanned
  PROVE  Reliable(Snapshot(scan))
<1> DEFINE s == Snapshot(scan)
<1>1. /\ s.entries = scan.entries /\ s.touched = scan.touched /\ s.disk = disk
      /\ Complete(s) => scan.errors = {}
  BY DEF Snapshot, Complete
<1> HIDE DEF s
<1>2. ASSUME scan.errors = {}, NEW p \in Path \ (scan.touched \cup Excluded)
      PROVE  IF scan.entries[p] = NoEntry THEN disk[p] = Absent
             ELSE Same(scan.entries[p], disk[p])
  <2>1. RecordedAsIs(scan) /\ NothingPassed(scan)
    BY <1>2 DEF ScanInv
  <2>2. CASE scan.entries[p] = NoEntry
    <3>1. SUFFICES ASSUME disk[p] # Absent PROVE FALSE
      BY <2>2
    <3>2. \A a \in Above(p) \cap Path : Covered(scan, a)
      BY <2>1, <3>1 DEF NothingPassed
    <3>3. scan.entries[p] # NoEntry
      BY <3>2, CoveredAtEnd DEF Scanned
    <3> QED  BY <2>2, <3>3
  <2>3. CASE scan.entries[p] # NoEntry
    BY <2>1, <2>3 DEF RecordedAsIs
  <2> QED  BY <2>2, <2>3
<1>3. Reliable(s)
  BY <1>1, <1>2 DEF Reliable
<1> QED  BY <1>3 DEF s

\* The start of one.
LEMMA ScanningFacts ==
  /\ Scanning \in ScanFields /\ Scanning.looked = NoLook /\ Scanning.truncated = FALSE
  /\ \A a \in Path : Scanning.entries[a] = NoEntry /\ Covered(Scanning, a)
<1>1. Scanning \in ScanFields
  <2>1. <<Top>> \in Seq(Path \cup {Top}) /\ <<>> \in Seq(Path)
    OBVIOUS
  <2>2. Empty \in [Path -> SnapshotEntry \cup {NoEntry}]
    BY DEF Empty
  <2> QED  BY <2>1, <2>2 DEF Scanning, ScanFields
<1>2. /\ Scanning.looked = NoLook /\ Scanning.truncated = FALSE /\ Scanning.pending = <<Top>>
      /\ Scanning.entries = Empty
  BY DEF Scanning
<1>3. \A p \in Path : Empty[p] = NoEntry
  BY DEF Empty
<1>4. \A a \in Path : Covered(Scanning, a)
  <2> SUFFICES ASSUME NEW a \in Path PROVE Covered(Scanning, a)
    OBVIOUS
  <2>1. CASE Folder[a] = Top
    <3>1. 1 \in 1 .. Len(Scanning.pending) /\ Scanning.pending[1] = Top
      BY <1>2
    <3> QED  BY <2>1, <3>1 DEF Covered, Among
  <2>2. CASE Folder[a] \in Path
    BY <1>2, <1>3, <2>2 DEF Covered
  <2> QED  BY <2>1, <2>2, FactsAssumption
<1> QED  BY <1>1, <1>2, <1>3, <1>4

LEMMA ScanStarts ==
  /\ scan = Scanning => ScanInv
  /\ scan' = Scanning => ScanInv'
BY ScanningFacts DEF ScanInv, RecordedAsIs, NothingPassed

\* The facts of a Submission are prepared from two Snapshots.
LEMMA PrepareFilesKeeps ==
  ASSUME ScanInv, Reliable(baseline), PrepareFiles
  PROVE  /\ SummaryIsTrue' /\ Reliable(prepared'.after) /\ baseline' = baseline
         /\ disk' = disk /\ writes' = writes /\ scan' = Scanning
<1> DEFINE after == Snapshot(scan)
           failed == Failed(baseline) \/ Failed(after)
           found == IF failed THEN NoComparison ELSE Compared(baseline.entries, after.entries)
           visible == WithoutSensitivePaths(found)
           observed == FactCount(found.changes)
           retained == FactCount(visible.changes)
           incomplete == \/ ~Complete(baseline) \/ ~Complete(after)
                         \/ \E c \in visible.changes : ~c.complete
           result == WithoutSensitiveDiffs(visible)
           summary == Summary(failed, incomplete, observed, retained)
           evidence == RuntimeEvidence(result.changes, summary, disk)
<1>1. /\ baseline' = baseline /\ disk' = disk /\ writes' = writes /\ scan' = Scanning
      /\ prepared' = [staged |-> TRUE, found |-> found.changes, after |-> after,
                      changes |-> result.changes, local_diffs |-> result.local_diffs,
                      facts |-> evidence.facts, summary |-> evidence.summary,
                      dropped |-> evidence.dropped]
  BY DEF PrepareFiles
<1>2. prepared'.after = after /\ prepared'.facts = evidence.facts
      /\ prepared'.summary = evidence.summary
  BY <1>1
<1>3. Reliable(after)
  BY ScannedIsReliable DEF PrepareFiles
<1> HIDE DEF after
<1>4. /\ Separate(found.changes)
      /\ \A c \in found.changes : c = FileChange(c.type, c.path, c.old, c.before, c.after)
      /\ failed => found.changes = {}
  <2>1. CASE failed
    <3>1. found.changes = {}
      BY <2>1 DEF NoComparison
    <3> HIDE DEF found
    <3> QED  BY <3>1 DEF Separate
  <2>2. CASE ~failed
    <3> DEFINE C == Compared(baseline.entries, after.entries).changes
    <3>1. found.changes = C
      BY <2>2
    <3>2. /\ Explains(C, baseline.entries, after.entries)
          /\ Tells(C, baseline.entries, after.entries)
      BY ComparedExplains
    <3> HIDE DEF C, found
    <3>3. Separate(C)
      BY <3>2 DEF Separate, Explains, Tells
    <3> QED  BY <2>2, <3>1, <3>2, <3>3 DEF Tells
  <2> QED  BY <2>1, <2>2
<1>5. /\ visible.changes \in SUBSET found.changes
      /\ Separate(visible.changes) /\ Separate(result.changes)
      /\ FactCount(result.changes) = FactCount(visible.changes)
      /\ \A p \in Path : Told(result.changes, p) = Told(visible.changes, p)
  <2> HIDE DEF found
  <2> QED  BY <1>4, FilteredFacts
<1> HIDE DEF found, visible, result
<1>6. /\ observed \in Nat /\ retained \in Nat /\ retained <= observed
      /\ retained = observed => visible.changes = found.changes
      /\ failed => observed = 0
  <2>1. FactCount({}) = 0
    <3>1. {c \in {} : c.type = "renamed"} = {}
      OBVIOUS
    <3> QED  BY <3>1, FS_EmptySet DEF FactCount
  <2> QED  BY <1>4, <1>5, <2>1, SeparateFinite, FewerFacts
<1>7. failed \in BOOLEAN /\ incomplete \in BOOLEAN
  OBVIOUS
<1>8. incomplete = FALSE => Complete(baseline) /\ Complete(after)
  OBVIOUS
<1>9. failed = FALSE => found = Compared(baseline.entries, after.entries)
  BY DEF found
<1> HIDE DEF failed, incomplete, observed, retained
<1>10. /\ summary \in SummaryType /\ ValidSummary(summary, retained)
       /\ summary.status = "complete" => ~failed /\ ~incomplete /\ observed = retained
  BY <1>6, <1>7, SummaryFacts
<1> HIDE DEF summary
<1>11. /\ ValidSummary(evidence.summary, Cardinality(evidence.facts))
       /\ evidence.summary.status = "complete" =>
            /\ summary.status = "complete"
            /\ \A p \in Path :
                 {f.op : f \in {g \in evidence.facts : g.from = p}} = Told(result.changes, p)
  BY <1>5, <1>10, EvidenceFacts DEF retained
<1> HIDE DEF evidence
<1>12. ASSUME evidence.summary.status = "complete", NEW p \in Path \ Excluded,
              p \notin baseline.touched, p \notin after.touched
       PROVE  {f.op : f \in {g \in evidence.facts : g.from = p}}
                = {Became(baseline.disk[p], after.disk[p])} \ {"none"}
  <2>1. /\ Complete(baseline) /\ Complete(after) /\ visible.changes = found.changes
        /\ found = Compared(baseline.entries, after.entries)
    BY <1>6, <1>7, <1>8, <1>9, <1>10, <1>11, <1>12
  <2>2. Told(result.changes, p) = Told(found.changes, p)
    BY <1>5, <2>1
  <2>3. Told(found.changes, p) = {Became(baseline.disk[p], after.disk[p])} \ {"none"}
    BY <1>3, <1>12, <2>1, ToldIsReal
  <2> QED  BY <1>11, <1>12, <2>2, <2>3
<1>13. (\A p : RealChange(p) = Became(baseline.disk[p], prepared.after.disk[p]))'
  BY BecameFacts, PTL
<1>14. \A p : RealChange(p)' = Became(baseline.disk[p], after.disk[p])
  BY <1>1, <1>2, <1>13
<1>15. CompleteIsTrue'
  BY <1>1, <1>2, <1>12, <1>14 DEF CompleteIsTrue, Quiet
<1> QED  BY <1>1, <1>2, <1>3, <1>11, <1>15 DEF SummaryIsTrue

----------------------------------------------------------------------------
(* The whole walk.                                                         *)

LEMMA FileStart == FileInit => FInv
<1> SUFFICES ASSUME FileInit PROVE FInv
  OBVIOUS
<1>1. TreeInv
  BY ScanAssumption DEF FileInit, TreeInv
<1>2. ScanInv
  <2>1. scan = Scanning
    BY DEF FileInit
  <2> QED  BY <2>1, ScanStarts
<1>3. Reliable(baseline)
  BY DEF FileInit, NoSnapshot, Reliable, Complete
<1>4. step # "prepared"
  BY DEF FileInit
<1> QED  BY <1>1, <1>2, <1>3, <1>4 DEF FInv, SummaryIsTrue

LEMMA FileStep == FInv /\ [FileNext]_fileVars => FInv'
<1> SUFFICES ASSUME FInv, [FileNext]_fileVars PROVE FInv'
  OBVIOUS
<1>1. /\ TreeInv /\ ScanInv /\ Reliable(baseline) /\ SummaryIsTrue
      /\ step = "prepared" => Reliable(prepared.after)
  BY DEF FInv
<1>2. ASSUME TreeInv', ScanInv', UNCHANGED <<step, baseline, prepared>> PROVE FInv'
  <2>1. SummaryIsTrue'
    BY <1>1, <1>2 DEF SummaryIsTrue, CompleteIsTrue, Quiet, RealChange
  <2> QED  BY <1>1, <1>2, <2>1 DEF FInv
<1>3. UNCHANGED <<disk, writes>> => TreeInv'
  BY <1>1 DEF TreeInv
<1>4. ASSUME \/ \E p \in Touchable : ProgramCreates(p) \/ ProgramModifies(p) \/ ProgramDeletes(p)
             \/ \E p, q \in Touchable : ProgramRenames(p, q)
      PROVE  FInv'
  BY <1>1, <1>2, <1>4, ProgramsKeep
<1>5. ASSUME OpenDirectory \/ LookAtChild \/ ReadChild \/ CloseDirectory PROVE FInv'
  <2>1. UNCHANGED <<disk, writes, step, baseline, prepared>>
    BY <1>5 DEF OpenDirectory, LookAtChild, ReadChild, CloseDirectory
  <2>2. ScanInv'
    BY <1>1, <1>5, OpenDirectoryKeeps, LookAtChildKeeps, ReadChildKeeps, CloseDirectoryKeeps
  <2> QED  BY <1>2, <1>3, <2>1, <2>2
<1>6. ASSUME BeginBaseline \/ BeginFinal PROVE FInv'
  <2>1. /\ UNCHANGED <<disk, writes, baseline>> /\ scan' = Scanning /\ step' # "prepared"
    BY <1>6 DEF BeginBaseline, BeginFinal
  <2> QED  BY <1>1, <1>3, <2>1, ScanStarts DEF FInv, SummaryIsTrue
<1>7. ASSUME FreezeBaseline PROVE FInv'
  <2>1. /\ UNCHANGED <<disk, writes>> /\ scan' = Scanning /\ step' # "prepared"
        /\ baseline' = Snapshot(scan) /\ Scanned
    BY <1>7 DEF FreezeBaseline
  <2>2. Reliable(baseline')
    BY <1>1, <2>1, ScannedIsReliable
  <2>3. Reliable(baseline)'
    BY <2>2 DEF Reliable, Complete, Same
  <2> QED  BY <1>3, <2>1, <2>3, ScanStarts DEF FInv, SummaryIsTrue
<1>8. ASSUME PrepareFiles PROVE FInv'
  <2>1. /\ SummaryIsTrue' /\ Reliable(prepared'.after) /\ baseline' = baseline
        /\ disk' = disk /\ writes' = writes /\ scan' = Scanning
    BY <1>1, <1>8, PrepareFilesKeeps
  <2>2. Reliable(baseline)' /\ Reliable(prepared.after)'
    BY <1>1, <2>1
  <2> QED  BY <1>3, <2>1, <2>2, ScanStarts DEF FInv
<1>9. ASSUME AbortFiles PROVE FInv'
  <2>1. UNCHANGED <<disk, writes, scan, baseline>> /\ step' # "prepared"
    BY <1>9 DEF AbortFiles, KeptBaseline
  <2>2. ScanInv'
    BY <1>1, <2>1 DEF ScanInv, RecordedAsIs, NothingPassed
  <2> QED  BY <1>1, <1>3, <2>1, <2>2 DEF FInv, SummaryIsTrue
<1>10. ASSUME EndStep PROVE FInv'
  <2>1. UNCHANGED <<disk, writes, scan>> /\ step' # "prepared" /\ baseline' = NoSnapshot
    BY <1>10 DEF EndStep
  <2>2. ScanInv'
    BY <1>1, <2>1 DEF ScanInv, RecordedAsIs, NothingPassed
  <2>3. Reliable(baseline)'
    BY <2>1 DEF Reliable, Complete, NoSnapshot
  <2> QED  BY <1>3, <2>1, <2>2, <2>3 DEF FInv, SummaryIsTrue
<1>11. ASSUME UNCHANGED fileVars PROVE FInv'
  <2>1. UNCHANGED <<disk, writes, scan, step, baseline, prepared>>
    BY <1>11 DEF fileVars
  <2>2. ScanInv'
    BY <1>1, <2>1 DEF ScanInv, RecordedAsIs, NothingPassed
  <2> QED  BY <1>2, <1>3, <2>1, <2>2
<1> QED  BY <1>4, <1>5, <1>6, <1>7, <1>8, <1>9, <1>10, <1>11 DEF FileNext

\* Whatever the programs write while a scan runs, a Snapshot without an error
\* is the disk as it was when the scan ended, but for what they wrote.
THEOREM FileInvariance == FileSpec => []FInv
BY FileStart, FileStep, PTL DEF FileSpec

\* The summary that is uploaded is valid for the facts beside it, and a
\* complete one tells of every path that was left alone what became of it.
THEOREM SummaryAlwaysTrue == FileSpec => []SummaryIsTrue
<1>1. FInv => SummaryIsTrue
  BY DEF FInv
<1> QED  BY <1>1, FileInvariance, PTL

=============================================================================

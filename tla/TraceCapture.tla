---------------------------- MODULE TraceCapture ----------------------------
(***************************************************************************)
(* TraceEvidenceCapture: the spans and log records of a process, collected *)
(* while the window of a Run step is open, staged when the step is         *)
(* prepared, and charged to the Run when its Submission commits.           *)
(*                                                                         *)
(* A span is registered when it starts and exported when it ends, on any   *)
(* thread.  Its export releases the lock twice: the registration is taken, *)
(* the span is counted, then mapped outside the lock, then retained.  The  *)
(* Run's thread opens, snapshots, commits, aborts and cancels between any  *)
(* two of those.                                                           *)
(*                                                                         *)
(* Abstractions: a span has a size, perhaps one model body, a parent and a *)
(* priority; its attributes are left out, so the only field it can lose is *)
(* the body.  The flush of the SDK's own processors returns True and does  *)
(* nothing.  OTel ends a span once, so no identity is retained twice.      *)
(***************************************************************************)
EXTENDS SpanContent, Sequences

CONSTANTS
  Unmappable,   \* spans and log records whose mapping raises
  Record,       \* OTel log records, one byte each
  Workloads,    \* the sets of spans and records the program may produce
  MaxSpans,     \* limits.max_spans
  MaxOpen,      \* registrations of a step, 4 * max_spans in the code
  MaxBytes,     \* limits.max_total_bytes
  ArtifactBytes, \* RUNTIME_EVIDENCE_MAX_BYTES
  MaxRecords,   \* limits.max_log_records
  MaxLogBytes,  \* limits.max_log_bytes
  MaxSteps      \* bound on the steps of the process

ASSUME TraceLimitsAssumption ==
  /\ {MaxSpans, MaxOpen, MaxRecords, MaxLogBytes} \subseteq Nat \ {0}
  /\ MaxBytes \in Nat \ {0} /\ ArtifactBytes \in Nat \ {0} /\ MaxSteps \in Nat
ASSUME TraceSpansAssumption ==
  /\ Workloads \subseteq SUBSET (Span \cup Record)

VARIABLES
  capture,   \* the fields of the capture that its lock protects
  exporting, \* each span: how far its life and its export have come
  begun,     \* the spans in the order of their start times
  logging,   \* each log record: how far its export has come
  staged,    \* the PreparedTraceEvidence of the Run's step
  charged    \* history: how often each span was counted as observed

traceVars == <<capture, exporting, begun, logging, staged, charged>>

----------------------------------------------------------------------------
(* State.                                                                  *)

NoBucket == [exists |-> FALSE]

Bucket ==
  [exists: {TRUE}, spans: SUBSET Item, bytes: Nat, dropped: 0 .. MaxDropped,
   reasons: SUBSET Reasons, observed: Nat, fields: Nat,
   kept: SUBSET Record, dropped_logs: Nat, observed_logs: Nat,
   log_reasons: SUBSET {"mapping", "limit", "byte_limit"}]

EmptyBucket ==
  [exists |-> TRUE, spans |-> {}, bytes |-> 0, dropped |-> 0, reasons |-> {},
   observed |-> 0, fields |-> 0, kept |-> {}, dropped_logs |-> 0,
   observed_logs |-> 0, log_reasons |-> {}]

\* "open": started, not ended.  "popped": its registration was taken.
\* "mapping": counted, mapped outside the lock.  "missed": counted, but the
\* window was closed when its mapping ended.  window: the association.
Phases == {"unstarted", "open", "popped", "mapping", "missed", "done"}

NoStage == [prepared |-> FALSE]

Staged ==
  [prepared: {TRUE}, evidence: BOOLEAN, spans: SUBSET Item, dropped: 0 .. MaxDropped,
   reasons: SUBSET Reasons, observed: Nat, fields: Nat, size: Nat,
   status: {"complete", "partial", "failed"},
   logs: Nat, dropped_logs: Nat, observed_logs: Nat, log_size: Nat,
   log_status: {"complete", "partial", "failed"},
   in_flight: Nat, logs_in_flight: Nat] \* history: counted, not retained

\* _note_drop: count what was lost and why.
Dropping(b, count, reason) ==
  [b EXCEPT !.dropped = Saturated(b.dropped + count),
            !.reasons = @ \cup {reason}
                          \cup (IF b.dropped + count > MaxDropped
                                THEN {"saturated"} ELSE {})]

\* One more span is counted.
Observing(b) == [b EXCEPT !.observed = @ + 1]

\* Mutant: sampling leaves a reason but no count.
MutSampling(b) == [b EXCEPT !.reasons = @ \cup {"span_limit"}]

\* _note_sampled_span.
Sampling(b) == Dropping(b, 1, "span_limit")

\* An export of window w finds its association active, with its bucket.
InWindow(w) == capture.active /\ w = capture.window /\ capture.bucket.exists

\* What the current window has counted but neither retained nor dropped.
Under(export, items) ==
  {x \in items : /\ export[x].phase \in {"mapping", "missed"}
                 /\ export[x].window = capture.window}
InFlight == Under(exporting, Span)
LogsInFlight == Under(logging, Record)

----------------------------------------------------------------------------
(* Choices made under the lock.                                            *)

\* _sample_replacement: the retained spans the candidate may push out, the
\* lowest priority of those that are no parent; {} when it has to give way.
Replacements(items, s) ==
  LET retained == {i.span : i \in items}
      protected == {Parent[t] : t \in retained \cup {s}} \ {NoSpan}
      free == retained \ protected
  IN  {t \in free : /\ \A u \in free \ {t} : Before(u, t, protected)
                    /\ Before(s, t, protected)}

StartOrder(s) == CHOOSE n \in 1 .. Len(begun) : begun[n] = s
Earliest(items, n) ==
  {i \in items :
     Cardinality({j \in items : StartOrder(j.span) < StartOrder(i.span)}) < n}

\* Mutant: the bytes of the Run's earlier steps are forgotten.
MutLeast(a, b) == b

Least(a, b) == IF a < b THEN a ELSE b

----------------------------------------------------------------------------
(* Spans.                                                                  *)

TraceInit ==
  /\ capture = [active |-> FALSE, window |-> 0, bucket |-> NoBucket,
                registered |-> {}, prewindow |-> {},
                run_bytes |-> 0, run_log_bytes |-> 0]
  /\ \E work \in Workloads :
       /\ exporting = [s \in Span |->
            [phase |-> IF s \in work THEN "unstarted" ELSE "done", window |-> 0]]
       /\ logging = [r \in Record |->
            [phase |-> IF r \in work THEN "unstarted" ELSE "done", window |-> 0]]
  /\ begun = <<>>
  /\ staged = NoStage
  /\ charged = [s \in Span |-> 0]

\* register_span, called when s starts.
RegisterSpan(s) ==
  /\ exporting[s].phase = "unstarted"
  /\ Parent[s] \in Span => exporting[Parent[s]].phase # "unstarted"
  /\ exporting' = [exporting EXCEPT ![s].phase = "open"]
  /\ begun' = Append(begun, s)
  /\ \/ /\ ~capture.active
        /\ capture' = [capture EXCEPT !.prewindow =
             IF Cardinality(@) < MaxOpen THEN @ \cup {s} ELSE @]
        /\ UNCHANGED charged
     \/ /\ capture.active /\ Cardinality(capture.registered) < MaxOpen
        /\ capture' = [capture EXCEPT !.registered = @ \cup {s}]
        /\ UNCHANGED charged
     \/ /\ capture.active /\ Cardinality(capture.registered) >= MaxOpen
        /\ capture' = [capture EXCEPT !.bucket = Sampling(Observing(@))]
        /\ charged' = [charged EXCEPT ![s] = @ + 1]
  /\ UNCHANGED <<logging, staged>>

\* export_registered_span: s ends, and its registration is taken.
ExportRegisteredSpan(s) ==
  /\ exporting[s].phase = "open"
  /\ \/ /\ s \in capture.registered
        /\ capture' = [capture EXCEPT !.registered = @ \ {s}]
        /\ exporting' = [exporting EXCEPT
             ![s] = [phase |-> "popped", window |-> capture.window]]
        /\ UNCHANGED charged
     \/ /\ s \notin capture.registered
        /\ exporting' = [exporting EXCEPT ![s].phase = "done"]
        /\ IF s \in capture.prewindow /\ capture.active
             THEN /\ capture' = [capture EXCEPT
                       !.prewindow = @ \ {s},
                       !.bucket = Dropping(Observing(@), 1, "outside_window")]
                  /\ charged' = [charged EXCEPT ![s] = @ + 1]
             ELSE /\ capture' = [capture EXCEPT !.prewindow = @ \ {s}]
                  /\ UNCHANGED charged
  /\ UNCHANGED <<begun, logging, staged>>

\* export_span: the span is counted, if its window is still open.
ExportSpan(s) ==
  /\ exporting[s].phase = "popped"
  /\ \/ /\ InWindow(exporting[s].window)
        /\ capture' = [capture EXCEPT !.bucket = Observing(@)]
        /\ exporting' = [exporting EXCEPT ![s].phase = "mapping"]
        /\ charged' = [charged EXCEPT ![s] = @ + 1]
     \/ /\ ~InWindow(exporting[s].window)
        /\ exporting' = [exporting EXCEPT ![s].phase = "done"]
        /\ UNCHANGED <<capture, charged>>
  /\ UNCHANGED <<begun, logging, staged>>

\* _retain_sampled_span with _fit_model_buffer: the candidate takes a free
\* place or another span's, after model bodies made room, or is dropped.
Retaining(b, s) ==
  LET candidate == Mapped(s)
      replaced == IF Cardinality(b.spans) < MaxSpans THEN {}
                  ELSE {i \in b.spans : i.span \in Replacements(b.spans, s)}
      room == MaxBytes - capture.run_bytes
      wanted == (b.spans \ replaced) \cup {candidate}
      omitted == Omissions(wanted, room)
      fitted == Omitting(wanted, omitted)
      others == {i \in fitted : i.span # s} \cup replaced
      reduced == IF omitted = 0 THEN b
                 ELSE [Dropping(b, omitted, "model_content_size_limit")
                         EXCEPT !.spans = others, !.bytes = Bytes(others),
                                !.fields = @ + omitted]
      held == [reduced EXCEPT !.spans = fitted,
                 !.bytes = @ + Bytes({i \in fitted : i.span = s}) - Bytes(replaced)]
  IN  IF Cardinality(b.spans) >= MaxSpans /\ replaced = {} THEN Sampling(b)
      ELSE IF Bytes(fitted) > room THEN Dropping(reduced, 1, "byte_limit")
      ELSE IF replaced = {} THEN held
      ELSE Sampling(held)

\* The mapping of s has ended: record_failure or _retain_sampled_span.
RetainSpan(s) ==
  /\ exporting[s].phase = "mapping"
  /\ exporting' = [exporting EXCEPT
       ![s].phase = IF InWindow(exporting[s].window) THEN "done" ELSE "missed"]
  /\ \/ /\ InWindow(exporting[s].window) /\ s \in Unmappable
        /\ capture' = [capture EXCEPT !.bucket = Dropping(@, 1, "mapping")]
     \/ /\ InWindow(exporting[s].window) /\ s \notin Unmappable
        /\ capture' = [capture EXCEPT !.bucket = Retaining(@, s)]
     \/ /\ ~InWindow(exporting[s].window)
        /\ UNCHANGED capture
  /\ UNCHANGED <<begun, logging, staged, charged>>

----------------------------------------------------------------------------
(* Log records.                                                            *)

\* export_log_record: counted for the active step, then mapped.
ExportLogRecord(r) ==
  /\ logging[r].phase = "unstarted"
  /\ \/ /\ capture.active
        /\ capture' = [capture EXCEPT !.bucket.observed_logs = @ + 1]
        /\ logging' = [logging EXCEPT
             ![r] = [phase |-> "mapping", window |-> capture.window]]
     \/ /\ ~capture.active
        /\ logging' = [logging EXCEPT ![r].phase = "done"]
        /\ UNCHANGED capture
  /\ UNCHANGED <<exporting, begun, staged, charged>>

\* _drop_log.
DroppingLog(b, reason) ==
  [b EXCEPT !.dropped_logs = @ + 1, !.log_reasons = @ \cup {reason}]

KeepingLog(b, r) == [b EXCEPT !.kept = @ \cup {r}]

\* Its mapping has ended, within the limits or not.
RetainLogRecord(r) ==
  /\ logging[r].phase = "mapping"
  /\ logging' = [logging EXCEPT
       ![r].phase = IF InWindow(logging[r].window) THEN "done" ELSE "missed"]
  /\ IF ~InWindow(logging[r].window) THEN UNCHANGED capture
     ELSE capture' = [capture EXCEPT !.bucket =
       CASE r \in Unmappable -> DroppingLog(@, "mapping")
         [] r \notin Unmappable /\ Cardinality(@.kept) >= MaxRecords ->
              DroppingLog(@, "limit")
         [] r \notin Unmappable /\ Cardinality(@.kept) < MaxRecords ->
              IF Cardinality(@.kept) + 1 > MaxLogBytes
                THEN DroppingLog(@, "byte_limit")
                ELSE KeepingLog(@, r)]
  /\ UNCHANGED <<exporting, begun, staged, charged>>

----------------------------------------------------------------------------
(* The Run's thread.                                                       *)

\* begin_step.
BeginStep ==
  /\ ~capture.active /\ ~staged.prepared /\ capture.window < MaxSteps
  /\ capture' = [capture EXCEPT !.active = TRUE, !.window = @ + 1,
                                !.bucket = EmptyBucket]
  /\ UNCHANGED <<exporting, begun, logging, staged, charged>>

\* _fit_evidence: bodies go first, then the spans that started last, until
\* the envelope (one byte) fits what the Run has left.
Fitting(items) ==
  LET left == MaxBytes - capture.run_bytes
      available == IF \E i \in items : BodySize[i.span] > 0
                   THEN Least(left, ArtifactBytes) ELSE left
      omitted == Omissions(items, available - 1)
      lean == Omitting(items, omitted)
      n == Cardinality(items)
      popped == Min({k \in 0 .. n : k = n \/ Bytes(Earliest(lean, n - k)) < available})
  IN  [fits |-> Bytes(Earliest(lean, n - popped)) < available,
       omitted |-> omitted, popped |-> popped,
       spans |-> Earliest(lean, n - popped)]

\* build_log_segment: a suffix of the records is left out until they fit.
LogSegment(b) ==
  LET room == MaxLogBytes - capture.run_log_bytes
      n == Cardinality(b.kept)
      retained == IF n < room THEN n ELSE IF room > 1 THEN room - 1 ELSE 0
      lossless == b.log_reasons = {} /\ retained = n /\ n > 0
  IN  [retained |-> retained,
       dropped |-> IF retained = 0
                   THEN Max({b.dropped_logs + n, b.observed_logs})
                   ELSE b.dropped_logs + n - retained,
       size |-> IF retained = 0 THEN 0 ELSE retained + 1,
       status |-> IF lossless \/ b.observed_logs = 0 THEN "complete"
                  ELSE IF retained > 0 THEN "partial" ELSE "failed"]

\* _snapshot: the spans still open are charged, the topology is closed.
Counted(b) ==
  LET open == Cardinality(capture.registered) + Cardinality(capture.prewindow)
  IN  IF open = 0 THEN b
      ELSE Dropping([b EXCEPT !.observed = @ + open], open, "outside_window")

\* The prepared step: what remains of the snapshot, its status and losses.
Prepared(b) ==
  LET closed == TopologyClosed(b.spans)
      partial == Cardinality(b.spans) - Cardinality(closed)
      fit == Fitting(closed)
      log == LogSegment(b)
      lost == b.dropped + partial + fit.omitted + fit.popped
                + (IF fit.fits THEN 0 ELSE 1)
      because(condition, reason) == IF condition THEN {reason} ELSE {}
      reasons == b.reasons
        \cup because(partial > 0, "topology_partial")
        \cup because(fit.omitted > 0, "model_content_size_limit")
        \cup because(fit.popped > 0, "byte_limit")
        \cup because(~fit.fits, "budget_exhausted")
  IN  [prepared |-> TRUE, evidence |-> fit.fits, spans |-> fit.spans,
       dropped |-> Saturated(lost), reasons |-> reasons,
       observed |-> b.observed, fields |-> b.fields + fit.omitted,
       size |-> IF fit.fits THEN 1 + Bytes(fit.spans) ELSE 0,
       status |-> IF fit.fits /\ reasons = {} /\ lost = 0 THEN "complete"
                  ELSE IF fit.spans # {} THEN "partial" ELSE "failed",
       logs |-> log.retained, dropped_logs |-> log.dropped,
       observed_logs |-> b.observed_logs, log_size |-> log.size,
       log_status |-> log.status,
       in_flight |-> Cardinality(InFlight),
       logs_in_flight |-> Cardinality(LogsInFlight)]

\* Mutant: spans that started before the window stay registered.
MutReleased(c) == [c EXCEPT !.registered = {}]

\* _drop_registrations_locked, and the pre-window registrations with them.
Released(c) == [c EXCEPT !.registered = {}, !.prewindow = {}]

\* prepare_step closes the window and stages what it holds.
PrepareStep ==
  /\ capture.active
  /\ staged' = Prepared(Counted(capture.bucket))
  /\ capture' = Released([capture EXCEPT !.active = FALSE, !.bucket = Counted(@)])
  /\ charged' = [s \in Span |->
       charged[s] + IF s \in capture.registered \cup capture.prewindow THEN 1 ELSE 0]
  /\ UNCHANGED <<exporting, begun, logging>>

\* PreparedTraceEvidence.commit: the Run pays for what was prepared.
CommitStep ==
  /\ staged.prepared
  /\ capture' = [capture EXCEPT !.bucket = NoBucket,
                                !.run_bytes = @ + staged.size,
                                !.run_log_bytes = @ + staged.log_size]
  /\ staged' = NoStage
  /\ UNCHANGED <<exporting, begun, logging, charged>>

\* PreparedTraceEvidence.abort: the window opens again, nothing is paid.
AbortStep ==
  /\ staged.prepared
  /\ capture' = [capture EXCEPT !.active = TRUE]
  /\ staged' = NoStage
  /\ UNCHANGED <<exporting, begun, logging, charged>>

\* _discard_locked.
Discarded == Released([capture EXCEPT !.active = FALSE, !.bucket = NoBucket])

\* cancel_step of an open window.
CancelStep ==
  /\ capture.active
  /\ capture' = Discarded
  /\ UNCHANGED <<exporting, begun, logging, staged, charged>>

\* finish_run: the next Run starts with its own budget.
FinishRun ==
  /\ ~staged.prepared /\ capture.window > 0
  /\ capture' = [Discarded EXCEPT !.run_bytes = 0, !.run_log_bytes = 0]
  /\ UNCHANGED <<exporting, begun, logging, staged, charged>>

TraceNext ==
  \/ \E s \in Span :
       RegisterSpan(s) \/ ExportRegisteredSpan(s) \/ ExportSpan(s) \/ RetainSpan(s)
  \/ \E r \in Record : ExportLogRecord(r) \/ RetainLogRecord(r)
  \/ BeginStep \/ PrepareStep \/ CommitStep \/ AbortStep \/ CancelStep \/ FinishRun

TraceSpec == TraceInit /\ [][TraceNext]_traceVars

----------------------------------------------------------------------------
(* Properties.                                                             *)

\* Every field has its type.
TraceTypeOK ==
  /\ capture \in [active: BOOLEAN, window: 0 .. MaxSteps,
                  bucket: {NoBucket} \cup Bucket, registered: SUBSET Span,
                  prewindow: SUBSET Span, run_bytes: Nat, run_log_bytes: Nat]
  /\ exporting \in [Span -> [phase: Phases, window: 0 .. MaxSteps]]
  /\ logging \in [Record -> [phase: Phases, window: 0 .. MaxSteps]]
  /\ begun \in Seq(Span)
  /\ staged \in {NoStage} \cup Staged
  /\ charged \in [Span -> Nat]

\* What a bucket observed is retained, on its way or dropped; every omitted
\* body is a drop, too; and the bytes added and subtracted one by one are
\* those of the retained spans.
SpansAccounted(b) ==
  /\ b.dropped = Saturated(b.observed - Cardinality(b.spans)
                             - Cardinality(InFlight) + b.fields)
  /\ b.bytes = Bytes(b.spans)
  /\ Cardinality(b.spans) <= MaxSpans
  /\ b.observed_logs = Cardinality(b.kept) + b.dropped_logs + Cardinality(LogsInFlight)

\* So it is with the log records of the segment that is staged.
RecordsAccounted(p) ==
  p.observed_logs =
    p.logs + p.dropped_logs + (IF p.logs > 0 THEN p.logs_in_flight ELSE 0)

\* No span and no log record disappears between its export and the Evidence
\* of its step: the counters agree exactly, through sampling, replacement,
\* body omission, aborts and repeated preparations.
Accounted ==
  /\ capture.bucket.exists => SpansAccounted(capture.bucket)
  /\ staged.prepared => RecordsAccounted(staged)

\* However a step is sampled, replaced, aborted and prepared again, a Run
\* never holds, stages or pays more bytes than its limits allow.
WithinBudget ==
  /\ capture.bucket.exists => capture.run_bytes + capture.bucket.bytes <= MaxBytes
  /\ staged.prepared =>
       /\ capture.run_bytes + staged.size <= MaxBytes
       /\ capture.run_log_bytes + staged.log_size <= MaxLogBytes

\* A span is counted at most once: when it is exported, when it is refused,
\* or when a window closes around it, over all windows and aborts.
ChargedOnce == \A s \in Span : charged[s] <= 1

\* A prepared trace passes the validation of its upload, unless an export
\* was under way when the window closed; then no loss is reported.
StagedIsValid ==
  staged.prepared /\ staged.evidence /\ staged.in_flight = 0 => ValidCapture(staged)

\* docs/architecture.md:436: "any loss forbid[s] complete status", and the
\* loss is counted as the validation of the upload demands.
LossForbidsComplete == staged.prepared /\ staged.evidence => ValidCapture(staged)

=============================================================================

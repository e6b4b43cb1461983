--------------------------- MODULE LocalObservation ---------------------------
(***************************************************************************)
(* ObservationSession: the spans of a process that start while a session   *)
(* is the innermost one of their execution context (observation.py), the   *)
(* shared processor that routes starts by context and ends by registration *)
(* (evidence/observation_otel.py), and the bounded buffer that becomes the *)
(* export when the session exits (evidence/observation_capture.py).        *)
(*                                                                         *)
(* Sessions are entered and left in any order by several contexts; a       *)
(* context that is spawned inherits the session of its maker.  The end of  *)
(* a span looks the sessions up under the processor's lock and tells each  *)
(* of them under the session's own: a session may exit, or another one     *)
(* enter, between the two.                                                 *)
(***************************************************************************)
EXTENDS SpanContent

CONSTANTS
  Session,       \* sessions, one-shot
  NoSession,
  Context,       \* execution contexts: threads and tasks
  Main,          \* the context that is there from the start
  Invalid,       \* spans whose identity cannot be read
  Faulty,        \* spans whose mapping raises
  Programs,      \* the sets of spans the process may produce
  MaxPending,    \* registrations of a session, 10_000
  MaxObserved,   \* limits.max_spans
  MaxExport      \* limits.max_total_bytes, the envelope's one byte included

ASSUME ObservationAssumption ==
  /\ NoSession \notin Session /\ Main \in Context
  /\ Invalid \cup Faulty \subseteq Span /\ Programs \subseteq SUBSET Span
  /\ {MaxPending, MaxObserved, MaxExport} \subseteq Nat \ {0} /\ MaxObserved <= MaxDropped

VARIABLES
  session, \* each ObservationSession
  focus,   \* ACTIVE_OBSERVATION of each context; "unborn" before it is spawned
  life,    \* each span: its phase and the sessions its end is routed to
  starter  \* history: the session each span started in

observationVars == <<session, focus, life, starter>>

----------------------------------------------------------------------------
(* ObservationBuffer.                                                      *)

Buffer ==
  [spans: SUBSET Item, observed: 0 .. MaxDropped, fields: 0 .. MaxDropped,
   reasons: SUBSET Reasons]

EmptyBuffer == [spans |-> {}, observed |-> 0, fields |-> 0, reasons |-> {}]

\* loss: count may be 0 when the span was counted before.
Lost(b, reason, count) ==
  [b EXCEPT !.observed = Saturated(@ + count), !.reasons = @ \cup {reason}]

\* _remove_low_priority: the one every other retained span comes before.
WithoutLowest(b) ==
  LET protected == {Parent[i.span] : i \in b.spans} \ {NoSpan}
  IN  [b EXCEPT !.spans = {i \in @ : \E j \in @ : Before(i.span, j.span, protected)}]

\* _reduce: one model body, or else one span.
LosingBody(b) ==
  [b EXCEPT !.spans = Omitting(@, 1), !.fields = Saturated(@ + 1),
            !.reasons = @ \cup {"model_content_size_limit"}]

Reduced(b) ==
  IF Bodies(b.spans) # {} THEN LosingBody(b) ELSE Lost(WithoutLowest(b), "byte_limit", 0)

\* The loop of add: reduced until it fits.
Shrunk(b) ==
  LET fitted[c \in Buffer] ==
        IF Bytes(c.spans) <= MaxExport THEN c ELSE fitted[Reduced(c)]
  IN  fitted[b]

\* add: an ended span is counted, mapped and retained within the limits.
Added(b, x) ==
  LET counted == [b EXCEPT !.observed = Saturated(@ + 1)]
      held == [counted EXCEPT !.spans = @ \cup {Mapped(x)}]
  IN  IF x \in Faulty THEN Lost(counted, "mapping", 0)
      ELSE Shrunk(IF Cardinality(held.spans) > MaxObserved
                  THEN Lost(WithoutLowest(held), "span_limit", 0) ELSE held)

Closed(b) ==
  IF TopologyClosed(b.spans) = b.spans THEN b
  ELSE [Lost(b, "topology_partial", 0) EXCEPT !.spans = TopologyClosed(@)]

NoExport == [made |-> FALSE]

\* Mutant: omitted bodies are not counted as losses.
MutExported(b) ==
  [made |-> TRUE, spans |-> b.spans, observed |-> b.observed, fields |-> b.fields,
   reasons |-> b.reasons, dropped |-> Saturated(b.observed - Cardinality(b.spans)),
   status |-> IF b.reasons = {} /\ b.observed = Cardinality(b.spans) THEN "complete"
              ELSE IF b.spans # {} THEN "partial" ELSE "failed"]

\* _export.
Exported(b) ==
  LET dropped == Saturated(b.observed - Cardinality(b.spans) + b.fields)
  IN  [made |-> TRUE, spans |-> b.spans, observed |-> b.observed, fields |-> b.fields,
       reasons |-> b.reasons, dropped |-> dropped,
       status |-> IF b.reasons = {} /\ dropped = 0 THEN "complete"
                  ELSE IF b.spans # {} THEN "partial" ELSE "failed"]

\* finish: topology and bytes are brought in order in turns.
Trimmed(b) ==
  LET fitted[c \in Buffer] ==
        IF Bytes(c.spans) <= MaxExport - 1 THEN c ELSE fitted[Closed(Reduced(c))]
  IN  fitted[b]

Finished(b) ==
  Exported(Trimmed(Closed(IF b.spans = {} THEN Lost(b, "capture_failed", 0) ELSE b)))

\* What is exported when finish raises.
Abandoned(b) == Exported(Lost([b EXCEPT !.spans = {}], "capture_failed", 0))

----------------------------------------------------------------------------
(* Sessions and spans.                                                     *)

ObservationInit ==
  /\ session = [s \in Session |->
       [state |-> "new", attached |-> FALSE, home |-> Main, outer |-> NoSession,
        pending |-> {}, buffer |-> EmptyBuffer, result |-> NoExport]]
  /\ focus = [c \in Context |-> IF c = Main THEN NoSession ELSE "unborn"]
  /\ \E work \in Programs :
       life = [x \in Span |->
         [phase |-> IF x \in work THEN "unstarted" ELSE "ended", routes |-> {}]]
  /\ starter = [x \in Span |-> NoSession]

\* A task or a thread with a copy of its maker's context.
Spawn(c, d) ==
  /\ focus[c] # "unborn" /\ focus[d] = "unborn"
  /\ focus' = [focus EXCEPT ![d] = focus[c]]
  /\ UNCHANGED <<session, life, starter>>

Entered(t, c, around, attached) ==
  [t EXCEPT !.state = "active", !.attached = attached, !.home = c, !.outer = around,
            !.buffer = IF attached THEN @ ELSE Lost(@, "capture_failed", 0)]

\* __enter__: the processor can be attached to the provider, or not.
Enter(s, c) ==
  /\ session[s].state = "new" /\ focus[c] # "unborn"
  /\ \E attached \in BOOLEAN :
       session' = [session EXCEPT ![s] = Entered(@, c, focus[c], attached)]
  /\ focus' = [focus EXCEPT ![c] = s]
  /\ UNCHANGED <<life, starter>>

\* _start.
Registered(x, t) ==
  IF t.state # "active" THEN t
  ELSE IF x \in Invalid THEN [t EXCEPT !.buffer = Lost(@, "mapping", 1)]
  ELSE IF Cardinality(t.pending) >= MaxPending
  THEN [t EXCEPT !.buffer = Lost(@, "span_limit", 1)]
  ELSE [t EXCEPT !.pending = @ \cup {x}]

\* on_start, in context c.
StartSpan(x, c) ==
  /\ life[x].phase = "unstarted" /\ focus[c] # "unborn"
  /\ Parent[x] \in Span => life[Parent[x]].phase # "unstarted"
  /\ life' = [life EXCEPT ![x].phase = "open"]
  /\ LET s == focus[c]
     IN  IF s \in Session /\ session[s].attached
         THEN /\ session' = [session EXCEPT ![s] = Registered(x, @)]
              /\ starter' = [starter EXCEPT ![x] =
                   IF session[s].state = "active" THEN s ELSE NoSession]
         ELSE UNCHANGED <<session, starter>>
  /\ UNCHANGED focus

\* on_end, on any thread: the sessions that are registered now.
EndSpan(x) ==
  /\ life[x].phase = "open"
  /\ life' = [life EXCEPT ![x] = [phase |-> "ended", routes |->
       {s \in Session : session[s].state = "active" /\ session[s].attached}]]
  /\ UNCHANGED <<session, focus, starter>>

\* _end: one of them is told.
Told(x, t) ==
  IF t.state = "active" /\ x \in t.pending
  THEN [t EXCEPT !.pending = @ \ {x}, !.buffer = Added(@, x)]
  ELSE t

RouteEnd(x, s) ==
  /\ s \in life[x].routes
  /\ life' = [life EXCEPT ![x].routes = @ \ {s}]
  /\ session' = [session EXCEPT ![s] = Told(x, @)]
  /\ UNCHANGED <<focus, starter>>

\* Mutant: spans that are still open are forgotten.
MutOpenAtExit(t) == t.buffer

\* Spans that are still open when the session exits are its losses.
OpenAtExit(t) ==
  IF t.pending = {} THEN t.buffer
  ELSE Lost(t.buffer, "outside_window", Cardinality(t.pending))

Exited(t, result) ==
  [t EXCEPT !.state = "closed", !.pending = {}, !.buffer = EmptyBuffer, !.result = result]

\* __exit__, by the context that entered.
ExitSession(s) ==
  /\ session[s].state = "active"
  /\ LET b == OpenAtExit(session[s])
     IN  \E result \in {Finished(b), Abandoned(b)} :
           session' = [session EXCEPT ![s] = Exited(@, result)]
  /\ focus' = [focus EXCEPT ![session[s].home] = session[s].outer]
  /\ UNCHANGED <<life, starter>>

ObservationNext ==
  \/ \E c, d \in Context : Spawn(c, d)
  \/ \E s \in Session : ExitSession(s) \/ \E c \in Context : Enter(s, c)
  \/ \E x \in Span :
       \/ EndSpan(x)
       \/ \E c \in Context : StartSpan(x, c)
       \/ \E s \in Session : RouteEnd(x, s)

ObservationSpec == ObservationInit /\ [][ObservationNext]_observationVars

----------------------------------------------------------------------------
(* Properties.                                                             *)

Export ==
  [made: {TRUE}, spans: SUBSET Item, observed: 0 .. MaxDropped, fields: 0 .. MaxDropped,
   reasons: SUBSET Reasons, dropped: 0 .. MaxDropped,
   status: {"complete", "partial", "failed"}]

\* Every field has its type.
ObservationTypeOK ==
  /\ session \in [Session ->
       [state: {"new", "active", "closed"}, attached: BOOLEAN, home: Context,
        outer: Session \cup {NoSession}, pending: SUBSET Span, buffer: Buffer,
        result: Export \cup {NoExport}]]
  /\ focus \in [Context -> Session \cup {NoSession, "unborn"}]
  /\ life \in [Span -> [phase: {"unstarted", "open", "ended"}, routes: SUBSET Session]]
  /\ starter \in [Span -> Session \cup {NoSession}]

\* An export passes the validation that its upload makes (the one of Trace
\* artifacts), and fits its limit, however sessions nested, exited around
\* open spans or ran out of room: nothing is "complete" that lost something.
ObservationValid ==
  \A s \in Session :
    session[s].result.made =>
      /\ ValidCapture(session[s].result)
      /\ 1 + Bytes(session[s].result.spans) <= MaxExport
      /\ Cardinality(session[s].result.spans) <= MaxObserved

\* A session's export counts exactly the spans that started in it while it
\* was the innermost one, each once, and holds no others: not those of a
\* session around it, in it or after it, whichever thread ended them.  (The
\* counter stops at the contract's maximum.)
ObservedOnce ==
  \A s \in Session :
    LET own == {x \in Span : starter[x] = s}
    IN  session[s].result.made =>
          /\ session[s].result.observed = Saturated(Cardinality(own))
          /\ {i.span : i \in session[s].result.spans} \subseteq own

=============================================================================

----------------------------- MODULE SpanContent -----------------------------
(***************************************************************************)
(* Captured spans, as the step capture of a Run (TraceCapture) and a local *)
(* observation (LocalObservation) hold them: what a span weighs, which one *)
(* gives way first, what makes a topology closed, and what the validation  *)
(* of an uploaded capture demands.                                         *)
(*                                                                         *)
(* Abstractions: a span has a size, perhaps one model body, a parent and a *)
(* priority; the only field it can lose after its mapping is the body.     *)
(***************************************************************************)
EXTENDS Integers, FiniteSets, FiniteSetsExt

CONSTANTS
  Span,         \* a set of numbers: the order of duration and digest
  Parent,       \* the parent of each span, NoSpan for a root
  NoSpan,
  Failing,      \* spans whose status is "error"
  Boundary,     \* spans of a client, a server or a tool
  BodySize,     \* bytes of each span's model body, 0 without one
  MaxDropped    \* the largest count a capture may report, 999_999_999

ASSUME SpanContentAssumption ==
  /\ Span \subseteq Nat /\ NoSpan \notin Span
  /\ Parent \in [Span -> Span \cup {NoSpan}]
  /\ BodySize \in [Span -> Nat] /\ MaxDropped \in Nat \ {0}

\* A retained span keeps its model body or has lost it to a limit.
Item == [span: Span, body: BOOLEAN]

Reasons ==
  {"outside_window", "span_limit", "byte_limit", "budget_exhausted",
   "model_content_size_limit", "mapping", "topology_partial", "saturated",
   "capture_failed"}

Mapped(s) == [span |-> s, body |-> BodySize[s] > 0]
Bodies(items) == {i \in items : i.body}
Size(i) == 1 + IF i.body THEN BodySize[i.span] ELSE 0
Bytes(items) == MapThenSumSet(Size, items)

\* Mutant: the counter grows past the contract's maximum.
MutSaturated(n) == n

\* _increment_dropped stops at the contract's maximum.
Saturated(n) == IF n > MaxDropped THEN MaxDropped ELSE n

\* _span_priority: roots, errors, parents, boundaries, then the rest.
Category(s, protected) ==
  CASE Parent[s] = NoSpan -> 0
    [] Parent[s] # NoSpan /\ s \in Failing -> 1
    [] Parent[s] # NoSpan /\ s \notin Failing /\ s \in protected -> 2
    [] OTHER -> IF s \in Boundary THEN 3 ELSE 4

Before(s, t, protected) ==
  \/ Category(s, protected) < Category(t, protected)
  \/ Category(s, protected) = Category(t, protected) /\ s < t

\* omit_largest_model_body, n times: the largest bodies go first.
Omitting(items, n) ==
  LET larger(i) == {j \in Bodies(items) :
                      \/ BodySize[j.span] > BodySize[i.span]
                      \/ BodySize[j.span] = BodySize[i.span] /\ j.span < i.span}
  IN  {[i EXCEPT !.body = @ /\ Cardinality(larger(i)) >= n] : i \in items}

\* How many bodies a buffer has to lose to fit (all of them if it cannot).
Omissions(items, limit) ==
  LET bodies == Cardinality(Bodies(items))
  IN  Min({n \in 0 .. bodies :
             n = bodies \/ Bytes(Omitting(items, n)) <= limit})

\* Mutant: children are kept without their parents.
MutTopologyClosed(items) == items

\* _topology_closed: the spans whose ancestors were all retained.
TopologyClosed(items) ==
  LET identities(closed) == {i.span : i \in closed}
  IN  UNION {closed \in SUBSET items :
               \A i \in closed : Parent[i.span] \in identities(closed) \cup {NoSpan}}

\* What _validate_capture demands of an uploaded capture.
ValidCapture(p) ==
  LET lost == p.observed - Cardinality(p.spans)
      degraded == p.reasons # {} \/ p.dropped > 0
      identities == {i.span : i \in p.spans}
  IN  /\ p.observed >= Cardinality(p.spans)
      /\ p.status = IF ~degraded THEN "complete"
                    ELSE IF p.spans # {} THEN "partial" ELSE "failed"
      /\ p.dropped >= Saturated(lost + p.fields)
      /\ p.status = "complete" => lost = 0 /\ p.fields = 0
      /\ \A i \in p.spans :
           \/ Parent[i.span] \in identities \cup {NoSpan}
           \/ p.status = "partial" /\ "topology_partial" \in p.reasons

=============================================================================

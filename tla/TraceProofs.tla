----------------------------- MODULE TraceProofs -----------------------------
(***************************************************************************)
(* Proofs about TraceCapture, for any spans, limits and workloads: no span *)
(* and no log record is lost between its export and the Evidence of its    *)
(* step without being counted, none is counted twice, the bytes stay in    *)
(* the budget of the Run, and what is staged passes its own validation.    *)
(* And about LocalObservation, which keeps its spans with the same helpers:*)
(* what a session exports is valid and counts each of its spans once.      *)
(* And about TraceMapping, for any span and any limits: what the mapper    *)
(* keeps passes the validator, and it admits every loss.                   *)
(*                                                                         *)
(* The argument has two halves.  What the operators of SpanContent do to a *)
(* set of items (omit bodies, replace, close the topology, cut the last    *)
(* ones) is about data: how many items there are afterwards and how much   *)
(* they weigh.  TInv is about the steps: which thread has counted, taken   *)
(* or retained a span when the Run's thread opens or closes the window.    *)
(* OInv does the same for the sessions of a local observation.  The        *)
(* mapping is data alone: an iteration is the sequence of what its first n *)
(* items make of the accumulator, and AttributesInv, EventsInv and         *)
(* LinksInv say what each of them has kept and counted so far.             *)
(***************************************************************************)
EXTENDS TraceCapture, LocalObservation, TraceMapping, DataLemmas, SequenceTheorems

----------------------------------------------------------------------------
(* What items weigh.                                                       *)

SizeOfItem == [i \in Item |-> Size(i)]

LEMMA ItemFields ==
  ASSUME NEW i \in Item
  PROVE  /\ i.span \in Span /\ i.body \in BOOLEAN /\ BodySize[i.span] \in Nat
         /\ i = [span |-> i.span, body |-> i.body]
BY SpanContentAssumption DEF Item

LEMMA SizeType == \A i \in Item : Size(i) \in Nat /\ Size(i) >= 1
<1> SUFFICES ASSUME NEW i \in Item PROVE Size(i) \in Nat /\ Size(i) >= 1
  OBVIOUS
<1>1. BodySize[i.span] \in Nat
  BY SpanContentAssumption DEF Item
<1>2. CASE i.body
  BY <1>1, <1>2 DEF Size
<1>3. CASE ~ i.body
  BY <1>3 DEF Size
<1> QED  BY <1>2, <1>3

LEMMA BytesIsSum ==
  ASSUME NEW A \in SUBSET Item, IsFiniteSet(A)
  PROVE  Bytes(A) = SumOver(SizeOfItem, A)
<1>1. PICK g : IsSum(g, SizeOfItem, A)
  BY SumExists
<1> DEFINE step(h, s) == IF s = {} THEN 0
                         ELSE Size(CHOOSE x \in s : TRUE) + h[s \ {CHOOSE x \in s : TRUE}]
<1>2. ASSUME NEW s \in SUBSET A, NEW h
      PROVE  step(h, s) = IF s = {} THEN 0 ELSE SizeOfItem[AnyOf(s)] + h[s \ {AnyOf(s)}]
  <2>1. CASE s = {}
    BY <2>1
  <2>2. CASE s # {}
    <3>1. AnyOf(s) \in Item
      BY <2>2 DEF AnyOf
    <3>2. SizeOfItem[AnyOf(s)] = Size(AnyOf(s))
      BY <3>1 DEF SizeOfItem
    <3> QED  BY <2>2, <3>2 DEF AnyOf
  <2> QED  BY <2>1, <2>2
<1>3. \A h : h = [s \in SUBSET A |-> step(h, s)] <=> IsSum(h, SizeOfItem, A)
  BY <1>2 DEF IsSum
<1>4. g = [s \in SUBSET A |-> step(g, s)]
  BY <1>1, <1>3
<1>5. \A h : h = [s \in SUBSET A |-> step(h, s)] => h = g
  BY <1>1, <1>3, SumUnique
<1>6. Bytes(A) = g[A]
  BY <1>4, <1>5 DEF Bytes, MapThenSumSet, MapThenFoldSet
<1> QED  BY <1>1, <1>6, SumIsFold

\* The bytes of items are a number, nothing weighs nothing, and the weight of
\* any one item can be taken out.
LEMMA BytesFacts ==
  /\ Bytes({}) = 0
  /\ \A A \in SUBSET Item : IsFiniteSet(A) =>
       Bytes(A) \in Nat /\ \A x \in A : Bytes(A) = Size(x) + Bytes(A \ {x})
<1>1. Bytes({}) = 0
  <2>1. PICK g : IsSum(g, SizeOfItem, {})
    BY SumExists, FS_EmptySet
  <2>2. g[{}] = 0
    BY <2>1 DEF IsSum
  <2> QED  BY <2>1, <2>2, SumIsFold, BytesIsSum, FS_EmptySet
<1>2. ASSUME NEW A \in SUBSET Item, IsFiniteSet(A)
      PROVE  Bytes(A) \in Nat /\ \A x \in A : Bytes(A) = Size(x) + Bytes(A \ {x})
  <2>1. \A x \in A : SizeOfItem[x] = Size(x) /\ SizeOfItem[x] \in Nat
    BY SizeType DEF SizeOfItem
  <2>2. /\ SumOver(SizeOfItem, A) \in Nat
        /\ \A x \in A : SumOver(SizeOfItem, A) = SizeOfItem[x] + SumOver(SizeOfItem, A \ {x})
    BY <1>2, <2>1, SumRemove
  <2>3. \A x \in A : A \ {x} \in SUBSET Item /\ IsFiniteSet(A \ {x})
    BY <1>2, FS_RemoveElement
  <2> QED  BY <1>2, <2>1, <2>2, <2>3, BytesIsSum
<1> QED  BY <1>1, <1>2

LEMMA BytesAdd ==
  ASSUME NEW A \in SUBSET Item, IsFiniteSet(A), NEW x \in Item, x \notin A
  PROVE  Bytes(A \union {x}) = Bytes(A) + Size(x)
<1>1. A \union {x} \in SUBSET Item /\ IsFiniteSet(A \union {x}) /\ (A \union {x}) \ {x} = A
  BY FS_AddElement
<1>2. Bytes(A \union {x}) = Size(x) + Bytes((A \union {x}) \ {x})
  BY <1>1, BytesFacts
<1> QED  BY <1>1, <1>2, BytesFacts, SizeType

\* The bytes of disjoint sets add up.
LEMMA BytesUnion ==
  ASSUME NEW A \in SUBSET Item, IsFiniteSet(A), NEW B \in SUBSET Item, IsFiniteSet(B),
         A \cap B = {}
  PROVE  Bytes(A \union B) = Bytes(A) + Bytes(B)
<1> DEFINE F == {T \in SUBSET B : Bytes(A \union T) = Bytes(A) + Bytes(T)}
<1>1. {} \in F
  BY BytesFacts
<1>2. ASSUME NEW T \in SUBSET B, NEW x \in B \ T, T \in F PROVE T \union {x} \in F
  <2>1. /\ T \in SUBSET Item /\ IsFiniteSet(T) /\ x \in Item /\ x \notin A \union T
        /\ A \union T \in SUBSET Item /\ IsFiniteSet(A \union T)
        /\ A \union (T \union {x}) = (A \union T) \union {x}
    BY FS_Subset, FS_Union
  <2>2. /\ Bytes(A \union (T \union {x})) = Bytes(A \union T) + Size(x)
        /\ Bytes(T \union {x}) = Bytes(T) + Size(x)
    BY <2>1, BytesAdd
  <2> QED  BY <1>2, <2>1, <2>2, BytesFacts, SizeType
<1> HIDE DEF F
<1>3. B \in F
  BY <1>1, <1>2, FiniteInduction
<1> QED  BY <1>3 DEF F

----------------------------------------------------------------------------
(* Items are known by their spans.                                         *)

SpansOf(items) == {i.span : i \in items}

\* Items of a buffer: finitely many, one for each span.
Items(A) ==
  /\ A \in SUBSET Item /\ IsFiniteSet(A)
  /\ \A i, j \in A : i.span = j.span => i = j

LEMMA ItemsSubset ==
  ASSUME NEW A, Items(A), NEW B \in SUBSET A
  PROVE  Items(B) /\ SpansOf(B) \subseteq SpansOf(A)
BY FS_Subset DEF Items, SpansOf

\* There are as many items as spans.
LEMMA ItemsAreSpans ==
  ASSUME NEW A, Items(A)
  PROVE  /\ IsFiniteSet(SpansOf(A)) /\ Cardinality(SpansOf(A)) = Cardinality(A)
         /\ SpansOf(A) \subseteq Span /\ Cardinality(A) \in Nat
<1> DEFINE f == [i \in A |-> i.span]
<1>1. f \in Surjection(A, SpansOf(A))
  BY DEF Surjection, SpansOf
<1>2. f \in Injection(A, SpansOf(A))
  BY DEF Injection, IsInjective, Items, SpansOf
<1>3. IsFiniteSet(A) /\ SpansOf(A) \subseteq Span
  BY DEF Items, SpansOf, Item
<1> HIDE DEF f
<1> QED  BY <1>1, <1>2, <1>3, FS_Surjection, FS_CardinalityType

\* Items that are no more, with no more bodies, weigh no more.
LEMMA BytesShrink ==
  ASSUME NEW A, Items(A), NEW B, Items(B),
         \A a \in A : \E b \in B : b.span = a.span /\ (a.body => b.body)
  PROVE  Bytes(A) <= Bytes(B)
<1> DEFINE below(T, U) == \A a \in T : \E b \in U : b.span = a.span /\ (a.body => b.body)
           F == {T \in SUBSET A : \A U \in SUBSET B : below(T, U) => Bytes(T) <= Bytes(U)}
<1>0. \A U \in SUBSET B : U \in SUBSET Item /\ IsFiniteSet(U) /\ Bytes(U) \in Nat
  BY FS_Subset, BytesFacts DEF Items
<1>1. {} \in F
  BY <1>0, BytesFacts
<1>2. ASSUME NEW T \in SUBSET A, NEW x \in A \ T, T \in F PROVE T \union {x} \in F
  <2> SUFFICES ASSUME NEW U \in SUBSET B, below(T \union {x}, U)
               PROVE  Bytes(T \union {x}) <= Bytes(U)
    OBVIOUS
  <2>1. PICK y \in U : y.span = x.span /\ (x.body => y.body)
    OBVIOUS
  <2>2. below(T, U \ {y})
    <3> SUFFICES ASSUME NEW a \in T
                 PROVE  \E b \in U \ {y} : b.span = a.span /\ (a.body => b.body)
      OBVIOUS
    <3>1. PICK b \in U : b.span = a.span /\ (a.body => b.body)
      OBVIOUS
    <3>2. a.span # x.span
      BY DEF Items
    <3> QED  BY <2>1, <3>1, <3>2
  <2>3. Bytes(T) <= Bytes(U \ {y})
    BY <1>2, <2>2
  <2>4. x \in Item /\ y \in Item /\ T \in SUBSET Item /\ IsFiniteSet(T)
    BY <2>1, FS_Subset DEF Items
  <2>5. Size(x) <= Size(y) /\ Size(x) \in Nat /\ Size(y) \in Nat
    <3>1. BodySize[x.span] \in Nat /\ y.span = x.span
      BY <2>1, <2>4, ItemFields
    <3>2. CASE x.body
      BY <2>1, <3>1, <3>2 DEF Size
    <3>3. CASE ~ x.body
      BY <2>4, <3>3, SizeType DEF Size
    <3> QED  BY <3>2, <3>3, <2>4, SizeType
  <2>6. Bytes(T \union {x}) = Bytes(T) + Size(x) /\ Bytes(U) = Size(y) + Bytes(U \ {y})
        /\ Bytes(T) \in Nat /\ Bytes(U \ {y}) \in Nat
    BY <1>0, <2>1, <2>4, BytesAdd, BytesFacts
  <2> QED  BY <2>3, <2>5, <2>6
<1> HIDE DEF F
<1>3. A \in F
  BY <1>1, <1>2, FiniteInduction DEF Items
<1> USE DEF F
<1> QED  BY <1>3


----------------------------------------------------------------------------
(* Counters.                                                               *)

\* A counter that stops at the contract's maximum still adds up.
LEMMA SaturatedFacts ==
  ASSUME NEW m \in Nat, NEW n \in Nat
  PROVE  /\ Saturated(m) \in 0..MaxDropped
         /\ Saturated(m) = 0 <=> m = 0
         /\ Saturated(Saturated(m) + n) = Saturated(m + n)
         /\ m <= n => Saturated(m) <= Saturated(n)
<1>1. MaxDropped \in Nat \ {0}
  BY SpanContentAssumption
<1> QED  BY <1>1 DEF Saturated

\* The counters and records that no operation on spans changes.
SameBut(b, r) ==
  /\ r.observed = b.observed /\ r.kept = b.kept /\ r.dropped_logs = b.dropped_logs
  /\ r.observed_logs = b.observed_logs /\ r.dropped = b.dropped

\* Dropping changes the count and the reasons, and nothing else.
DroppedFrom(b, n, r) ==
  /\ r \in Bucket /\ r.dropped = Saturated(b.dropped + n)
  /\ r.spans = b.spans /\ r.bytes = b.bytes /\ r.fields = b.fields
  /\ r.observed = b.observed /\ r.kept = b.kept
  /\ r.dropped_logs = b.dropped_logs /\ r.observed_logs = b.observed_logs

LEMMA DroppingFacts ==
  ASSUME NEW b \in Bucket, NEW n \in Nat, NEW reason \in Reasons
  PROVE  DroppedFrom(b, n, Dropping(b, n, reason))
<1>1. b.dropped \in Nat /\ b.dropped + n \in Nat
  BY DEF Bucket
<1>2. Saturated(b.dropped + n) \in 0..MaxDropped
  BY <1>1, SaturatedFacts
<1>3. {reason} \union (IF b.dropped + n > MaxDropped THEN {"saturated"} ELSE {})
        \in SUBSET Reasons
  BY DEF Reasons
<1> QED  BY <1>1, <1>2, <1>3 DEF Dropping, Bucket, DroppedFrom

HoldingNow(d, A, m, n, e) ==
  /\ e \in Bucket /\ e.spans = A /\ e.bytes = m /\ e.fields = d.fields + n
  /\ SameBut(d, e)

LEMMA BucketChange ==
  ASSUME NEW d \in Bucket, NEW A \in SUBSET Item, NEW m \in Nat, NEW n \in Nat
  PROVE  HoldingNow(d, A, m, n, [d EXCEPT !.spans = A, !.bytes = m, !.fields = @ + n])
<1> DEFINE e == [d EXCEPT !.spans = A, !.bytes = m, !.fields = @ + n]
<1>1. d.fields \in Nat /\ d.fields + n \in Nat
  BY DEF Bucket
<1> DEFINE k == d.fields + n
<1>2. e = [d EXCEPT !.spans = A, !.bytes = m, !.fields = k]
  OBVIOUS
<1> HIDE DEF k
<1>3. [d EXCEPT !.spans = A, !.bytes = m, !.fields = k] \in Bucket
  BY <1>1 DEF Bucket, k
<1>4. e.spans = A /\ e.bytes = m /\ e.fields = k
  BY <1>2 DEF Bucket
<1>5. SameBut(d, e)
  BY DEF Bucket, SameBut
<1> QED  BY <1>2, <1>3, <1>4, <1>5 DEF k, HoldingNow

----------------------------------------------------------------------------
(* Omitting bodies.                                                        *)

OmittedItem(A, i, n) ==
  [i EXCEPT !.body = @ /\ Cardinality({j \in Bodies(A) :
     \/ BodySize[j.span] > BodySize[i.span]
     \/ BodySize[j.span] = BodySize[i.span] /\ j.span < i.span}) >= n]

\* Omitting bodies keeps every item, and adds no body.
LEMMA OmittingFacts ==
  ASSUME NEW A, Items(A), NEW n \in Nat
  PROVE  /\ Items(Omitting(A, n))
         /\ SpansOf(Omitting(A, n)) = SpansOf(A)
         /\ Cardinality(Omitting(A, n)) = Cardinality(A)
         /\ \A o \in Omitting(A, n) : \E a \in A : a.span = o.span /\ (o.body => a.body)
         /\ n = 0 => Omitting(A, n) = A
<1> DEFINE O == Omitting(A, n)
<1>1. O = {OmittedItem(A, i, n) : i \in A}
  BY DEF Omitting, OmittedItem
<1>2. ASSUME NEW i \in A
      PROVE  /\ OmittedItem(A, i, n) \in Item
             /\ OmittedItem(A, i, n).span = i.span
             /\ OmittedItem(A, i, n).body => i.body
             /\ n = 0 => OmittedItem(A, i, n) = i
  <2> DEFINE larger == {j \in Bodies(A) :
                 \/ BodySize[j.span] > BodySize[i.span]
                 \/ BodySize[j.span] = BodySize[i.span] /\ j.span < i.span}
             left == i.body /\ Cardinality(larger) >= n
  <2>1. i \in Item
    BY DEF Items
  <2>2. OmittedItem(A, i, n) = [i EXCEPT !.body = left]
    BY DEF OmittedItem
  <2>3. Cardinality(larger) \in Nat
    <3>1. larger \in SUBSET A /\ IsFiniteSet(A)
      BY DEF Items, Bodies
    <3> HIDE DEF larger
    <3> QED  BY <3>1, FS_Subset, FS_CardinalityType
  <2>4. left \in BOOLEAN /\ (left => i.body) /\ (n = 0 => (left <=> i.body))
    <3> HIDE DEF larger
    <3> QED  BY <2>3
  <2> HIDE DEF left
  <2>5. /\ [i EXCEPT !.body = left] \in Item
        /\ [i EXCEPT !.body = left].span = i.span
        /\ [i EXCEPT !.body = left].body = left
    BY <2>1, <2>4 DEF Item
  <2>6. n = 0 => [i EXCEPT !.body = left] = i
    BY <2>1, <2>4 DEF Item
  <2> QED  BY <2>2, <2>4, <2>5, <2>6
<1> DEFINE f == [i \in A |-> OmittedItem(A, i, n)]
<1>3. f \in Surjection(A, O)
  BY <1>1 DEF Surjection
<1>4. f \in Injection(A, O)
  BY <1>1, <1>2 DEF Injection, IsInjective, Items
<1>5. IsFiniteSet(O) /\ Cardinality(O) = Cardinality(A)
  <2> HIDE DEF f, O
  <2> QED  BY <1>3, <1>4, FS_Surjection DEF Items
<1> HIDE DEF O
<1>6. \A x, y \in O : x.span = y.span => x = y
  BY <1>1, <1>2 DEF Items
<1>7. O \in SUBSET Item /\ SpansOf(O) = SpansOf(A)
  BY <1>1, <1>2 DEF SpansOf
<1>8. n = 0 => O = A
  BY <1>1, <1>2
<1>9. \A o \in O : \E a \in A : a.span = o.span /\ (o.body => a.body)
  BY <1>1, <1>2
<1> USE DEF O
<1> QED  BY <1>5, <1>6, <1>7, <1>8, <1>9 DEF Items

\* Some number of bodies is enough, or all of them are omitted.
LEMMA OmissionsFacts ==
  ASSUME NEW A, Items(A), NEW limit
  PROVE  Omissions(A, limit) \in Nat
<1> DEFINE bodies == Cardinality(Bodies(A))
           T == {n \in 0 .. bodies : n = bodies \/ Bytes(Omitting(A, n)) <= limit}
<1>1. bodies \in Nat
  BY FS_Subset, FS_CardinalityType DEF Bodies, Items
<1>2. T \in SUBSET Nat /\ T # {}
  <2> HIDE DEF bodies
  <2>1. bodies \in T
    BY <1>1
  <2> QED  BY <2>1
<1>3. Omissions(A, limit) = Min(T)
  BY DEF Omissions
<1> HIDE DEF T
<1> QED  BY <1>2, <1>3, MinIsLeast

\* The bytes that remain are no more.
LEMMA OmittingShrinks ==
  ASSUME NEW A, Items(A), NEW n \in Nat
  PROVE  Bytes(Omitting(A, n)) <= Bytes(A)
<1>1. \A o \in Omitting(A, n) : \E a \in A : a.span = o.span /\ (o.body => a.body)
  BY OmittingFacts
<1>2. Items(Omitting(A, n))
  BY OmittingFacts
<1> QED  BY <1>1, <1>2, BytesShrink

----------------------------------------------------------------------------
(* Replacing a span.                                                       *)

\* At most one span gives way to a candidate.
LEMMA OneReplacement ==
  ASSUME NEW A \in SUBSET Item, NEW s \in Span,
         NEW t \in Replacements(A, s), NEW u \in Replacements(A, s)
  PROVE  t = u
<1> DEFINE protected == {Parent[v] : v \in {i.span : i \in A} \union {s}} \ {NoSpan}
           free == {i.span : i \in A} \ protected
<1>1. Replacements(A, s) = {v \in free : /\ \A w \in free \ {v} : Before(w, v, protected)
                                         /\ Before(s, v, protected)}
  BY DEF Replacements
<1>2. \A v \in Span : v \in Nat /\ Category(v, protected) \in Nat
  BY SpanContentAssumption DEF Category
<1>3. t \in Span /\ u \in Span /\ (t # u => Before(u, t, protected) /\ Before(t, u, protected))
  <2>1. t \in free /\ u \in free /\ free \subseteq Span
    BY <1>1 DEF Item
  <2> QED  BY <1>1, <2>1
<1> HIDE DEF protected
<1> QED  BY <1>2, <1>3 DEF Before

\* What _retain_sampled_span does to a bucket: the candidate takes its place,
\* someone else's or none; every body omitted and every span lost is counted;
\* and the bytes are again those of the retained spans, within the budget.
Retained(b, s, r) ==
  /\ r \in Bucket
  /\ \E omitted \in Nat : \E lost \in {0, 1} :
       /\ r.dropped = Saturated(b.dropped + omitted + lost)
       /\ Cardinality(r.spans) + lost = Cardinality(b.spans) + 1
       /\ r.fields = b.fields + omitted
  /\ r.observed = b.observed /\ r.kept = b.kept
  /\ r.dropped_logs = b.dropped_logs /\ r.observed_logs = b.observed_logs
  /\ Items(r.spans) /\ SpansOf(r.spans) \subseteq SpansOf(b.spans) \union {s}
  /\ Cardinality(r.spans) <= MaxSpans
  /\ r.bytes = Bytes(r.spans) /\ capture.run_bytes + r.bytes <= MaxBytes

LEMMA RetainingFacts ==
  ASSUME NEW b \in Bucket, NEW s \in Span, Items(b.spans), s \notin SpansOf(b.spans),
         Cardinality(b.spans) <= MaxSpans, b.bytes = Bytes(b.spans),
         capture.run_bytes \in Nat, capture.run_bytes + b.bytes <= MaxBytes
  PROVE  Retained(b, s, Retaining(b, s))
<1> DEFINE candidate == Mapped(s)
           replaced == IF Cardinality(b.spans) < MaxSpans THEN {}
                       ELSE {i \in b.spans : i.span \in Replacements(b.spans, s)}
           room == MaxBytes - capture.run_bytes
           wanted == (b.spans \ replaced) \union {candidate}
           omitted == Omissions(wanted, room)
           fitted == Omitting(wanted, omitted)
           others == {i \in fitted : i.span # s} \union replaced
           mine == {i \in fitted : i.span = s}
           reduced == IF omitted = 0 THEN b
                      ELSE [Dropping(b, omitted, "model_content_size_limit")
                              EXCEPT !.spans = others, !.bytes = Bytes(others),
                                     !.fields = @ + omitted]
           held == [reduced EXCEPT !.spans = fitted,
                      !.bytes = @ + Bytes(mine) - Bytes(replaced)]
<1>1. Retaining(b, s) =
        IF Cardinality(b.spans) >= MaxSpans /\ replaced = {} THEN Sampling(b)
        ELSE IF Bytes(fitted) > room THEN Dropping(reduced, 1, "byte_limit")
        ELSE IF replaced = {} THEN held
        ELSE Sampling(held)
  BY DEF Retaining
<1>2. /\ b.spans \in SUBSET Item /\ IsFiniteSet(b.spans) /\ Cardinality(b.spans) \in Nat
      /\ b.dropped \in Nat /\ b.fields \in Nat /\ b.bytes \in Nat
      /\ MaxSpans \in Nat \ {0} /\ room \in Int
  BY FS_CardinalityType, TraceLimitsAssumption DEF Items, Bucket
<1>3. /\ replaced \in SUBSET b.spans
      /\ \A x, y \in replaced : x = y
      /\ Cardinality(b.spans) < MaxSpans => replaced = {}
  <2>1. \A x, y \in b.spans : x.span \in Replacements(b.spans, s)
                              /\ y.span \in Replacements(b.spans, s) => x = y
    BY <1>2, OneReplacement DEF Items
  <2> QED  BY <2>1
<1>4. candidate \in Item /\ candidate.span = s
  BY SpanContentAssumption DEF Mapped, Item
<1> HIDE DEF candidate
<1>5. IsFiniteSet(replaced) /\ Cardinality(replaced) \in {0, 1}
      /\ (Cardinality(replaced) = 0 <=> replaced = {})
  <2>1. CASE replaced = {}
    BY <2>1, FS_EmptySet
  <2>2. CASE replaced # {}
    <3>1. PICK x \in replaced : replaced = {x}
      <4> HIDE DEF replaced
      <4> QED  BY <1>3, <2>2
    <3>2. IsFiniteSet({x}) /\ Cardinality({x}) = 1
      BY FS_Singleton
    <3> HIDE DEF replaced
    <3> QED  BY <3>1, <3>2
  <2> QED  BY <2>1, <2>2
<1> HIDE DEF replaced
<1>6. /\ Items(wanted) /\ SpansOf(wanted) = (SpansOf(b.spans) \ SpansOf(replaced)) \union {s}
      /\ Cardinality(wanted) = Cardinality(b.spans) - Cardinality(replaced) + 1
  <2>1. /\ b.spans \ replaced \in SUBSET Item /\ IsFiniteSet(b.spans \ replaced)
        /\ Cardinality(b.spans \ replaced) = Cardinality(b.spans) - Cardinality(replaced)
    <3>1. CASE replaced = {}
      <4>1. b.spans \ replaced = b.spans
        BY <3>1
      <4> QED  BY <1>2, <1>5, <3>1, <4>1
    <3>2. CASE replaced # {}
      <4>1. PICK x \in b.spans : replaced = {x}
        BY <1>3, <3>2
      <4>2. Cardinality(b.spans \ {x}) = Cardinality(b.spans) - 1 /\ IsFiniteSet(b.spans \ {x})
        BY <1>2, FS_RemoveElement
      <4> QED  BY <1>2, <1>5, <3>2, <4>1, <4>2
    <3> QED  BY <3>1, <3>2
  <2>2. candidate \notin b.spans /\ \A i \in b.spans : i.span # s
    BY <1>4 DEF SpansOf
  <2>3. /\ IsFiniteSet(wanted)
        /\ Cardinality(wanted) = Cardinality(b.spans \ replaced) + 1
    BY <2>1, <2>2, FS_AddElement
  <2>4. \A i, j \in wanted : i.span = j.span => i = j
    BY <1>4, <2>2 DEF Items
  <2>5. SpansOf(wanted) = (SpansOf(b.spans) \ SpansOf(replaced)) \union {s}
    BY <1>3, <1>4, <2>2 DEF SpansOf, Items
  <2> QED  BY <1>4, <2>1, <2>3, <2>4, <2>5 DEF Items
<1>7. omitted \in Nat
  BY <1>6, OmissionsFacts
<1> HIDE DEF omitted, wanted
<1>8. /\ Items(fitted) /\ SpansOf(fitted) = SpansOf(wanted)
      /\ Cardinality(fitted) = Cardinality(wanted)
      /\ \A o \in fitted : \E a \in wanted : a.span = o.span /\ (o.body => a.body)
      /\ omitted = 0 => fitted = wanted
  BY <1>6, <1>7, OmittingFacts
<1> HIDE DEF fitted
<1>9. /\ Items(others) /\ SpansOf(others) = SpansOf(b.spans)
      /\ Cardinality(others) = Cardinality(b.spans)
      /\ \A o \in others : \E a \in b.spans : a.span = o.span /\ (o.body => a.body)
      /\ omitted = 0 => others = b.spans
      /\ others = (fitted \ mine) \union replaced
      /\ (fitted \ mine) \cap replaced = {}
  <2>1. \A i \in fitted : i.span # s => \E a \in b.spans \ replaced : a.span = i.span /\ (i.body => a.body)
    BY <1>4, <1>8 DEF wanted
  <2>2. \A i, j \in others : i.span = j.span => i = j
    BY <1>3, <1>8, <2>1 DEF Items
  <2>3. \A o \in others : \E a \in b.spans : a.span = o.span /\ (o.body => a.body)
    BY <1>3, <2>1
  <2>4. IsFiniteSet(others) /\ others \in SUBSET Item
    <3>1. IsFiniteSet({i \in fitted : i.span # s})
      BY <1>8, FS_Subset DEF Items
    <3> QED  BY <1>2, <1>3, <1>5, <1>8, <3>1, FS_Union DEF Items
  <2>5. SpansOf(others) = SpansOf(b.spans)
    <3>1. \A x \in SpansOf(b.spans) : x \in SpansOf(others)
      <4> SUFFICES ASSUME NEW a \in b.spans PROVE a.span \in SpansOf(others)
        BY DEF SpansOf
      <4>1. a.span # s
        BY DEF SpansOf
      <4>2. CASE a \in replaced
        BY <4>2 DEF SpansOf
      <4>3. CASE a \notin replaced
        <5>1. a.span \in SpansOf(fitted)
          BY <1>8, <4>3 DEF wanted, SpansOf
        <5> QED  BY <4>1, <5>1 DEF SpansOf
      <4> QED  BY <4>2, <4>3
    <3>2. \A x \in SpansOf(others) : x \in SpansOf(b.spans)
      BY <2>3 DEF SpansOf
    <3> QED  BY <3>1, <3>2
  <2>6. Items(others)
    BY <2>2, <2>4 DEF Items
  <2>7. Cardinality(others) = Cardinality(b.spans)
    <3> HIDE DEF others
    <3> QED  BY <2>5, <2>6, ItemsAreSpans
  <2>8. omitted = 0 => others = b.spans
    <3>1. \A i \in b.spans : i.span # s
      BY DEF SpansOf
    <3> QED  BY <1>3, <1>4, <1>8, <3>1 DEF wanted
  <2>9. (fitted \ mine) \cap replaced = {}
    BY <1>3, <2>1 DEF Items
  <2> QED  BY <2>3, <2>5, <2>6, <2>7, <2>8, <2>9
<1>10. /\ Bytes(others) <= Bytes(b.spans) /\ Bytes(others) \in Nat
       /\ Bytes(fitted) \in Nat /\ Bytes(mine) \in Nat /\ Bytes(replaced) \in Nat
       /\ Bytes(others) + Bytes(mine) - Bytes(replaced) = Bytes(fitted)
  <2> DEFINE rest == fitted \ mine
  <2>1. Bytes(others) <= Bytes(b.spans)
    <3> HIDE DEF others
    <3> QED  BY <1>9, BytesShrink
  <2>2. /\ rest \in SUBSET Item /\ IsFiniteSet(rest) /\ mine \in SUBSET Item /\ IsFiniteSet(mine)
        /\ replaced \in SUBSET Item /\ rest \cap mine = {} /\ fitted = rest \union mine
        /\ rest \cap replaced = {} /\ others = rest \union replaced
    BY <1>2, <1>3, <1>8, <1>9, FS_Subset DEF Items
  <2> HIDE DEF rest, mine, others
  <2>3. Bytes(fitted) = Bytes(rest) + Bytes(mine) /\ Bytes(others) = Bytes(rest) + Bytes(replaced)
    BY <1>5, <2>2, BytesUnion
  <2>4. Bytes(rest) \in Nat /\ Bytes(mine) \in Nat /\ Bytes(replaced) \in Nat
    BY <1>5, <2>2, BytesFacts
  <2> QED  BY <2>1, <2>3, <2>4
<1> HIDE DEF others, mine
<1>11. /\ reduced \in Bucket /\ reduced.spans = others /\ reduced.bytes = Bytes(others)
       /\ reduced.dropped = Saturated(b.dropped + omitted)
       /\ reduced.fields = b.fields + omitted
       /\ reduced.observed = b.observed /\ reduced.kept = b.kept
       /\ reduced.dropped_logs = b.dropped_logs /\ reduced.observed_logs = b.observed_logs
  <2>1. CASE omitted = 0
    <3>1. reduced = b /\ others = b.spans
      BY <1>9, <2>1
    <3>2. Saturated(b.dropped + 0) = b.dropped
      BY SpanContentAssumption DEF Bucket, Saturated
    <3> HIDE DEF reduced
    <3> QED  BY <1>2, <2>1, <3>1, <3>2
  <2>2. CASE omitted # 0
    <3> DEFINE d == Dropping(b, omitted, "model_content_size_limit")
    <3>1. DroppedFrom(b, omitted, d)
      BY <1>7, DroppingFacts DEF Reasons
    <3>2. reduced = [d EXCEPT !.spans = others, !.bytes = Bytes(others), !.fields = @ + omitted]
      BY <2>2
    <3>3. others \in SUBSET Item
      BY <1>9 DEF Items
    <3> DEFINE e == [d EXCEPT !.spans = others, !.bytes = Bytes(others), !.fields = @ + omitted]
    <3> HIDE DEF d, reduced
    <3>4. d \in Bucket
      BY <3>1 DEF DroppedFrom
    <3>5. HoldingNow(d, others, Bytes(others), omitted, e)
      BY <1>7, <1>10, <3>3, <3>4, BucketChange
    <3>6. reduced = e
      BY <3>2
    <3> HIDE DEF e
    <3> QED  BY <3>1, <3>5, <3>6 DEF DroppedFrom, SameBut, HoldingNow
  <2> QED  BY <2>1, <2>2
<1> HIDE DEF reduced
<1>12. /\ held \in Bucket /\ held.spans = fitted /\ held.bytes = Bytes(fitted)
       /\ held.dropped = Saturated(b.dropped + omitted)
       /\ held.fields = b.fields + omitted
       /\ held.observed = b.observed /\ held.kept = b.kept
       /\ held.dropped_logs = b.dropped_logs /\ held.observed_logs = b.observed_logs
  <2>1. fitted \in SUBSET Item
    BY <1>8 DEF Items
  <2> QED  BY <1>10, <1>11, <2>1 DEF Bucket
<1> HIDE DEF held
<1>13. \A m \in Nat : Saturated(Saturated(b.dropped + omitted) + m) = Saturated(b.dropped + omitted + m)
  <2>1. b.dropped + omitted \in Nat
    BY <1>2, <1>7
  <2> QED  BY <2>1, SaturatedFacts
<1>14. CASE Cardinality(b.spans) >= MaxSpans /\ replaced = {}
  <2>1. Retaining(b, s) = Dropping(b, 1, "span_limit")
    BY <1>1, <1>14 DEF Sampling
  <2> DEFINE r == Dropping(b, 1, "span_limit")
  <2>2. "span_limit" \in Reasons
    BY DEF Reasons
  <2>3. DroppedFrom(b, 1, r)
    BY <2>2, DroppingFacts
  <2>4. b.dropped + 0 + 1 = b.dropped + 1 /\ b.fields = b.fields + 0
    BY <1>2
  <2>5. r.dropped = Saturated(b.dropped + 0 + 1)
    BY <2>3, <2>4 DEF DroppedFrom
  <2> HIDE DEF r
  <2>6. \E o \in Nat : \E lost \in {0, 1} :
          /\ r.dropped = Saturated(b.dropped + o + lost)
          /\ Cardinality(r.spans) + lost = Cardinality(b.spans) + 1
          /\ r.fields = b.fields + o
    <3>1. 0 \in Nat /\ 1 \in {0, 1}
      OBVIOUS
    <3>2. r.fields = b.fields + 0 /\ Cardinality(r.spans) + 1 = Cardinality(b.spans) + 1
      BY <2>3, <2>4 DEF DroppedFrom
    <3> QED  BY <2>5, <3>1, <3>2
  <2>7. /\ r \in Bucket /\ r.spans = b.spans /\ r.bytes = b.bytes
        /\ r.observed = b.observed /\ r.kept = b.kept
        /\ r.dropped_logs = b.dropped_logs /\ r.observed_logs = b.observed_logs
    BY <2>3 DEF DroppedFrom
  <2>8. /\ Items(r.spans) /\ SpansOf(r.spans) \subseteq SpansOf(b.spans) \union {s}
        /\ Cardinality(r.spans) <= MaxSpans
        /\ r.bytes = Bytes(r.spans) /\ capture.run_bytes + r.bytes <= MaxBytes
    BY <2>7
  <2>9. Retained(b, s, r)
    BY <2>6, <2>7, <2>8, Zenon DEF Retained
  <2> QED  BY <2>1, <2>9 DEF r
<1>15. CASE ~ (Cardinality(b.spans) >= MaxSpans /\ replaced = {}) /\ Bytes(fitted) > room
  <2> DEFINE r == Dropping(reduced, 1, "byte_limit")
  <2>1. Retaining(b, s) = r
    BY <1>1, <1>15
  <2>2. /\ r \in Bucket /\ r.dropped = Saturated(b.dropped + omitted + 1)
        /\ r.spans = others /\ r.bytes = Bytes(others)
        /\ r.fields = b.fields + omitted
        /\ r.observed = b.observed /\ r.kept = b.kept
        /\ r.dropped_logs = b.dropped_logs /\ r.observed_logs = b.observed_logs
    <3>1. "byte_limit" \in Reasons
      BY DEF Reasons
    <3>2. DroppedFrom(reduced, 1, r)
      BY <1>11, <3>1, DroppingFacts
    <3> HIDE DEF r
    <3> QED  BY <1>11, <1>13, <3>2 DEF DroppedFrom
  <2>3. capture.run_bytes + Bytes(others) <= MaxBytes
    BY <1>2, <1>10, TraceLimitsAssumption
  <2>4. Cardinality(r.spans) + 1 = Cardinality(b.spans) + 1
    BY <1>9, <2>2
  <2> HIDE DEF r
  <2> QED  BY <1>7, <1>9, <2>1, <2>2, <2>3, <2>4 DEF Retained
<1>16. CASE ~ (Cardinality(b.spans) >= MaxSpans /\ replaced = {}) /\ ~ (Bytes(fitted) > room)
  <2>1. /\ Cardinality(fitted) + Cardinality(replaced) = Cardinality(b.spans) + 1
        /\ Cardinality(fitted) <= MaxSpans
        /\ capture.run_bytes + Bytes(fitted) <= MaxBytes
    BY <1>2, <1>3, <1>5, <1>6, <1>8, <1>10, <1>16, TraceLimitsAssumption
  <2>2. SpansOf(fitted) \subseteq SpansOf(b.spans) \union {s}
    BY <1>6, <1>8
  <2>3. CASE replaced = {}
    <3>1. Retaining(b, s) = held
      BY <1>1, <1>16, <2>3
    <3>2. b.dropped + omitted + 0 = b.dropped + omitted /\ Cardinality(fitted) + 0 = Cardinality(b.spans) + 1
      BY <1>2, <1>5, <1>7, <2>1, <2>3
    <3> QED  BY <1>7, <1>8, <1>12, <2>1, <2>2, <3>1, <3>2 DEF Retained
  <2>4. CASE replaced # {}
    <3> DEFINE r == Dropping(held, 1, "span_limit")
    <3>1. Retaining(b, s) = r
      BY <1>1, <1>16, <2>4 DEF Sampling
    <3>2. /\ r \in Bucket /\ r.dropped = Saturated(b.dropped + omitted + 1)
          /\ r.spans = fitted /\ r.bytes = Bytes(fitted)
          /\ r.fields = b.fields + omitted
          /\ r.observed = b.observed /\ r.kept = b.kept
          /\ r.dropped_logs = b.dropped_logs /\ r.observed_logs = b.observed_logs
      <4>1. "span_limit" \in Reasons
        BY DEF Reasons
      <4>2. DroppedFrom(held, 1, r)
        BY <1>12, <4>1, DroppingFacts
      <4> HIDE DEF r
      <4> QED  BY <1>12, <1>13, <4>2 DEF DroppedFrom
    <3>3. Cardinality(fitted) + 1 = Cardinality(b.spans) + 1
      BY <1>5, <2>1, <2>4
    <3> HIDE DEF r
    <3> QED  BY <1>7, <1>8, <2>1, <2>2, <3>1, <3>2, <3>3 DEF Retained
  <2> QED  BY <2>3, <2>4
<1> QED  BY <1>14, <1>15, <1>16

----------------------------------------------------------------------------
(* Preparing a step.                                                       *)

\* What is left of a topology is closed: no item without its parent.
LEMMA ClosedFacts ==
  ASSUME NEW A
  PROVE  /\ TopologyClosed(A) \subseteq A
         /\ \A i \in TopologyClosed(A) :
              Parent[i.span] \in SpansOf(TopologyClosed(A)) \union {NoSpan}
<1> DEFINE C == {closed \in SUBSET A :
                   \A i \in closed : Parent[i.span] \in SpansOf(closed) \union {NoSpan}}
<1>1. TopologyClosed(A) = UNION C
  BY DEF TopologyClosed, SpansOf
<1>2. \A closed \in C : SpansOf(closed) \subseteq SpansOf(UNION C)
  BY DEF SpansOf
<1>3. \A i \in UNION C : Parent[i.span] \in SpansOf(UNION C) \union {NoSpan}
  <2> SUFFICES ASSUME NEW closed \in C, NEW i \in closed
               PROVE  Parent[i.span] \in SpansOf(UNION C) \union {NoSpan}
    OBVIOUS
  <2>1. Parent[i.span] \in SpansOf(closed) \union {NoSpan}
    OBVIOUS
  <2> QED  BY <1>2, <2>1
<1> QED  BY <1>1, <1>3

\* Spans begin once, and parents before their children.
Begun(A) == \A i \in A : \E n \in 1 .. Len(begun) : begun[n] = i.span

InOrder ==
  /\ \A m, n \in 1 .. Len(begun) : begun[m] = begun[n] => m = n
  /\ \A m, n \in 1 .. Len(begun) : begun[m] = Parent[begun[n]] => m < n

LEMMA StartOrderFacts ==
  ASSUME begun \in Seq(Span), NEW A, Begun(A)
  PROVE  \A i \in A : /\ StartOrder(i.span) \in 1 .. Len(begun)
                      /\ StartOrder(i.span) \in Nat
                      /\ begun[StartOrder(i.span)] = i.span
<1> SUFFICES ASSUME NEW i \in A
             PROVE  /\ StartOrder(i.span) \in 1 .. Len(begun)
                    /\ begun[StartOrder(i.span)] = i.span
  BY LenProperties
<1>1. \E n \in 1 .. Len(begun) : begun[n] = i.span
  BY DEF Begun
<1> QED  BY <1>1 DEF StartOrder

\* The first k spans are k spans, and with a span its retained parent is there.
LEMMA EarliestFacts ==
  ASSUME begun \in Seq(Span), InOrder, NEW A, Items(A), Begun(A),
         NEW k \in 0 .. Cardinality(A)
  PROVE  /\ Earliest(A, k) \subseteq A
         /\ Cardinality(Earliest(A, k)) = k
         /\ \A i \in Earliest(A, k) : \A j \in A :
              j.span = Parent[i.span] => j \in Earliest(A, k)
<1> DEFINE ord == [i \in A |-> StartOrder(i.span)]
<1>1. \A i \in A : /\ StartOrder(i.span) \in 1 .. Len(begun) /\ StartOrder(i.span) \in Nat
                   /\ begun[StartOrder(i.span)] = i.span
  BY StartOrderFacts
<1>2. ord \in [A -> Nat] /\ \A i, j \in A : ord[i] = ord[j] => i = j
  BY <1>1 DEF Items
<1>3. Earliest(A, k) = Foremost(A, ord, k)
  <2>1. \A i \in A : {j \in A : StartOrder(j.span) < StartOrder(i.span)} = {j \in A : ord[j] < ord[i]}
    OBVIOUS
  <2> HIDE DEF ord
  <2> QED  BY <2>1 DEF Earliest, Foremost
<1>4. Cardinality(Earliest(A, k)) = k
  <2>1. IsFiniteSet(A)
    BY DEF Items
  <2> HIDE DEF ord
  <2> QED  BY <1>2, <1>3, <2>1, FirstOnes
<1>5. ASSUME NEW i \in Earliest(A, k), NEW j \in A, j.span = Parent[i.span]
      PROVE  j \in Earliest(A, k)
  <2> DEFINE below(x) == {y \in A : ord[y] < ord[x]}
  <2>1. i \in A /\ Cardinality(below(i)) < k
    BY <1>3 DEF Foremost
  <2>2. ord[j] < ord[i]
    BY <1>1, <1>5, <2>1 DEF InOrder
  <2>3. below(j) \subseteq below(i) /\ IsFiniteSet(below(i))
    <3>1. IsFiniteSet(A) /\ below(i) \in SUBSET A
      BY DEF Items
    <3>2. IsFiniteSet(below(i))
      <4> HIDE DEF below
      <4> QED  BY <3>1, FS_Subset
    <3>3. ord[i] \in Nat /\ ord[j] \in Nat /\ \A y \in A : ord[y] \in Nat
      BY <1>2, <2>1
    <3> HIDE DEF ord
    <3> QED  BY <2>2, <3>2, <3>3
  <2>4. Cardinality(below(j)) <= Cardinality(below(i)) /\ Cardinality(below(j)) \in Nat
        /\ Cardinality(below(i)) \in Nat
    <3> HIDE DEF below
    <3> QED  BY <2>3, FS_Subset, FS_CardinalityType
  <2>5. Cardinality(below(j)) < k
    <3> HIDE DEF below
    <3> QED  BY <2>1, <2>4, FS_CardinalityType DEF Items
  <2> QED  BY <1>3, <2>5 DEF Foremost
<1> QED  BY <1>3, <1>4, <1>5 DEF Foremost

\* What _fit_evidence leaves of a closed topology: the spans it pops are
\* counted, what remains is closed, and with its envelope it fits the Run.
Fitted(A, f) ==
  /\ f.fits \in BOOLEAN /\ f.omitted \in Nat /\ f.popped \in Nat
  /\ Items(f.spans) /\ SpansOf(f.spans) \subseteq SpansOf(A)
  /\ Cardinality(f.spans) + f.popped = Cardinality(A)
  /\ \A i \in f.spans : Parent[i.span] \in SpansOf(f.spans) \union {NoSpan}
  /\ f.fits => capture.run_bytes + 1 + Bytes(f.spans) <= MaxBytes

LEMMA FittingFacts ==
  ASSUME begun \in Seq(Span), InOrder, NEW A, Items(A), Begun(A),
         \A i \in A : Parent[i.span] \in SpansOf(A) \union {NoSpan},
         capture.run_bytes \in Nat
  PROVE  Fitted(A, Fitting(A))
<1> DEFINE left == MaxBytes - capture.run_bytes
           available == IF \E i \in A : BodySize[i.span] > 0
                        THEN Least(left, ArtifactBytes) ELSE left
           omitted == Omissions(A, available - 1)
           lean == Omitting(A, omitted)
           n == Cardinality(A)
           T == {k \in 0 .. n : k = n \/ Bytes(Earliest(lean, n - k)) < available}
           popped == Min(T)
           rest == Earliest(lean, n - popped)
<1>1. Fitting(A) = [fits |-> Bytes(rest) < available, omitted |-> omitted,
                    popped |-> popped, spans |-> rest]
  BY DEF Fitting
<1>2. left \in Int /\ available \in Int /\ available <= left /\ n \in Nat
  BY FS_CardinalityType, TraceLimitsAssumption DEF Least, Items
<1> HIDE DEF left, available, n
<1>3. omitted \in Nat
  BY OmissionsFacts
<1> HIDE DEF omitted
<1>4. /\ Items(lean) /\ SpansOf(lean) = SpansOf(A) /\ Cardinality(lean) = n
  BY <1>3, OmittingFacts DEF n
<1> HIDE DEF lean
<1>5. popped \in 0 .. n
  <2>1. n \in T /\ T \subseteq 0 .. n /\ T \in SUBSET Nat
    BY <1>2
  <2> HIDE DEF T
  <2> QED  BY <2>1, MinIsLeast
<1> HIDE DEF popped
<1>6. Begun(lean)
  <2>1. \A i \in lean : \E j \in A : j.span = i.span
    BY <1>4 DEF SpansOf
  <2> QED  BY <2>1 DEF Begun
<1>7. /\ rest \subseteq lean /\ Cardinality(rest) = n - popped
      /\ \A i \in rest : \A j \in lean : j.span = Parent[i.span] => j \in rest
  <2>1. n - popped \in 0 .. Cardinality(lean)
    BY <1>2, <1>4, <1>5
  <2> QED  BY <1>4, <1>6, <2>1, EarliestFacts
<1> HIDE DEF rest
<1>8. Items(rest) /\ SpansOf(rest) \subseteq SpansOf(A)
  BY <1>4, <1>7, ItemsSubset
<1>9. ASSUME NEW i \in rest PROVE Parent[i.span] \in SpansOf(rest) \union {NoSpan}
  <2>1. PICK a \in A : a.span = i.span
    BY <1>8 DEF SpansOf
  <2>2. Parent[i.span] \in SpansOf(lean) \union {NoSpan}
    BY <1>4, <2>1
  <2>3. CASE Parent[i.span] \in SpansOf(lean)
    <3>1. PICK j \in lean : j.span = Parent[i.span]
      BY <2>3 DEF SpansOf
    <3>2. j \in rest
      BY <1>7, <3>1
    <3> QED  BY <3>1, <3>2 DEF SpansOf
  <2> QED  BY <2>2, <2>3
<1>10. Bytes(rest) < available => capture.run_bytes + 1 + Bytes(rest) <= MaxBytes
  <2>1. Bytes(rest) \in Nat
    BY <1>8, BytesFacts DEF Items
  <2> QED  BY <1>2, <2>1, TraceLimitsAssumption DEF left
<1> DEFINE fits == Bytes(rest) < available
           f == [fits |-> fits, omitted |-> omitted, popped |-> popped, spans |-> rest]
<1>11. fits \in BOOLEAN /\ (fits => capture.run_bytes + 1 + Bytes(rest) <= MaxBytes)
  BY <1>10
<1>12. Cardinality(rest) + popped = n /\ popped \in Nat
  BY <1>2, <1>5, <1>7
<1>13. Fitting(A) = f
  BY <1>1
<1> HIDE DEF fits
<1>14. f.fits = fits /\ f.spans = rest /\ f.popped = popped /\ f.omitted = omitted
  OBVIOUS
<1> HIDE DEF f
<1>15. Fitted(A, f)
  BY <1>3, <1>8, <1>9, <1>11, <1>12, <1>14 DEF Fitted, n
<1> QED  BY <1>13, <1>15

\* What the log segment of a step keeps, drops and costs.
Segmented(b, log) ==
  /\ log.retained \in Nat /\ log.dropped \in Nat /\ log.size \in Nat
  /\ log.status \in {"complete", "partial", "failed"}
  /\ b.observed_logs = log.retained + log.dropped
       + (IF log.retained > 0 THEN Cardinality(LogsInFlight) ELSE 0)
  /\ capture.run_log_bytes + log.size <= MaxLogBytes

LEMMA SegmentFacts ==
  ASSUME NEW b \in Bucket, IsFiniteSet(b.kept), IsFiniteSet(LogsInFlight),
         b.observed_logs = Cardinality(b.kept) + b.dropped_logs + Cardinality(LogsInFlight),
         capture.run_log_bytes \in Nat, capture.run_log_bytes <= MaxLogBytes
  PROVE  Segmented(b, LogSegment(b))
<1> DEFINE room == MaxLogBytes - capture.run_log_bytes
           n == Cardinality(b.kept)
           retained == IF n < room THEN n ELSE IF room > 1 THEN room - 1 ELSE 0
           dropped == IF retained = 0 THEN Max({b.dropped_logs + n, b.observed_logs})
                      ELSE b.dropped_logs + n - retained
           size == IF retained = 0 THEN 0 ELSE retained + 1
           lossless == b.log_reasons = {} /\ retained = n /\ n > 0
           status == IF lossless \/ b.observed_logs = 0 THEN "complete"
                     ELSE IF retained > 0 THEN "partial" ELSE "failed"
           log == [retained |-> retained, dropped |-> dropped, size |-> size,
                   status |-> status]
<1>1. LogSegment(b) = log
  BY DEF LogSegment
<1>2. /\ n \in Nat /\ room \in Nat /\ b.dropped_logs \in Nat /\ b.observed_logs \in Nat
      /\ Cardinality(LogsInFlight) \in Nat
  BY FS_CardinalityType, TraceLimitsAssumption DEF Bucket
<1>3. b.observed_logs = n + b.dropped_logs + Cardinality(LogsInFlight)
  OBVIOUS
<1> HIDE DEF n
<1>4. /\ retained \in Nat /\ retained <= n /\ (retained > 0 => retained + 1 <= room)
  BY <1>2
<1>5. Max({b.dropped_logs + n, b.observed_logs}) = b.observed_logs
  BY <1>2, <1>3 DEF Max
<1> HIDE DEF retained
<1>6. /\ dropped \in Nat
      /\ retained = 0 => dropped = b.observed_logs
      /\ retained > 0 => dropped = b.dropped_logs + n - retained
  BY <1>2, <1>4, <1>5
<1>7. size \in Nat /\ size <= room
  BY <1>2, <1>4
<1>8. status \in {"complete", "partial", "failed"}
  OBVIOUS
<1> HIDE DEF dropped, size, status
<1>9. capture.run_log_bytes + size <= MaxLogBytes
  BY <1>2, <1>7, TraceLimitsAssumption
<1>10. b.observed_logs = retained + dropped
         + (IF retained > 0 THEN Cardinality(LogsInFlight) ELSE 0)
  <2>1. CASE retained = 0
    BY <1>2, <1>6, <2>1
  <2>2. CASE retained > 0
    BY <1>2, <1>3, <1>4, <1>6, <2>2
  <2> QED  BY <1>4, <2>1, <2>2
<1>11. log.retained = retained /\ log.dropped = dropped /\ log.size = size /\ log.status = status
  OBVIOUS
<1> HIDE DEF log
<1>12. Segmented(b, log)
  BY <1>4, <1>6, <1>7, <1>8, <1>9, <1>10, <1>11 DEF Segmented
<1> QED  BY <1>1, <1>12

\* A bucket whose counters agree with what it holds, when n spans and m
\* records are counted and neither retained nor dropped.
Tally(b, n, m) ==
  /\ b \in Bucket /\ Items(b.spans) /\ IsFiniteSet(b.kept)
  /\ b.observed >= Cardinality(b.spans) + n
  /\ b.dropped = Saturated(b.observed - Cardinality(b.spans) - n + b.fields)
  /\ b.bytes = Bytes(b.spans) /\ Cardinality(b.spans) <= MaxSpans
  /\ b.observed_logs = Cardinality(b.kept) + b.dropped_logs + m

\* A bucket that may be prepared: it agrees with what is under way.
Ready(b) ==
  /\ Begun(b.spans) /\ IsFiniteSet(InFlight) /\ IsFiniteSet(LogsInFlight)
  /\ Tally(b, Cardinality(InFlight), Cardinality(LogsInFlight))

\* What is prepared from it: typed, accounted for, paid for, and valid.
Sound(p) ==
  /\ p \in Staged
  /\ RecordsAccounted(p)
  /\ capture.run_bytes + p.size <= MaxBytes
  /\ capture.run_log_bytes + p.log_size <= MaxLogBytes
  /\ p.evidence /\ p.in_flight = 0 => ValidCapture(p)

LEMMA PreparedFacts ==
  ASSUME begun \in Seq(Span), InOrder, NEW b, Ready(b),
         capture.run_bytes \in Nat, capture.run_log_bytes \in Nat,
         capture.run_bytes <= MaxBytes, capture.run_log_bytes <= MaxLogBytes
  PROVE  Sound(Prepared(b))
<1> DEFINE closed == TopologyClosed(b.spans)
           partial == Cardinality(b.spans) - Cardinality(closed)
           fit == Fitting(closed)
           log == LogSegment(b)
           lost == b.dropped + partial + fit.omitted + fit.popped
                     + (IF fit.fits THEN 0 ELSE 1)
           because(condition, reason) == IF condition THEN {reason} ELSE {}
           reasons == b.reasons
             \union because(partial > 0, "topology_partial")
             \union because(fit.omitted > 0, "model_content_size_limit")
             \union because(fit.popped > 0, "byte_limit")
             \union because(~fit.fits, "budget_exhausted")
           status == IF fit.fits /\ reasons = {} /\ lost = 0 THEN "complete"
                     ELSE IF fit.spans # {} THEN "partial" ELSE "failed"
           size == IF fit.fits THEN 1 + Bytes(fit.spans) ELSE 0
           p == [prepared |-> TRUE, evidence |-> fit.fits, spans |-> fit.spans,
                 dropped |-> Saturated(lost), reasons |-> reasons,
                 observed |-> b.observed, fields |-> b.fields + fit.omitted,
                 size |-> size, status |-> status,
                 logs |-> log.retained, dropped_logs |-> log.dropped,
                 observed_logs |-> b.observed_logs, log_size |-> log.size,
                 log_status |-> log.status,
                 in_flight |-> Cardinality(InFlight),
                 logs_in_flight |-> Cardinality(LogsInFlight)]
<1>1. Prepared(b) = p
  BY DEF Prepared
<1>2. /\ b.dropped \in Nat /\ b.observed \in Nat /\ b.fields \in Nat /\ b.observed_logs \in Nat
      /\ b.reasons \in SUBSET Reasons /\ b \in Bucket
      /\ Cardinality(InFlight) \in Nat /\ Cardinality(LogsInFlight) \in Nat
      /\ Cardinality(b.spans) \in Nat
  <2>1. b \in Bucket /\ IsFiniteSet(InFlight) /\ IsFiniteSet(LogsInFlight) /\ IsFiniteSet(b.spans)
    BY DEF Ready, Tally, Items
  <2>2. /\ b.dropped \in Nat /\ b.observed \in Nat /\ b.fields \in Nat
        /\ b.observed_logs \in Nat /\ b.reasons \in SUBSET Reasons
    BY <2>1 DEF Bucket
  <2> QED  BY <2>1, <2>2, FS_CardinalityType
<1>3. /\ closed \in SUBSET b.spans
      /\ \A i \in closed : Parent[i.span] \in SpansOf(closed) \union {NoSpan}
  BY ClosedFacts
<1>4. /\ Items(closed) /\ Begun(closed) /\ Cardinality(closed) \in Nat
      /\ partial \in Nat
  <2>1. Items(closed) /\ Begun(closed)
    BY <1>3, ItemsSubset DEF Ready, Tally, Begun
  <2>2. Cardinality(closed) <= Cardinality(b.spans)
    BY <1>3, FS_Subset DEF Ready, Tally, Items
  <2>3. Cardinality(closed) \in Nat
    BY <2>1, FS_CardinalityType DEF Items
  <2> QED  BY <1>2, <2>1, <2>2, <2>3
<1>5. Fitted(closed, fit)
  BY <1>3, <1>4, FittingFacts
<1>6. Segmented(b, log)
  BY <1>2, SegmentFacts DEF Ready, Tally
<1> HIDE DEF closed, fit, log
<1>7. /\ fit.fits \in BOOLEAN /\ fit.omitted \in Nat /\ fit.popped \in Nat
      /\ fit.spans \in SUBSET Item /\ IsFiniteSet(fit.spans)
      /\ Cardinality(fit.spans) \in Nat /\ Bytes(fit.spans) \in Nat
  BY <1>5, BytesFacts, FS_CardinalityType DEF Fitted, Items
<1> HIDE DEF partial
<1> DEFINE dr == b.dropped
           ob == b.observed
           fi == b.fields
           om == fit.omitted
           po == fit.popped
<1>0. /\ dr \in Nat /\ ob \in Nat /\ fi \in Nat
      /\ partial \in Nat /\ om \in Nat /\ po \in Nat
  BY <1>2, <1>4, <1>7
<1>8. lost \in Nat /\ (fit.fits => lost = dr + partial + om + po)
  <2>1. CASE fit.fits
    <3>1. lost = dr + partial + om + po + 0
      BY <2>1
    <3> HIDE DEF lost, dr, om, po
    <3> QED  BY <1>0, <3>1
  <2>2. CASE ~ fit.fits
    <3>1. lost = dr + partial + om + po + 1
      BY <2>2
    <3> HIDE DEF lost, dr, om, po
    <3> QED  BY <1>0, <2>2, <3>1
  <2> QED  BY <1>7, <2>1, <2>2
<1> HIDE DEF lost
<1>9. reasons \in SUBSET Reasons
  BY <1>2 DEF Reasons
<1>10. status \in {"complete", "partial", "failed"} /\ size \in Nat
  BY <1>7
<1>11. Saturated(lost) \in 0 .. MaxDropped
  BY <1>8, SaturatedFacts
<1>12. fit.fits => capture.run_bytes + size <= MaxBytes
  <2> SUFFICES ASSUME fit.fits PROVE capture.run_bytes + size <= MaxBytes
    OBVIOUS
  <2>1. capture.run_bytes + 1 + Bytes(fit.spans) <= MaxBytes /\ size = 1 + Bytes(fit.spans)
    BY <1>5 DEF Fitted
  <2> QED  BY <1>7, <2>1, TraceLimitsAssumption
<1>13. capture.run_bytes + size <= MaxBytes
  <2>1. CASE fit.fits
    BY <1>12, <2>1
  <2>2. CASE ~ fit.fits
    BY <2>2, TraceLimitsAssumption
  <2> QED  BY <2>1, <2>2
<1>14. ASSUME fit.fits
       PROVE  /\ status = "complete" <=> reasons = {} /\ lost = 0
              /\ status # "complete" => status = (IF fit.spans # {} THEN "partial" ELSE "failed")
  BY <1>14
<1> HIDE DEF reasons, status, size
<1>15. /\ p.prepared = TRUE /\ p.evidence = fit.fits /\ p.spans = fit.spans
       /\ p.dropped = Saturated(lost) /\ p.reasons = reasons /\ p.observed = b.observed
       /\ p.fields = b.fields + fit.omitted /\ p.size = size /\ p.status = status
       /\ p.logs = log.retained /\ p.dropped_logs = log.dropped
       /\ p.observed_logs = b.observed_logs /\ p.log_size = log.size
       /\ p.in_flight = Cardinality(InFlight) /\ p.logs_in_flight = Cardinality(LogsInFlight)
  OBVIOUS
<1>16. p \in Staged
  <2>1. /\ log.retained \in Nat /\ log.dropped \in Nat /\ log.size \in Nat
        /\ log.status \in {"complete", "partial", "failed"}
    BY <1>6 DEF Segmented
  <2>2. b.fields + fit.omitted \in Nat
    BY <1>2, <1>7
  <2> QED  BY <1>2, <1>7, <1>9, <1>10, <1>11, <2>1, <2>2 DEF Staged
<1> HIDE DEF p
<1>17. RecordsAccounted(p) /\ capture.run_log_bytes + p.log_size <= MaxLogBytes
  BY <1>6, <1>15 DEF Segmented, RecordsAccounted
<1>18. ASSUME fit.fits, Cardinality(InFlight) = 0
       PROVE  ValidCapture(p)
  <2> DEFINE x == b.observed - Cardinality(b.spans) + b.fields
             gone == p.observed - Cardinality(p.spans)
  <2>1. b.observed >= Cardinality(b.spans) /\ b.dropped = Saturated(x) /\ x \in Nat
    BY <1>2, <1>18 DEF Ready, Tally
  <2>2. /\ Cardinality(fit.spans) + fit.popped = Cardinality(closed)
        /\ partial = Cardinality(b.spans) - Cardinality(closed)
    BY <1>5 DEF Fitted, partial
  <2> DEFINE ns == Cardinality(b.spans)
             nc == Cardinality(closed)
             nf == Cardinality(fit.spans)
             y == partial + om + po
  <2>a. ns \in Nat /\ nc \in Nat /\ nf \in Nat
    BY <1>2, <1>4, <1>7
  <2>b. /\ x = ob - ns + fi
        /\ gone = ob - nf
        /\ p.fields = fi + om /\ p.observed = ob
        /\ Cardinality(p.spans) = nf
        /\ nf + po = nc /\ partial = ns - nc /\ ob >= ns
    BY <1>15, <2>1, <2>2
  <2> HIDE DEF ns, nc, nf, gone, x, dr, ob, fi, om, po
  <2>3. p.observed >= Cardinality(p.spans) /\ gone \in Nat
    BY <1>0, <2>a, <2>b
  <2>4. gone + p.fields = x + y
    BY <1>0, <2>a, <2>b
  <2>5. y \in Nat /\ lost = Saturated(x) + y
    <3>1. lost = dr + partial + om + po /\ dr = Saturated(x)
      BY <1>8, <1>18, <2>1 DEF dr
    <3>2. y \in Nat /\ dr + partial + om + po = dr + y
      BY <1>0
    <3> HIDE DEF y
    <3> QED  BY <3>1, <3>2
  <2> HIDE DEF y
  <2>6. p.dropped = Saturated(gone + p.fields)
    <3>1. Saturated(Saturated(x) + y) = Saturated(x + y)
      BY <2>1, <2>5, SaturatedFacts
    <3> QED  BY <1>15, <2>4, <2>5, <3>1
  <2>7. p.fields \in Nat /\ p.dropped \in Nat /\ (p.dropped = 0 <=> lost = 0)
    <3>1. Saturated(lost) \in Nat /\ (Saturated(lost) = 0 <=> lost = 0)
      BY <1>8, <1>11, SaturatedFacts
    <3> QED  BY <1>2, <1>7, <1>15, <3>1
  <2>8. p.dropped = 0 => gone = 0 /\ p.fields = 0
    <3>1. gone + p.fields \in Nat
      BY <2>3, <2>7
    <3>2. Saturated(gone + p.fields) = 0 <=> gone + p.fields = 0
      BY <3>1, SaturatedFacts
    <3> QED  BY <2>3, <2>6, <2>7, <3>2
  <2> HIDE DEF gone
  <2>9. p.status = IF ~ (p.reasons # {} \/ p.dropped > 0) THEN "complete"
                   ELSE IF p.spans # {} THEN "partial" ELSE "failed"
    <3>1. (p.reasons # {} \/ p.dropped > 0) <=> ~ (reasons = {} /\ lost = 0)
      BY <1>15, <2>7
    <3> QED  BY <1>14, <1>15, <1>18, <3>1
  <2>10. p.status = "complete" => p.dropped = 0
    BY <1>14, <1>15, <1>18, <2>7
  <2>11. \A i \in p.spans : Parent[i.span] \in SpansOf(p.spans) \union {NoSpan}
    BY <1>5, <1>15 DEF Fitted
  <2>12. p.dropped >= Saturated(gone + p.fields)
    BY <2>6, <2>7
  <2> QED  BY <2>3, <2>8, <2>9, <2>10, <2>11, <2>12 DEF ValidCapture, SpansOf, gone
<1>19. p.evidence /\ p.in_flight = 0 => ValidCapture(p)
  BY <1>15, <1>18
<1>20. Sound(p)
  BY <1>13, <1>15, <1>16, <1>17, <1>19 DEF Sound
<1> QED  BY <1>1, <1>20

----------------------------------------------------------------------------
(* What the steps do to a tally.                                           *)

LEMMA TallyTypes ==
  ASSUME NEW b, NEW n, NEW m, Tally(b, n, m)
  PROVE  /\ b \in Bucket /\ b.observed \in Nat /\ b.dropped \in Nat /\ b.fields \in Nat
         /\ Cardinality(b.spans) \in Nat /\ Cardinality(b.kept) \in Nat
         /\ b.dropped_logs \in Nat /\ b.observed_logs \in Nat
         /\ b.spans \in SUBSET Item /\ b.kept \in SUBSET Record
<1>1. b \in Bucket /\ IsFiniteSet(b.spans) /\ IsFiniteSet(b.kept)
  BY DEF Tally, Items
<1>2. Cardinality(b.spans) \in Nat /\ Cardinality(b.kept) \in Nat
  BY <1>1, FS_CardinalityType
<1>3. /\ b.observed \in Nat /\ b.dropped \in Nat /\ b.fields \in Nat
      /\ b.dropped_logs \in Nat /\ b.observed_logs \in Nat
  BY <1>1 DEF Bucket
<1>4. b.spans \in SUBSET Item /\ b.kept \in SUBSET Record
  BY <1>1 DEF Bucket
<1> QED  BY <1>1, <1>2, <1>3, <1>4

\* Spans that are observed and dropped at once.
LEMMA TallyObserveDrop ==
  ASSUME NEW b, NEW n \in Nat, NEW m \in Nat, Tally(b, n, m), NEW k \in Nat,
         NEW reason \in Reasons
  PROVE  LET r == Dropping([b EXCEPT !.observed = @ + k], k, reason)
         IN  Tally(r, n, m) /\ r.spans = b.spans /\ r.bytes = b.bytes /\ r.kept = b.kept
<1> DEFINE c == [b EXCEPT !.observed = @ + k]
           r == Dropping(c, k, reason)
           j == b.observed + k
           x == b.observed - Cardinality(b.spans) - n + b.fields
<1>1. /\ b \in Bucket /\ b.observed \in Nat /\ b.dropped \in Nat /\ b.fields \in Nat
      /\ Cardinality(b.spans) \in Nat
  BY TallyTypes
<1>2. j \in Nat /\ c = [b EXCEPT !.observed = j]
  BY <1>1
<1> HIDE DEF j
<1>3. /\ c \in Bucket /\ c.observed = j /\ c.spans = b.spans /\ c.bytes = b.bytes
      /\ c.dropped = b.dropped /\ c.fields = b.fields /\ c.kept = b.kept
      /\ c.dropped_logs = b.dropped_logs /\ c.observed_logs = b.observed_logs
  BY <1>1, <1>2 DEF Bucket
<1> HIDE DEF c
<1>4. DroppedFrom(c, k, r)
  BY <1>3, DroppingFacts
<1> HIDE DEF r
<1>5. /\ r \in Bucket /\ r.dropped = Saturated(b.dropped + k) /\ r.observed = b.observed + k
      /\ r.spans = b.spans /\ r.bytes = b.bytes /\ r.fields = b.fields /\ r.kept = b.kept
      /\ r.dropped_logs = b.dropped_logs /\ r.observed_logs = b.observed_logs
  BY <1>3, <1>4 DEF DroppedFrom, j
<1>6. b.dropped = Saturated(x) /\ x \in Nat
  BY <1>1 DEF Tally
<1>7. r.observed - Cardinality(r.spans) - n + r.fields = x + k
  BY <1>1, <1>5
<1> HIDE DEF x
<1>8. r.dropped = Saturated(x + k)
  BY <1>5, <1>6, SaturatedFacts
<1>9. r.observed >= Cardinality(r.spans) + n
  BY <1>1, <1>5 DEF Tally
<1>10. Tally(r, n, m)
  BY <1>5, <1>7, <1>8, <1>9 DEF Tally
<1> QED  BY <1>5, <1>10 DEF r, c

LEMMA TallyRefuse ==
  ASSUME NEW b, NEW n \in Nat, NEW m \in Nat, Tally(b, n, m), NEW reason \in Reasons
  PROVE  LET r == Dropping(Observing(b), 1, reason)
         IN  Tally(r, n, m) /\ r.spans = b.spans /\ r.bytes = b.bytes /\ r.kept = b.kept
<1> DEFINE r == Dropping([b EXCEPT !.observed = @ + 1], 1, reason)
<1>1. Tally(r, n, m) /\ r.spans = b.spans /\ r.bytes = b.bytes /\ r.kept = b.kept
  <2>1. \A k \in Nat : LET q == Dropping([b EXCEPT !.observed = @ + k], k, reason)
          IN  Tally(q, n, m) /\ q.spans = b.spans /\ q.bytes = b.bytes /\ q.kept = b.kept
    BY TallyObserveDrop
  <2>2. 1 \in Nat
    OBVIOUS
  <2> HIDE DEF r
  <2> QED  BY <2>1, <2>2, Zenon DEF r
<1>2. Dropping(Observing(b), 1, reason) = r
  BY DEF Observing
<1> HIDE DEF r
<1> QED  BY <1>1, <1>2

\* A span that is observed, and on its way.
LEMMA TallyObserve ==
  ASSUME NEW b, NEW n \in Nat, NEW m \in Nat, Tally(b, n, m)
  PROVE  LET r == Observing(b)
         IN  Tally(r, n + 1, m) /\ r.spans = b.spans /\ r.bytes = b.bytes /\ r.kept = b.kept
<1> DEFINE r == Observing(b)
           j == b.observed + 1
<1>1. /\ b \in Bucket /\ b.observed \in Nat /\ b.fields \in Nat /\ Cardinality(b.spans) \in Nat
  BY TallyTypes
<1>2. j \in Nat /\ r = [b EXCEPT !.observed = j]
  BY <1>1 DEF Observing
<1> HIDE DEF j
<1>3. /\ r \in Bucket /\ r.observed = j /\ r.spans = b.spans /\ r.bytes = b.bytes
      /\ r.dropped = b.dropped /\ r.fields = b.fields /\ r.kept = b.kept
      /\ r.dropped_logs = b.dropped_logs /\ r.observed_logs = b.observed_logs
  BY <1>1, <1>2 DEF Bucket
<1> HIDE DEF r
<1>4. r.observed - Cardinality(r.spans) - (n + 1) + r.fields
        = b.observed - Cardinality(b.spans) - n + b.fields
  BY <1>1, <1>3 DEF j
<1>5. r.observed >= Cardinality(r.spans) + (n + 1)
  BY <1>1, <1>3 DEF j, Tally
<1>6. Tally(r, n + 1, m)
  BY <1>3, <1>4, <1>5 DEF Tally
<1> QED  BY <1>3, <1>6 DEF r

\* A span on its way whose mapping failed.
LEMMA TallyDrop ==
  ASSUME NEW b, NEW n \in Nat, NEW m \in Nat, Tally(b, n + 1, m), NEW reason \in Reasons
  PROVE  LET r == Dropping(b, 1, reason)
         IN  Tally(r, n, m) /\ r.spans = b.spans /\ r.bytes = b.bytes /\ r.kept = b.kept
<1> DEFINE r == Dropping(b, 1, reason)
           x == b.observed - Cardinality(b.spans) - (n + 1) + b.fields
<1>1. /\ b \in Bucket /\ b.observed \in Nat /\ b.dropped \in Nat /\ b.fields \in Nat
      /\ Cardinality(b.spans) \in Nat
  BY TallyTypes
<1>2. DroppedFrom(b, 1, r)
  BY <1>1, DroppingFacts
<1> HIDE DEF r
<1>3. b.dropped = Saturated(x) /\ x \in Nat
  BY <1>1 DEF Tally
<1>4. r.observed - Cardinality(r.spans) - n + r.fields = x + 1
  BY <1>1, <1>2 DEF DroppedFrom
<1> HIDE DEF x
<1>5. r.dropped = Saturated(x + 1)
  BY <1>2, <1>3, SaturatedFacts DEF DroppedFrom
<1>6. r.observed >= Cardinality(r.spans) + n
  BY <1>1, <1>2 DEF DroppedFrom, Tally
<1>7. Tally(r, n, m)
  BY <1>2, <1>4, <1>5, <1>6 DEF DroppedFrom, Tally
<1> QED  BY <1>2, <1>7 DEF DroppedFrom, r

\* A span on its way whose mapping succeeded.
LEMMA TallyRetain ==
  ASSUME NEW b, NEW n \in Nat, NEW m \in Nat, Tally(b, n + 1, m),
         NEW s \in Span, s \notin SpansOf(b.spans),
         capture.run_bytes \in Nat, capture.run_bytes + b.bytes <= MaxBytes
  PROVE  LET r == Retaining(b, s)
         IN  /\ Tally(r, n, m) /\ capture.run_bytes + r.bytes <= MaxBytes
             /\ SpansOf(r.spans) \subseteq SpansOf(b.spans) \union {s} /\ r.kept = b.kept
<1> DEFINE r == Retaining(b, s)
           x == b.observed - Cardinality(b.spans) - (n + 1) + b.fields
<1>1. /\ b \in Bucket /\ b.observed \in Nat /\ b.dropped \in Nat /\ b.fields \in Nat
      /\ Cardinality(b.spans) \in Nat
  BY TallyTypes
<1>2. Retained(b, s, r)
  BY <1>1, RetainingFacts DEF Tally
<1> HIDE DEF r
<1>3. PICK omitted \in Nat : \E lost \in {0, 1} :
        /\ r.dropped = Saturated(b.dropped + omitted + lost)
        /\ Cardinality(r.spans) + lost = Cardinality(b.spans) + 1
        /\ r.fields = b.fields + omitted
  BY <1>2 DEF Retained
<1>4. PICK lost \in {0, 1} :
        /\ r.dropped = Saturated(b.dropped + omitted + lost)
        /\ Cardinality(r.spans) + lost = Cardinality(b.spans) + 1
        /\ r.fields = b.fields + omitted
  BY <1>3
<1>5. b.dropped = Saturated(x) /\ x \in Nat
  BY <1>1 DEF Tally
<1> DEFINE nr == Cardinality(r.spans)
           nb == Cardinality(b.spans)
           ob == b.observed
           fi == b.fields
<1>6. /\ nr \in Nat /\ nb \in Nat /\ ob \in Nat /\ fi \in Nat /\ r.observed = ob
      /\ nr + lost = nb + 1 /\ r.fields = fi + omitted /\ x = ob - nb - (n + 1) + fi
      /\ ob >= nb + (n + 1)
  BY <1>1, <1>2, <1>4, FS_CardinalityType DEF Retained, Items, Tally
<1> HIDE DEF x, nr, nb, ob, fi
<1>7. r.observed - nr - n + r.fields = x + (omitted + lost)
  BY <1>6
<1>8. r.dropped = Saturated(x + (omitted + lost))
  <2>1. omitted + lost \in Nat /\ b.dropped + omitted + lost = b.dropped + (omitted + lost)
    BY <1>1
  <2>2. Saturated(Saturated(x) + (omitted + lost)) = Saturated(x + (omitted + lost))
    BY <1>5, <2>1, SaturatedFacts
  <2> QED  BY <1>4, <1>5, <2>1, <2>2
<1>9. r.observed >= nr + n
  BY <1>6
<1> USE DEF nr
<1>10. /\ r \in Bucket /\ Items(r.spans) /\ IsFiniteSet(r.kept) /\ r.bytes = Bytes(r.spans)
       /\ Cardinality(r.spans) <= MaxSpans
       /\ r.observed_logs = Cardinality(r.kept) + r.dropped_logs + m
  <2>1. IsFiniteSet(b.kept) /\ b.observed_logs = Cardinality(b.kept) + b.dropped_logs + m
    BY DEF Tally
  <2> QED  BY <1>2, <2>1 DEF Retained
<1>11. Tally(r, n, m)
  BY <1>7, <1>8, <1>9, <1>10 DEF Tally
<1> QED  BY <1>2, <1>11 DEF Retained, r

\* A log record that is observed, and on its way.
LEMMA TallyObserveLog ==
  ASSUME NEW b, NEW n \in Nat, NEW m \in Nat, Tally(b, n, m)
  PROVE  LET r == [b EXCEPT !.observed_logs = @ + 1]
         IN  Tally(r, n, m + 1) /\ r.spans = b.spans /\ r.bytes = b.bytes /\ r.kept = b.kept
<1> DEFINE r == [b EXCEPT !.observed_logs = @ + 1]
           j == b.observed_logs + 1
<1>1. b \in Bucket /\ b.observed_logs \in Nat /\ b.dropped_logs \in Nat /\ Cardinality(b.kept) \in Nat
  BY TallyTypes
<1>2. j \in Nat /\ r = [b EXCEPT !.observed_logs = j]
  BY <1>1
<1> HIDE DEF j
<1>3. /\ r \in Bucket /\ r.observed = b.observed /\ r.spans = b.spans /\ r.bytes = b.bytes
      /\ r.dropped = b.dropped /\ r.fields = b.fields /\ r.kept = b.kept
      /\ r.dropped_logs = b.dropped_logs /\ r.observed_logs = j
  BY <1>1, <1>2 DEF Bucket
<1> HIDE DEF r
<1>4. r.observed_logs = Cardinality(r.kept) + r.dropped_logs + (m + 1)
  BY <1>1, <1>3 DEF j, Tally
<1>5. Tally(r, n, m + 1)
  BY <1>3, <1>4 DEF Tally
<1> QED  BY <1>3, <1>5 DEF r

\* A log record on its way that is dropped.
LEMMA TallyDropLog ==
  ASSUME NEW b, NEW n \in Nat, NEW m \in Nat, Tally(b, n, m + 1),
         NEW reason \in {"mapping", "limit", "byte_limit"}
  PROVE  LET r == DroppingLog(b, reason)
         IN  Tally(r, n, m) /\ r.spans = b.spans /\ r.bytes = b.bytes /\ r.kept = b.kept
<1> DEFINE r == DroppingLog(b, reason)
           j == b.dropped_logs + 1
           l == b.log_reasons \union {reason}
<1>1. /\ b \in Bucket /\ b.observed_logs \in Nat /\ b.dropped_logs \in Nat /\ Cardinality(b.kept) \in Nat
      /\ l \in SUBSET {"mapping", "limit", "byte_limit"}
  <2>1. b \in Bucket
    BY TallyTypes
  <2>2. b.log_reasons \in SUBSET {"mapping", "limit", "byte_limit"}
    BY <2>1 DEF Bucket
  <2> QED  BY <2>2, TallyTypes
<1>2. j \in Nat /\ r = [b EXCEPT !.dropped_logs = j, !.log_reasons = l]
  BY <1>1 DEF DroppingLog
<1> HIDE DEF j, l
<1>3. /\ r \in Bucket /\ r.observed = b.observed /\ r.spans = b.spans /\ r.bytes = b.bytes
      /\ r.dropped = b.dropped /\ r.fields = b.fields /\ r.kept = b.kept
      /\ r.dropped_logs = j /\ r.observed_logs = b.observed_logs
  BY <1>1, <1>2 DEF Bucket
<1> HIDE DEF r
<1>4. r.observed_logs = Cardinality(r.kept) + r.dropped_logs + m
  BY <1>1, <1>3 DEF j, Tally
<1>5. Tally(r, n, m)
  BY <1>3, <1>4 DEF Tally
<1> QED  BY <1>3, <1>5 DEF r

\* A log record on its way that is kept.
LEMMA TallyKeepLog ==
  ASSUME NEW b, NEW n \in Nat, NEW m \in Nat, Tally(b, n, m + 1),
         NEW x \in Record, x \notin b.kept
  PROVE  LET r == KeepingLog(b, x)
         IN  Tally(r, n, m) /\ r.spans = b.spans /\ r.bytes = b.bytes
             /\ r.kept = b.kept \union {x}
<1> DEFINE r == KeepingLog(b, x)
           k == b.kept \union {x}
<1>1. /\ b \in Bucket /\ b.observed_logs \in Nat /\ b.dropped_logs \in Nat /\ Cardinality(b.kept) \in Nat
      /\ k \in SUBSET Record
  BY TallyTypes
<1>2. r = [b EXCEPT !.kept = k]
  BY <1>1 DEF KeepingLog
<1>3. IsFiniteSet(k) /\ Cardinality(k) = Cardinality(b.kept) + 1
  BY FS_AddElement DEF Tally
<1> HIDE DEF k
<1>4. /\ r \in Bucket /\ r.observed = b.observed /\ r.spans = b.spans /\ r.bytes = b.bytes
      /\ r.dropped = b.dropped /\ r.fields = b.fields /\ r.kept = k
      /\ r.dropped_logs = b.dropped_logs /\ r.observed_logs = b.observed_logs
  BY <1>1, <1>2 DEF Bucket
<1> HIDE DEF r
<1>5. r.observed_logs = Cardinality(r.kept) + r.dropped_logs + m
  BY <1>1, <1>3, <1>4 DEF Tally
<1>6. Tally(r, n, m)
  BY <1>3, <1>4, <1>5 DEF Tally
<1> QED  BY <1>4, <1>6 DEF r, k

LEMMA TallyEmpty == Tally(EmptyBucket, 0, 0)
<1>1. EmptyBucket \in Bucket
  BY SpanContentAssumption DEF EmptyBucket, Bucket
<1>2. Items({}) /\ IsFiniteSet({}) /\ Cardinality({}) = 0 /\ Bytes({}) = 0
  BY FS_EmptySet, BytesFacts DEF Items
<1>3. Saturated(0) = 0
  BY SpanContentAssumption DEF Saturated
<1> QED  BY <1>1, <1>2, <1>3, TraceLimitsAssumption DEF Tally, EmptyBucket

\* Counting the spans that are still open keeps a bucket in order.
LEMMA CountedFacts ==
  ASSUME NEW b, Ready(b), IsFiniteSet(capture.registered), IsFiniteSet(capture.prewindow)
  PROVE  /\ Ready(Counted(b)) /\ Counted(b).spans = b.spans /\ Counted(b).bytes = b.bytes
         /\ Counted(b).kept = b.kept
<1> DEFINE open == Cardinality(capture.registered) + Cardinality(capture.prewindow)
           r == Dropping([b EXCEPT !.observed = @ + open], open, "outside_window")
<1>1. open \in Nat /\ Cardinality(InFlight) \in Nat /\ Cardinality(LogsInFlight) \in Nat
  BY FS_CardinalityType DEF Ready
<1>2. Counted(b) = IF open = 0 THEN b ELSE r
  BY DEF Counted
<1> HIDE DEF open
<1>3. CASE open = 0
  BY <1>2, <1>3
<1>4. CASE open # 0
  <2>1. "outside_window" \in Reasons
    BY DEF Reasons
  <2>2. /\ Tally(r, Cardinality(InFlight), Cardinality(LogsInFlight))
        /\ r.spans = b.spans /\ r.bytes = b.bytes /\ r.kept = b.kept
    BY <1>1, <2>1, TallyObserveDrop DEF Ready
  <2> HIDE DEF r
  <2> QED  BY <1>2, <1>4, <2>2 DEF Ready
<1> QED  BY <1>3, <1>4

----------------------------------------------------------------------------
(* The inductive invariant.                                                *)

\* There is a bucket exactly while a window is open or staged, never both;
\* only an open window holds registrations.
WindowInv ==
  /\ capture.bucket # NoBucket <=> (capture.active \/ staged # NoStage)
  /\ ~ (capture.active /\ staged # NoStage)
  /\ capture.registered # {} => capture.active

\* No export is ahead of the current window.
ExportsInv ==
  /\ \A s \in Span : exporting[s].window <= capture.window
  /\ \A r \in Record : logging[r].window <= capture.window

\* Spans begin once, parents before their children; what is on its way has
\* begun.
Moving == {"open", "popped", "mapping", "missed"}

BegunInv ==
  /\ InOrder
  /\ \A n \in 1 .. Len(begun) : exporting[begun[n]].phase # "unstarted"
  /\ \A n \in 1 .. Len(begun) : Parent[begun[n]] \in Span =>
       exporting[Parent[begun[n]]].phase # "unstarted"
  /\ \A s \in Span : exporting[s].phase \in Moving =>
       \E n \in 1 .. Len(begun) : begun[n] = s

\* What is registered is open and not counted yet; nothing that may still be
\* counted has been counted, and nothing is counted twice.
ChargeInv ==
  /\ capture.registered \cap capture.prewindow = {}
  /\ IsFiniteSet(capture.registered) /\ IsFiniteSet(capture.prewindow)
  /\ \A s \in capture.registered \union capture.prewindow :
       exporting[s].phase = "open" /\ charged[s] = 0
  /\ \A s \in Span : exporting[s].phase \in {"unstarted", "popped"} => charged[s] = 0
  /\ \A s \in Span : charged[s] <= 1

\* A bucket agrees with what is under way, holds what was exported, and fits
\* what the Run has left.
Holding(b) ==
  /\ Ready(b)
  /\ \A i \in b.spans : exporting[i.span].phase = "done"
  /\ \A r \in b.kept : logging[r].phase = "done"
  /\ capture.run_bytes + b.bytes <= MaxBytes

BucketInv == capture.bucket # NoBucket => Holding(capture.bucket)

StageInv == staged # NoStage => Sound(staged)

BudgetInv == capture.run_bytes <= MaxBytes /\ capture.run_log_bytes <= MaxLogBytes

TInv ==
  /\ TraceTypeOK /\ WindowInv /\ ExportsInv /\ BegunInv /\ ChargeInv
  /\ BucketInv /\ StageInv /\ BudgetInv

----------------------------------------------------------------------------
(* What the steps have in common.                                          *)

Capture ==
  [active: BOOLEAN, window: 0 .. MaxSteps, bucket: {NoBucket} \union Bucket,
   registered: SUBSET Span, prewindow: SUBSET Span, run_bytes: Nat, run_log_bytes: Nat]

LEMMA Shapes ==
  ASSUME TraceTypeOK
  PROVE  /\ capture \in Capture
         /\ capture.window \in 0 .. MaxSteps /\ capture.window \in Int
         /\ capture.registered \in SUBSET Span /\ capture.prewindow \in SUBSET Span
         /\ capture.run_bytes \in Nat /\ capture.run_log_bytes \in Nat
         /\ capture.bucket # NoBucket => capture.bucket \in Bucket
         /\ staged # NoStage => staged \in Staged
         /\ begun \in Seq(Span)
         /\ \A s \in Span : charged[s] \in Nat /\ exporting[s].window \in Int
         /\ \A r \in Record : logging[r].window \in Int
BY DEF TraceTypeOK, Capture

LEMMA BucketNotNone == \A c \in Bucket : c # NoBucket
BY DEF Bucket, NoBucket

LEMMA StagedNotNone == \A p \in Staged : p # NoStage
BY DEF Staged, NoStage

LEMMA BucketExists ==
  ASSUME TraceTypeOK
  PROVE  /\ capture.bucket.exists <=> capture.bucket # NoBucket
         /\ staged.prepared <=> staged # NoStage
<1>1. CASE capture.bucket = NoBucket
  <2>1. ~ capture.bucket.exists
    BY <1>1 DEF NoBucket
  <2>2. CASE staged = NoStage
    BY <1>1, <2>1, <2>2 DEF NoStage
  <2>3. CASE staged # NoStage
    BY <1>1, <2>1, <2>3, Shapes DEF Staged
  <2> QED  BY <2>2, <2>3
<1>2. CASE capture.bucket # NoBucket
  <2>1. capture.bucket.exists
    BY <1>2, Shapes DEF Bucket
  <2>2. CASE staged = NoStage
    BY <1>2, <2>1, <2>2 DEF NoStage
  <2>3. CASE staged # NoStage
    BY <1>2, <2>1, <2>3, Shapes DEF Staged
  <2> QED  BY <2>2, <2>3
<1> QED  BY <1>1, <1>2

\* Nothing stands in the way of an export when its window is open.
LEMMA OpenWindow ==
  ASSUME TInv, NEW w, InWindow(w)
  PROVE  capture.active /\ w = capture.window /\ capture.bucket # NoBucket
         /\ capture.bucket \in Bucket /\ Holding(capture.bucket)
BY Shapes, BucketExists DEF TInv, InWindow, BucketInv, WindowInv

\* s has phase p, associated with window w, and nothing else has moved.
Moves(s, p, w) ==
  /\ exporting' \in [Span -> [phase: Phases, window: 0 .. MaxSteps]]
  /\ exporting'[s].phase = p /\ exporting'[s].window = w
  /\ \A t \in Span \ {s} : exporting'[t] = exporting[t]

LEMMA MovesPhase ==
  ASSUME TraceTypeOK, NEW s \in Span, NEW p \in Phases,
         exporting' = [exporting EXCEPT ![s].phase = p]
  PROVE  Moves(s, p, exporting[s].window)
<1>1. exporting \in [Span -> [phase: Phases, window: 0 .. MaxSteps]]
  BY DEF TraceTypeOK
<1> QED  BY <1>1 DEF Moves

LEMMA MovesBoth ==
  ASSUME TraceTypeOK, NEW s \in Span, NEW p \in Phases, NEW w \in 0 .. MaxSteps,
         exporting' = [exporting EXCEPT ![s] = [phase |-> p, window |-> w]]
  PROVE  Moves(s, p, w)
<1>1. exporting \in [Span -> [phase: Phases, window: 0 .. MaxSteps]]
  BY DEF TraceTypeOK
<1> QED  BY <1>1 DEF Moves

\* A move of a begun span keeps the order.
LEMMA MovesInOrder ==
  ASSUME TInv, NEW s \in Span, NEW p, NEW w, Moves(s, p, w), p # "unstarted",
         exporting[s].phase \in Moving, UNCHANGED <<begun, logging>>,
         capture'.window = capture.window, w \in Int, w <= capture.window
  PROVE  ExportsInv' /\ BegunInv'
<1>1. ExportsInv'
  <2>1. ASSUME NEW t \in Span PROVE exporting'[t].window <= capture'.window
    <3>1. CASE t = s
      BY <3>1 DEF Moves
    <3>2. CASE t # s
      BY <3>2 DEF Moves, TInv, ExportsInv
    <3> QED  BY <3>1, <3>2
  <2> QED  BY <2>1 DEF TInv, ExportsInv
<1>2. begun \in Seq(Span) /\ \A n \in 1 .. Len(begun) : begun[n] \in Span
  BY Shapes, ElementOfSeq DEF TInv
<1>3. \A t \in Span : exporting[t].phase # "unstarted" => exporting'[t].phase # "unstarted"
  BY DEF Moves
<1>4. \A t \in Span : exporting'[t].phase \in Moving => exporting[t].phase \in Moving
  BY DEF Moves
<1>5. InOrder'
  BY DEF TInv, BegunInv, InOrder
<1>6. BegunInv'
  BY <1>2, <1>3, <1>4, <1>5 DEF TInv, BegunInv
<1> QED  BY <1>1, <1>6

\* A stage that is not touched stays sound while its Run pays nothing.
LEMMA StageKept ==
  ASSUME TInv, UNCHANGED staged, capture'.run_bytes = capture.run_bytes,
         capture'.run_log_bytes = capture.run_log_bytes
  PROVE  StageInv' /\ BudgetInv'
BY DEF TInv, StageInv, BudgetInv, Sound, RecordsAccounted, ValidCapture

----------------------------------------------------------------------------
(* The spans.                                                              *)

\* What is counted and not retained, when s moves within its window.
LEMMA InFlightKept ==
  ASSUME TraceTypeOK, NEW s \in Span, NEW p, NEW w, Moves(s, p, w),
         s \in InFlight <=> p \in {"mapping", "missed"} /\ w = capture.window,
         UNCHANGED logging, capture'.window = capture.window
  PROVE  InFlight' = InFlight /\ LogsInFlight' = LogsInFlight
BY DEF InFlight, LogsInFlight, Under, Moves

\* A bucket stays in order while its spans and records stay where they are.
LEMMA HoldingKept ==
  ASSUME TInv, NEW s \in Span, NEW p, NEW w, Moves(s, p, w), p = "done" \/ exporting[s].phase # "done",
         UNCHANGED logging, capture'.run_bytes = capture.run_bytes,
         \A t : (\E n \in 1 .. Len(begun) : begun[n] = t)
                 => (\E n \in 1 .. Len(begun') : begun'[n] = t),
         IsFiniteSet(InFlight'), IsFiniteSet(LogsInFlight'),
         NEW c \in Bucket, capture'.bucket = c,
         Tally(c, Cardinality(InFlight'), Cardinality(LogsInFlight')),
         capture.run_bytes + c.bytes <= MaxBytes,
         capture.bucket # NoBucket, c.kept = capture.bucket.kept,
         SpansOf(c.spans) \subseteq SpansOf(capture.bucket.spans) \union {s},
         s \in SpansOf(c.spans) => p = "done" /\ \E n \in 1 .. Len(begun) : begun[n] = s
  PROVE  BucketInv'
<1>1. Holding(capture.bucket)
  BY DEF TInv, BucketInv
<1>2. ASSUME NEW i \in c.spans
      PROVE  exporting'[i.span].phase = "done" /\ \E n \in 1 .. Len(begun') : begun'[n] = i.span
  <2>1. i.span \in SpansOf(c.spans) /\ i.span \in Span
    BY TallyTypes DEF SpansOf, Item
  <2>2. CASE i.span = s
    BY <2>1, <2>2 DEF Moves
  <2>3. CASE i.span # s
    <3>1. PICK j \in capture.bucket.spans : j.span = i.span
      BY <2>1, <2>3 DEF SpansOf
    <3>2. exporting'[i.span] = exporting[i.span]
      BY <2>1, <2>3 DEF Moves
    <3> QED  BY <1>1, <3>1, <3>2 DEF Holding, Ready, Begun
  <2> QED  BY <2>2, <2>3
<1>3. \A r \in c.kept : logging'[r].phase = "done"
  BY <1>1 DEF Holding
<1> QED  BY <1>2, <1>3 DEF BucketInv, Holding, Ready, Begun

\* The counting of s, when no other span is counted or registered.
LEMMA ChargeMove ==
  ASSUME TInv, NEW s \in Span, NEW p, NEW w, Moves(s, p, w),
         NEW R, NEW P, capture'.registered = R, capture'.prewindow = P,
         R \cap P = {}, IsFiniteSet(R), IsFiniteSet(P),
         R \subseteq Span, P \subseteq Span,
         \A t \in R \union P : t # s => t \in capture.registered \union capture.prewindow,
         s \in R \union P => p = "open" /\ charged'[s] = 0,
         p \in {"unstarted", "popped"} => charged'[s] = 0,
         charged'[s] <= 1, \A t \in Span \ {s} : charged'[t] = charged[t]
  PROVE  ChargeInv'
<1>1. ASSUME NEW t \in R \union P
      PROVE  exporting'[t].phase = "open" /\ charged'[t] = 0
  <2>1. CASE t = s
    BY <1>1, <2>1 DEF Moves
  <2>2. CASE t # s
    BY <1>1, <2>2 DEF Moves, TInv, ChargeInv
  <2> QED  BY <2>1, <2>2
<1>2. ASSUME NEW t \in Span
      PROVE  /\ exporting'[t].phase \in {"unstarted", "popped"} => charged'[t] = 0
             /\ charged'[t] <= 1
  <2>1. CASE t = s
    BY <2>1 DEF Moves
  <2>2. CASE t # s
    BY <2>2 DEF Moves, TInv, ChargeInv
  <2> QED  BY <2>1, <2>2
<1> QED  BY <1>1, <1>2 DEF ChargeInv

LEMMA AppendBegun ==
  ASSUME begun \in Seq(Span), NEW s \in Span, begun' = Append(begun, s)
  PROVE  /\ begun' \in Seq(Span) /\ Len(begun) \in Nat /\ Len(begun') = Len(begun) + 1
         /\ begun'[Len(begun) + 1] = s
         /\ \A n \in 1 .. Len(begun) : begun'[n] = begun[n] /\ begun[n] \in Span
BY AppendProperties, LenProperties, ElementOfSeq

LEMMA RegisterSpanKeeps ==
  ASSUME TInv, NEW s \in Span, RegisterSpan(s)
  PROVE  TInv'
<1>1. /\ exporting[s].phase = "unstarted" /\ Moves(s, "open", exporting[s].window)
      /\ Parent[s] \in Span => exporting[Parent[s]].phase # "unstarted"
      /\ begun' = Append(begun, s) /\ logging' = logging /\ staged' = staged
  BY MovesPhase DEF RegisterSpan, Phases, TInv
<1>2. /\ capture \in Capture /\ begun \in Seq(Span) /\ charged[s] = 0
      /\ exporting[s].window \in Int
  BY <1>1, Shapes DEF TInv, ChargeInv
<1>3. /\ s \notin capture.registered /\ s \notin capture.prewindow
      /\ \A n \in 1 .. Len(begun) : begun[n] # s
  BY <1>1 DEF TInv, ChargeInv, BegunInv
<1> DEFINE L == Len(begun)
<1>4. /\ begun' \in Seq(Span) /\ L \in Nat /\ Len(begun') = L + 1
      /\ begun'[L + 1] = s
      /\ \A n \in 1 .. L : begun'[n] = begun[n] /\ begun[n] \in Span
  BY <1>1, <1>2, AppendBegun
<1>5. BegunInv'
  <2> HIDE DEF L
  <2>1. \A n \in 1 .. L + 1 : n \in 1 .. L \/ n = L + 1
    BY <1>4
  <2>2. \A t \in Span : exporting[t].phase # "unstarted" => exporting'[t].phase # "unstarted"
    BY <1>1 DEF Moves
  <2>3. exporting'[s].phase # "unstarted"
    BY <1>1 DEF Moves
  <2>4. \A n \in 1 .. L : exporting[begun[n]].phase # "unstarted" /\
          (Parent[begun[n]] \in Span => exporting[Parent[begun[n]]].phase # "unstarted")
    BY DEF TInv, BegunInv, L
  <2>5. \A m, n \in 1 .. L + 1 : begun'[m] = begun'[n] => m = n
    BY <1>3, <1>4, <2>1 DEF TInv, BegunInv, InOrder, L
  <2>6. ASSUME NEW m \in 1 .. L + 1, NEW n \in 1 .. L + 1, begun'[m] = Parent[begun'[n]]
        PROVE  m < n
    <3>1. CASE m \in 1 .. L /\ n \in 1 .. L
      BY <1>4, <2>6, <3>1 DEF TInv, BegunInv, InOrder, L
    <3>2. CASE m \in 1 .. L /\ n = L + 1
      BY <1>4, <3>2
    <3>3. CASE m = L + 1 /\ n \in 1 .. L
      <4>1. Parent[begun[n]] = s
        BY <1>4, <2>6, <3>3
      <4> QED  BY <1>1, <2>4, <3>3, <4>1
    <3>4. CASE m = L + 1 /\ n = L + 1
      BY <1>1, <1>4, <2>6, <3>4
    <3> QED  BY <2>1, <3>1, <3>2, <3>3, <3>4
  <2>7. \A n \in 1 .. L + 1 : exporting'[begun'[n]].phase # "unstarted"
    BY <1>4, <2>1, <2>2, <2>3, <2>4
  <2>8. \A n \in 1 .. L + 1 : Parent[begun'[n]] \in Span =>
          exporting'[Parent[begun'[n]]].phase # "unstarted"
    BY <1>1, <1>4, <2>1, <2>2, <2>4
  <2>9. ASSUME NEW t \in Span, exporting'[t].phase \in Moving
        PROVE  \E n \in 1 .. L + 1 : begun'[n] = t
    <3>1. CASE t = s
      BY <1>4, <3>1
    <3>2. CASE t # s
      <4>1. exporting[t].phase \in Moving
        BY <1>1, <2>9, <3>2 DEF Moves
      <4>2. PICK n \in 1 .. L : begun[n] = t
        BY <4>1 DEF TInv, BegunInv, L
      <4> QED  BY <1>4, <4>2
    <3> QED  BY <3>1, <3>2
  <2> QED  BY <1>4, <2>5, <2>6, <2>7, <2>8, <2>9 DEF BegunInv, InOrder
<1>6. \/ /\ ~ capture.active
         /\ capture' = [capture EXCEPT !.prewindow =
              IF Cardinality(@) < MaxOpen THEN @ \union {s} ELSE @]
         /\ charged' = charged
      \/ /\ capture.active
         /\ capture' = [capture EXCEPT !.registered = @ \union {s}]
         /\ charged' = charged
      \/ /\ capture.active
         /\ capture' = [capture EXCEPT !.bucket =
              Dropping(Observing(capture.bucket), 1, "span_limit")]
         /\ charged' = [charged EXCEPT ![s] = @ + 1]
  BY DEF RegisterSpan, Sampling
<1>7. /\ exporting' \in [Span -> [phase: Phases, window: 0 .. MaxSteps]]
      /\ charged \in [Span -> Nat] /\ logging' \in [Record -> [phase: Phases, window: 0 .. MaxSteps]]
      /\ staged' \in {NoStage} \union Staged
  BY <1>1 DEF Moves, TInv, TraceTypeOK
<1>8. ASSUME capture'.window = capture.window
      PROVE  ExportsInv' /\ InFlight' = InFlight /\ LogsInFlight' = LogsInFlight
  <2>1. s \notin InFlight
    BY <1>1 DEF InFlight, Under
  <2>2. InFlight' = InFlight /\ LogsInFlight' = LogsInFlight
    BY <1>1, <1>8, <2>1, InFlightKept DEF TInv
  <2>3. ASSUME NEW t \in Span PROVE exporting'[t].window <= capture'.window
    <3>1. CASE t = s
      BY <1>1, <1>8, <3>1 DEF Moves, TInv, ExportsInv
    <3>2. CASE t # s
      BY <1>1, <1>8, <3>2 DEF Moves, TInv, ExportsInv
    <3> QED  BY <3>1, <3>2
  <2> QED  BY <1>1, <1>8, <2>2, <2>3 DEF TInv, ExportsInv
<1>9. \A t : (\E n \in 1 .. Len(begun) : begun[n] = t)
              => (\E n \in 1 .. Len(begun') : begun'[n] = t)
  BY <1>4
<1>10. ASSUME NEW c \in Bucket, capture'.bucket = c, capture.bucket # NoBucket,
              capture'.window = capture.window, capture'.run_bytes = capture.run_bytes,
              Tally(c, Cardinality(InFlight), Cardinality(LogsInFlight)),
              c.spans = capture.bucket.spans, c.bytes = capture.bucket.bytes,
              c.kept = capture.bucket.kept
       PROVE  BucketInv'
  <2>1. Holding(capture.bucket)
    BY <1>10 DEF TInv, BucketInv
  <2>2. InFlight' = InFlight /\ LogsInFlight' = LogsInFlight
        /\ IsFiniteSet(InFlight) /\ IsFiniteSet(LogsInFlight)
    BY <1>8, <1>10, <2>1 DEF Holding, Ready
  <2>3. s \notin SpansOf(c.spans)
    BY <1>1, <1>10, <2>1 DEF Holding, SpansOf
  <2>4. capture.run_bytes + c.bytes <= MaxBytes
    BY <1>10, <2>1 DEF Holding
  <2>5. exporting[s].phase # "done"
    BY <1>1
  <2> QED  BY <1>1, <1>9, <1>10, <2>2, <2>3, <2>4, <2>5, HoldingKept
<1>11. ASSUME capture'.bucket = capture.bucket, capture'.window = capture.window,
              capture'.run_bytes = capture.run_bytes
       PROVE  BucketInv'
  <2>1. CASE capture.bucket = NoBucket
    BY <1>11, <2>1 DEF BucketInv
  <2>2. CASE capture.bucket # NoBucket
    <3>1. Holding(capture.bucket)
      BY <2>2 DEF TInv, BucketInv
    <3>2. /\ capture.bucket \in Bucket
          /\ Tally(capture.bucket, Cardinality(InFlight), Cardinality(LogsInFlight))
      BY <3>1 DEF Holding, Ready, Tally
    <3> QED  BY <1>10, <1>11, <2>2, <3>2
  <2> QED  BY <2>1, <2>2
<1>a. CASE /\ ~ capture.active
           /\ capture' = [capture EXCEPT !.prewindow =
                IF Cardinality(@) < MaxOpen THEN @ \union {s} ELSE @]
           /\ charged' = charged
  <2> DEFINE pw == IF Cardinality(capture.prewindow) < MaxOpen
                   THEN capture.prewindow \union {s} ELSE capture.prewindow
  <2>1. pw \in SUBSET Span /\ pw \subseteq capture.prewindow \union {s} /\ IsFiniteSet(pw)
    BY <1>2, Shapes, FS_AddElement DEF TInv, ChargeInv
  <2> HIDE DEF pw
  <2>2. capture' = [capture EXCEPT !.prewindow = pw]
    BY <1>2, <1>a DEF pw
  <2>3. /\ capture' \in Capture /\ capture'.prewindow = pw
        /\ capture'.active = capture.active /\ capture'.window = capture.window
        /\ capture'.bucket = capture.bucket /\ capture'.registered = capture.registered
        /\ capture'.run_bytes = capture.run_bytes
        /\ capture'.run_log_bytes = capture.run_log_bytes
    BY <1>2, <2>1, <2>2 DEF Capture
  <2>4. TraceTypeOK'
    BY <1>4, <1>7, <1>a, <2>3 DEF TraceTypeOK, Capture
  <2>5. WindowInv'
    BY <1>1, <2>3 DEF TInv, WindowInv
  <2>6. ChargeInv'
    <3>1. /\ capture.registered \cap pw = {} /\ IsFiniteSet(capture.registered)
          /\ capture.registered \subseteq Span /\ charged'[s] <= 1
      BY <1>2, <1>3, <1>a, <2>1, Shapes DEF TInv, ChargeInv
    <3> QED  BY <1>1, <1>2, <1>a, <2>1, <2>3, <3>1, ChargeMove
  <2>7. ExportsInv' /\ BucketInv' /\ StageInv' /\ BudgetInv'
    BY <1>1, <1>8, <1>11, <2>3, StageKept
  <2> QED  BY <1>5, <2>4, <2>5, <2>6, <2>7 DEF TInv
<1>b. CASE /\ capture.active
           /\ capture' = [capture EXCEPT !.registered = @ \union {s}]
           /\ charged' = charged
  <2> DEFINE re == capture.registered \union {s}
  <2>1. re \in SUBSET Span /\ IsFiniteSet(re)
    BY <1>2, Shapes, FS_AddElement DEF TInv, ChargeInv
  <2>2. capture' = [capture EXCEPT !.registered = re]
    BY <1>2, <1>b
  <2> HIDE DEF re
  <2>3. /\ capture' \in Capture /\ capture'.registered = re
        /\ capture'.active = capture.active /\ capture'.window = capture.window
        /\ capture'.bucket = capture.bucket /\ capture'.prewindow = capture.prewindow
        /\ capture'.run_bytes = capture.run_bytes
        /\ capture'.run_log_bytes = capture.run_log_bytes
    BY <1>2, <2>1, <2>2 DEF Capture
  <2>4. TraceTypeOK'
    BY <1>4, <1>7, <1>b, <2>3 DEF TraceTypeOK, Capture
  <2>5. WindowInv'
    BY <1>1, <1>b, <2>3 DEF TInv, WindowInv
  <2>6. ChargeInv'
    <3>1. /\ re \cap capture.prewindow = {} /\ IsFiniteSet(capture.prewindow)
          /\ capture.prewindow \subseteq Span /\ charged'[s] <= 1
          /\ \A t \in re : t # s => t \in capture.registered
      BY <1>2, <1>3, <1>b, Shapes DEF TInv, ChargeInv, re
    <3> QED  BY <1>1, <1>2, <1>b, <2>1, <2>3, <3>1, ChargeMove
  <2>7. ExportsInv' /\ BucketInv' /\ StageInv' /\ BudgetInv'
    BY <1>1, <1>8, <1>11, <2>3, StageKept
  <2> QED  BY <1>5, <2>4, <2>5, <2>6, <2>7 DEF TInv
<1>c. CASE /\ capture.active
           /\ capture' = [capture EXCEPT !.bucket =
                Dropping(Observing(capture.bucket), 1, "span_limit")]
           /\ charged' = [charged EXCEPT ![s] = @ + 1]
  <2> DEFINE b == capture.bucket
             c == Dropping(Observing(b), 1, "span_limit")
  <2>1. b # NoBucket /\ Holding(b) /\ "span_limit" \in Reasons
    BY <1>c DEF TInv, BucketInv, WindowInv, Reasons
  <2>2. Cardinality(InFlight) \in Nat /\ Cardinality(LogsInFlight) \in Nat
    BY <2>1, FS_CardinalityType DEF Holding, Ready
  <2>3. /\ Tally(c, Cardinality(InFlight), Cardinality(LogsInFlight))
        /\ c.spans = b.spans /\ c.bytes = b.bytes /\ c.kept = b.kept
    BY <2>1, <2>2, TallyRefuse DEF Holding, Ready
  <2>4. capture' = [capture EXCEPT !.bucket = c]
    BY <1>c
  <2> HIDE DEF c
  <2>5. c \in Bucket
    BY <2>3 DEF Tally
  <2>6. /\ capture' \in Capture /\ capture'.bucket = c
        /\ capture'.active = capture.active /\ capture'.window = capture.window
        /\ capture'.registered = capture.registered /\ capture'.prewindow = capture.prewindow
        /\ capture'.run_bytes = capture.run_bytes
        /\ capture'.run_log_bytes = capture.run_log_bytes
    BY <1>2, <2>4, <2>5 DEF Capture
  <2>7. /\ charged' \in [Span -> Nat] /\ charged'[s] = 1
        /\ \A t \in Span \ {s} : charged'[t] = charged[t]
    BY <1>2, <1>7, <1>c
  <2>8. TraceTypeOK'
    BY <1>4, <1>7, <2>6, <2>7 DEF TraceTypeOK, Capture
  <2>9. c # NoBucket
    BY <2>5 DEF Bucket, NoBucket
  <2>10. WindowInv'
    BY <1>1, <1>c, <2>6, <2>9 DEF TInv, WindowInv
  <2>11. ChargeInv'
    <3>1. /\ capture.registered \cap capture.prewindow = {}
          /\ IsFiniteSet(capture.registered) /\ IsFiniteSet(capture.prewindow)
          /\ capture.registered \subseteq Span /\ capture.prewindow \subseteq Span
          /\ charged'[s] <= 1
      BY <2>7, Shapes DEF TInv, ChargeInv
    <3>2. s \notin capture.registered \union capture.prewindow
      BY <1>3
    <3> QED  BY <1>1, <2>6, <2>7, <3>1, <3>2, ChargeMove
  <2>12. BucketInv'
    BY <1>10, <2>1, <2>3, <2>5, <2>6
  <2>13. ExportsInv' /\ StageInv' /\ BudgetInv'
    BY <1>1, <1>8, <2>6, StageKept
  <2> QED  BY <1>5, <2>8, <2>10, <2>11, <2>12, <2>13 DEF TInv
<1> QED  BY <1>6, <1>a, <1>b, <1>c

\* The bucket, when the export of s leaves the retained spans alone.
LEMMA BucketTallied ==
  ASSUME TInv, NEW s \in Span, NEW p, NEW w, Moves(s, p, w), exporting[s].phase # "done",
         UNCHANGED <<begun, logging>>, capture'.run_bytes = capture.run_bytes,
         IsFiniteSet(InFlight'), IsFiniteSet(LogsInFlight'),
         NEW c, capture'.bucket = c, capture.bucket # NoBucket,
         Tally(c, Cardinality(InFlight'), Cardinality(LogsInFlight')),
         c.spans = capture.bucket.spans, c.bytes = capture.bucket.bytes,
         c.kept = capture.bucket.kept
  PROVE  BucketInv'
<1>1. Holding(capture.bucket)
  BY DEF TInv, BucketInv
<1>2. s \notin SpansOf(c.spans)
  BY <1>1 DEF Holding, SpansOf
<1>3. capture.run_bytes + c.bytes <= MaxBytes /\ c \in Bucket
  BY <1>1 DEF Holding, Tally
<1> QED  BY <1>2, <1>3, HoldingKept

\* The same, when no counter changes either.
LEMMA BucketSame ==
  ASSUME TInv, NEW s \in Span, NEW p, NEW w, Moves(s, p, w), exporting[s].phase # "done",
         UNCHANGED <<begun, logging>>, capture'.run_bytes = capture.run_bytes,
         InFlight' = InFlight, LogsInFlight' = LogsInFlight,
         capture'.bucket = capture.bucket
  PROVE  BucketInv'
<1>1. CASE capture.bucket = NoBucket
  BY <1>1 DEF BucketInv
<1>2. CASE capture.bucket # NoBucket
  <2>1. Holding(capture.bucket)
    BY <1>2 DEF TInv, BucketInv
  <2>2. /\ Tally(capture.bucket, Cardinality(InFlight), Cardinality(LogsInFlight))
        /\ IsFiniteSet(InFlight) /\ IsFiniteSet(LogsInFlight)
    BY <2>1 DEF Holding, Ready
  <2> QED  BY <1>2, <2>2, BucketTallied
<1> QED  BY <1>1, <1>2

LEMMA ExportRegisteredSpanKeeps ==
  ASSUME TInv, NEW s \in Span, ExportRegisteredSpan(s)
  PROVE  TInv'
<1>1. exporting[s].phase = "open" /\ UNCHANGED <<begun, logging, staged>>
  BY DEF ExportRegisteredSpan
<1>2. /\ capture \in Capture /\ exporting[s].window \in Int
      /\ capture.window \in 0 .. MaxSteps /\ capture.window \in Int
      /\ exporting[s].window <= capture.window
      /\ capture.registered \in SUBSET Span /\ capture.prewindow \in SUBSET Span
      /\ charged \in [Span -> Nat] /\ charged[s] <= 1 /\ charged[s] \in Nat
  BY Shapes DEF TInv, ExportsInv, ChargeInv, TraceTypeOK
<1>3. /\ exporting[s].phase \in Moving /\ s \notin InFlight /\ exporting[s].phase # "done"
  BY <1>1 DEF Moving, InFlight, Under
<1>4. /\ capture.registered \cap capture.prewindow = {}
      /\ IsFiniteSet(capture.registered) /\ IsFiniteSet(capture.prewindow)
      /\ s \in capture.registered \union capture.prewindow => charged[s] = 0
  BY DEF TInv, ChargeInv
<1>5. ASSUME NEW p \in {"popped", "done"}, NEW w \in 0 .. MaxSteps, w <= capture.window,
             Moves(s, p, w), capture'.window = capture.window
      PROVE  /\ ExportsInv' /\ BegunInv' /\ InFlight' = InFlight /\ LogsInFlight' = LogsInFlight
             /\ exporting' \in [Span -> [phase: Phases, window: 0 .. MaxSteps]]
  <2>1. p # "unstarted" /\ w \in Int
    BY <1>5
  <2>2. ExportsInv' /\ BegunInv'
    BY <1>1, <1>3, <1>5, <2>1, MovesInOrder
  <2>3. InFlight' = InFlight /\ LogsInFlight' = LogsInFlight
    BY <1>1, <1>3, <1>5, InFlightKept DEF TInv
  <2> QED  BY <1>5, <2>2, <2>3 DEF Moves
<1>6. /\ begun' \in Seq(Span) /\ logging' \in [Record -> [phase: Phases, window: 0 .. MaxSteps]]
      /\ staged' \in {NoStage} \union Staged
  BY <1>1 DEF TInv, TraceTypeOK
<1>a. CASE /\ s \in capture.registered
           /\ capture' = [capture EXCEPT !.registered = @ \ {s}]
           /\ exporting' = [exporting EXCEPT
                ![s] = [phase |-> "popped", window |-> capture.window]]
           /\ UNCHANGED charged
  <2> DEFINE re == capture.registered \ {s}
  <2>1. Moves(s, "popped", capture.window)
    BY <1>2, <1>a, MovesBoth DEF Phases, TInv
  <2>2. re \in SUBSET Span /\ IsFiniteSet(re) /\ s \notin re /\ capture' = [capture EXCEPT !.registered = re]
    BY <1>2, <1>4, <1>a, FS_RemoveElement
  <2> HIDE DEF re
  <2>3. /\ capture' \in Capture /\ capture'.registered = re
        /\ capture'.active = capture.active /\ capture'.window = capture.window
        /\ capture'.bucket = capture.bucket /\ capture'.prewindow = capture.prewindow
        /\ capture'.run_bytes = capture.run_bytes
        /\ capture'.run_log_bytes = capture.run_log_bytes
    BY <1>2, <2>2 DEF Capture
  <2>4. /\ ExportsInv' /\ BegunInv' /\ InFlight' = InFlight /\ LogsInFlight' = LogsInFlight
        /\ exporting' \in [Span -> [phase: Phases, window: 0 .. MaxSteps]]
    BY <1>2, <1>5, <2>1, <2>3
  <2>5. TraceTypeOK'
    BY <1>2, <1>6, <1>a, <2>3, <2>4 DEF TraceTypeOK, Capture
  <2>6. WindowInv'
    BY <1>1, <2>3 DEF TInv, WindowInv, re
  <2>7. ChargeInv'
    <3>1. /\ re \cap capture.prewindow = {} /\ re \subseteq capture.registered
          /\ s \notin re \union capture.prewindow /\ charged'[s] = 0 /\ charged' = charged
      BY <1>4, <1>a, <2>2 DEF re
    <3> QED  BY <1>2, <1>4, <2>1, <2>2, <2>3, <3>1, ChargeMove
  <2>8. BucketInv'
    BY <1>1, <1>3, <2>1, <2>3, <2>4, BucketSame
  <2>9. StageInv' /\ BudgetInv'
    BY <1>1, <2>3, StageKept
  <2> QED  BY <2>4, <2>5, <2>6, <2>7, <2>8, <2>9 DEF TInv
<1> DEFINE pw == capture.prewindow \ {s}
<1>7. pw \in SUBSET Span /\ IsFiniteSet(pw) /\ s \notin pw
      /\ capture.registered \cap pw = {} /\ pw \subseteq capture.prewindow
  BY <1>2, <1>4, FS_RemoveElement
<1>b. CASE /\ s \notin capture.registered
           /\ exporting' = [exporting EXCEPT ![s].phase = "done"]
           /\ s \in capture.prewindow /\ capture.active
           /\ capture' = [capture EXCEPT
                !.prewindow = @ \ {s},
                !.bucket = Dropping(Observing(@), 1, "outside_window")]
           /\ charged' = [charged EXCEPT ![s] = @ + 1]
  <2> DEFINE b == capture.bucket
             c == Dropping(Observing(b), 1, "outside_window")
  <2>1. Moves(s, "done", exporting[s].window)
    BY <1>b, MovesPhase DEF Phases, TInv
  <2>2. b # NoBucket /\ Holding(b) /\ "outside_window" \in Reasons
    BY <1>b DEF TInv, BucketInv, WindowInv, Reasons
  <2>3. /\ Cardinality(InFlight) \in Nat /\ Cardinality(LogsInFlight) \in Nat
        /\ IsFiniteSet(InFlight) /\ IsFiniteSet(LogsInFlight)
    BY <2>2, FS_CardinalityType DEF Holding, Ready
  <2>4. /\ Tally(c, Cardinality(InFlight), Cardinality(LogsInFlight))
        /\ c.spans = b.spans /\ c.bytes = b.bytes /\ c.kept = b.kept
    BY <2>2, <2>3, TallyRefuse DEF Holding, Ready
  <2>5. capture' = [capture EXCEPT !.prewindow = pw, !.bucket = c]
    BY <1>b
  <2> HIDE DEF c, pw
  <2>6. c \in Bucket /\ c # NoBucket
    BY <2>4, BucketNotNone DEF Tally
  <2>7. /\ capture' \in Capture /\ capture'.bucket = c /\ capture'.prewindow = pw
        /\ capture'.active = capture.active /\ capture'.window = capture.window
        /\ capture'.registered = capture.registered
        /\ capture'.run_bytes = capture.run_bytes
        /\ capture'.run_log_bytes = capture.run_log_bytes
    BY <1>2, <1>7, <2>5, <2>6 DEF Capture
  <2>8. /\ ExportsInv' /\ BegunInv' /\ InFlight' = InFlight /\ LogsInFlight' = LogsInFlight
        /\ exporting' \in [Span -> [phase: Phases, window: 0 .. MaxSteps]]
    <3>1. exporting[s].window \in 0 .. MaxSteps
      BY DEF TInv, TraceTypeOK
    <3> QED  BY <1>2, <1>5, <2>1, <2>7, <3>1
  <2>9. /\ charged' \in [Span -> Nat] /\ charged'[s] = 1
        /\ \A t \in Span \ {s} : charged'[t] = charged[t]
    BY <1>2, <1>4, <1>b
  <2>10. TraceTypeOK'
    BY <1>6, <2>7, <2>8, <2>9 DEF TraceTypeOK, Capture
  <2>11. WindowInv'
    BY <1>1, <1>b, <2>6, <2>7 DEF TInv, WindowInv
  <2>12. ChargeInv'
    <3>1. s \notin capture.registered \union pw /\ charged'[s] <= 1
      BY <1>7, <1>b, <2>9
    <3> QED  BY <1>2, <1>4, <1>7, <2>1, <2>7, <2>9, <3>1, ChargeMove
  <2>13. BucketInv'
    BY <1>1, <1>3, <2>1, <2>2, <2>3, <2>4, <2>7, <2>8, BucketTallied
  <2>14. StageInv' /\ BudgetInv'
    BY <1>1, <2>7, StageKept
  <2> QED  BY <2>8, <2>10, <2>11, <2>12, <2>13, <2>14 DEF TInv
<1>c. CASE /\ s \notin capture.registered
           /\ exporting' = [exporting EXCEPT ![s].phase = "done"]
           /\ capture' = [capture EXCEPT !.prewindow = @ \ {s}]
           /\ UNCHANGED charged
  <2>1. Moves(s, "done", exporting[s].window)
    BY <1>c, MovesPhase DEF Phases, TInv
  <2>2. capture' = [capture EXCEPT !.prewindow = pw]
    BY <1>c
  <2> HIDE DEF pw
  <2>3. /\ capture' \in Capture /\ capture'.prewindow = pw
        /\ capture'.active = capture.active /\ capture'.window = capture.window
        /\ capture'.bucket = capture.bucket /\ capture'.registered = capture.registered
        /\ capture'.run_bytes = capture.run_bytes
        /\ capture'.run_log_bytes = capture.run_log_bytes
    BY <1>2, <1>7, <2>2 DEF Capture
  <2>4. /\ ExportsInv' /\ BegunInv' /\ InFlight' = InFlight /\ LogsInFlight' = LogsInFlight
        /\ exporting' \in [Span -> [phase: Phases, window: 0 .. MaxSteps]]
    <3>1. exporting[s].window \in 0 .. MaxSteps
      BY DEF TInv, TraceTypeOK
    <3> QED  BY <1>2, <1>5, <2>1, <2>3, <3>1
  <2>5. TraceTypeOK'
    BY <1>2, <1>6, <1>c, <2>3, <2>4 DEF TraceTypeOK, Capture
  <2>6. WindowInv'
    BY <1>1, <2>3 DEF TInv, WindowInv
  <2>7. ChargeInv'
    <3>1. s \notin capture.registered \union pw /\ charged' = charged
      BY <1>7, <1>c
    <3> QED  BY <1>2, <1>4, <1>7, <2>1, <2>3, <3>1, ChargeMove
  <2>8. BucketInv'
    BY <1>1, <1>3, <2>1, <2>3, <2>4, BucketSame
  <2>9. StageInv' /\ BudgetInv'
    BY <1>1, <2>3, StageKept
  <2> QED  BY <2>4, <2>5, <2>6, <2>7, <2>8, <2>9 DEF TInv
<1> QED  BY <1>a, <1>b, <1>c DEF ExportRegisteredSpan

LEMMA ExportSpanKeeps ==
  ASSUME TInv, NEW s \in Span, ExportSpan(s)
  PROVE  TInv'
<1>1. exporting[s].phase = "popped" /\ UNCHANGED <<begun, logging, staged>>
  BY DEF ExportSpan
<1>2. /\ capture \in Capture /\ exporting[s].window \in 0 .. MaxSteps
      /\ exporting[s].window \in Int
      /\ capture.window \in Int /\ exporting[s].window <= capture.window
      /\ capture.registered \in SUBSET Span /\ capture.prewindow \in SUBSET Span
      /\ charged \in [Span -> Nat] /\ charged[s] = 0
  BY <1>1, Shapes DEF TInv, ExportsInv, ChargeInv, TraceTypeOK
<1>3. /\ exporting[s].phase \in Moving /\ s \notin InFlight /\ exporting[s].phase # "done"
  BY <1>1 DEF Moving, InFlight, Under
<1>4. /\ capture.registered \cap capture.prewindow = {}
      /\ IsFiniteSet(capture.registered) /\ IsFiniteSet(capture.prewindow)
      /\ s \notin capture.registered \union capture.prewindow
  BY <1>1 DEF TInv, ChargeInv
<1>5. /\ begun' \in Seq(Span) /\ logging' \in [Record -> [phase: Phases, window: 0 .. MaxSteps]]
      /\ staged' \in {NoStage} \union Staged
  BY <1>1 DEF TInv, TraceTypeOK
<1>a. CASE /\ InWindow(exporting[s].window)
           /\ capture' = [capture EXCEPT !.bucket = Observing(@)]
           /\ exporting' = [exporting EXCEPT ![s].phase = "mapping"]
           /\ charged' = [charged EXCEPT ![s] = @ + 1]
  <2> DEFINE b == capture.bucket
             c == Observing(b)
  <2>1. Moves(s, "mapping", exporting[s].window)
    BY <1>a, MovesPhase DEF Phases, TInv
  <2>2. /\ b # NoBucket /\ Holding(b) /\ exporting[s].window = capture.window
    BY <1>a, OpenWindow
  <2>3. /\ Cardinality(InFlight) \in Nat /\ Cardinality(LogsInFlight) \in Nat
        /\ IsFiniteSet(InFlight) /\ IsFiniteSet(LogsInFlight)
    BY <2>2, FS_CardinalityType DEF Holding, Ready
  <2>4. /\ Tally(c, Cardinality(InFlight) + 1, Cardinality(LogsInFlight))
        /\ c.spans = b.spans /\ c.bytes = b.bytes /\ c.kept = b.kept
    BY <2>2, <2>3, TallyObserve DEF Holding, Ready
  <2>5. capture' = [capture EXCEPT !.bucket = c]
    BY <1>a
  <2> HIDE DEF c
  <2>6. c \in Bucket /\ c # NoBucket
    BY <2>4, BucketNotNone DEF Tally
  <2>7. /\ capture' \in Capture /\ capture'.bucket = c
        /\ capture'.active = capture.active /\ capture'.window = capture.window
        /\ capture'.registered = capture.registered /\ capture'.prewindow = capture.prewindow
        /\ capture'.run_bytes = capture.run_bytes
        /\ capture'.run_log_bytes = capture.run_log_bytes
    BY <1>2, <2>5, <2>6 DEF Capture
  <2>8. InFlight' = InFlight \union {s} /\ LogsInFlight' = LogsInFlight
    BY <1>1, <2>1, <2>2, <2>7 DEF InFlight, LogsInFlight, Under, Moves
  <2>9. /\ IsFiniteSet(InFlight') /\ Cardinality(InFlight') = Cardinality(InFlight) + 1
        /\ IsFiniteSet(LogsInFlight')
    BY <1>3, <2>3, <2>8, FS_AddElement
  <2>10. ExportsInv' /\ BegunInv'
    BY <1>1, <1>2, <1>3, <2>1, <2>7, MovesInOrder
  <2>11. /\ charged' \in [Span -> Nat] /\ charged'[s] = 1
         /\ \A t \in Span \ {s} : charged'[t] = charged[t]
    BY <1>2, <1>a
  <2>12. exporting' \in [Span -> [phase: Phases, window: 0 .. MaxSteps]]
    BY <2>1 DEF Moves
  <2>13. TraceTypeOK'
    BY <1>5, <2>7, <2>11, <2>12 DEF TraceTypeOK, Capture
  <2>14. WindowInv'
    BY <1>1, <2>2, <2>6, <2>7 DEF TInv, WindowInv
  <2>15. ChargeInv'
    BY <1>2, <1>4, <2>1, <2>7, <2>11, ChargeMove
  <2>16. BucketInv'
    BY <1>1, <1>3, <2>1, <2>2, <2>4, <2>7, <2>8, <2>9, BucketTallied
  <2>17. StageInv' /\ BudgetInv'
    BY <1>1, <2>7, StageKept
  <2> QED  BY <2>10, <2>13, <2>14, <2>15, <2>16, <2>17 DEF TInv
<1>b. CASE /\ exporting' = [exporting EXCEPT ![s].phase = "done"]
           /\ UNCHANGED <<capture, charged>>
  <2>1. Moves(s, "done", exporting[s].window)
    BY <1>b, MovesPhase DEF Phases, TInv
  <2>2. ExportsInv' /\ BegunInv'
    BY <1>1, <1>2, <1>3, <1>b, <2>1, MovesInOrder
  <2>3. InFlight' = InFlight /\ LogsInFlight' = LogsInFlight
    BY <1>1, <1>3, <1>b, <2>1, InFlightKept DEF TInv
  <2>4. exporting' \in [Span -> [phase: Phases, window: 0 .. MaxSteps]]
    BY <2>1 DEF Moves
  <2>5. TraceTypeOK'
    BY <1>5, <1>b, <2>4 DEF TInv, TraceTypeOK
  <2>6. WindowInv'
    BY <1>1, <1>b DEF TInv, WindowInv
  <2>7. ChargeInv'
    BY <1>2, <1>4, <1>b, <2>1, ChargeMove
  <2>8. BucketInv'
    BY <1>1, <1>3, <1>b, <2>1, <2>3, BucketSame
  <2>9. StageInv' /\ BudgetInv'
    BY <1>1, <1>b, StageKept
  <2> QED  BY <2>2, <2>5, <2>6, <2>7, <2>8, <2>9 DEF TInv
<1> QED  BY <1>a, <1>b DEF ExportSpan

LEMMA RetainSpanKeeps ==
  ASSUME TInv, NEW s \in Span, RetainSpan(s)
  PROVE  TInv'
<1>1. exporting[s].phase = "mapping" /\ UNCHANGED <<begun, logging, staged, charged>>
  BY DEF RetainSpan
<1>2. /\ capture \in Capture /\ exporting[s].window \in 0 .. MaxSteps
      /\ exporting[s].window \in Int
      /\ capture.window \in Int /\ exporting[s].window <= capture.window
      /\ capture.registered \in SUBSET Span /\ capture.prewindow \in SUBSET Span
      /\ charged \in [Span -> Nat] /\ charged[s] <= 1
  BY <1>1, Shapes DEF TInv, ExportsInv, ChargeInv, TraceTypeOK
<1>3. /\ exporting[s].phase \in Moving /\ exporting[s].phase # "done"
  BY <1>1 DEF Moving
<1>4. /\ capture.registered \cap capture.prewindow = {}
      /\ IsFiniteSet(capture.registered) /\ IsFiniteSet(capture.prewindow)
      /\ s \notin capture.registered \union capture.prewindow
  BY <1>1 DEF TInv, ChargeInv
<1>5. /\ begun' \in Seq(Span) /\ logging' \in [Record -> [phase: Phases, window: 0 .. MaxSteps]]
      /\ staged' \in {NoStage} \union Staged
  BY <1>1 DEF TInv, TraceTypeOK
<1>a. CASE InWindow(exporting[s].window)
  <2> DEFINE b == capture.bucket
             n == Cardinality(InFlight \ {s})
             m == Cardinality(LogsInFlight)
  <2>1. Moves(s, "done", exporting[s].window)
    <3>1. exporting' = [exporting EXCEPT ![s].phase = "done"]
      BY <1>a DEF RetainSpan
    <3> QED  BY <3>1, MovesPhase DEF Phases, TInv
  <2>2. /\ b # NoBucket /\ Holding(b) /\ exporting[s].window = capture.window
    BY <1>a, OpenWindow
  <2>3. s \in InFlight
    BY <1>1, <2>2 DEF InFlight, Under
  <2>4. /\ IsFiniteSet(InFlight) /\ IsFiniteSet(LogsInFlight) /\ IsFiniteSet(InFlight \ {s})
        /\ n \in Nat /\ m \in Nat /\ Cardinality(InFlight) = n + 1
    <3>1. IsFiniteSet(InFlight) /\ IsFiniteSet(LogsInFlight)
      BY <2>2 DEF Holding, Ready
    <3>2. IsFiniteSet(InFlight \ {s}) /\ n = Cardinality(InFlight) - 1
      BY <2>3, <3>1, FS_RemoveElement
    <3> QED  BY <3>1, <3>2, FS_CardinalityType
  <2>5. Tally(b, n + 1, m) /\ capture.run_bytes + b.bytes <= MaxBytes
    BY <2>2, <2>4 DEF Holding, Ready
  <2> HIDE DEF n, m
  <2>6. s \notin SpansOf(b.spans)
    BY <1>3, <2>2 DEF Holding, SpansOf
  <2>7. PICK c : /\ capture' = [capture EXCEPT !.bucket = c]
                 /\ Tally(c, n, m) /\ capture.run_bytes + c.bytes <= MaxBytes
                 /\ SpansOf(c.spans) \subseteq SpansOf(b.spans) \union {s}
                 /\ c.kept = b.kept
    <3>1. CASE s \in Unmappable
      <4> DEFINE c == Dropping(b, 1, "mapping")
      <4>1. capture' = [capture EXCEPT !.bucket = c]
        BY <1>a, <3>1 DEF RetainSpan
      <4>2. "mapping" \in Reasons
        BY DEF Reasons
      <4>3. Tally(c, n, m) /\ c.spans = b.spans /\ c.bytes = b.bytes /\ c.kept = b.kept
        BY <2>4, <2>5, <4>2, TallyDrop
      <4> HIDE DEF c
      <4> QED  BY <2>5, <4>1, <4>3
    <3>2. CASE s \notin Unmappable
      <4> DEFINE c == Retaining(b, s)
      <4>1. capture' = [capture EXCEPT !.bucket = c]
        BY <1>a, <3>2 DEF RetainSpan
      <4>2. capture.run_bytes \in Nat
        BY Shapes DEF TInv
      <4>3. /\ Tally(c, n, m) /\ capture.run_bytes + c.bytes <= MaxBytes
            /\ SpansOf(c.spans) \subseteq SpansOf(b.spans) \union {s} /\ c.kept = b.kept
        BY <2>4, <2>5, <2>6, <4>2, TallyRetain
      <4> HIDE DEF c
      <4> QED  BY <4>1, <4>3
    <3> QED  BY <3>1, <3>2
  <2>8. c \in Bucket /\ c # NoBucket
    BY <2>7, BucketNotNone DEF Tally
  <2>9. /\ capture' \in Capture /\ capture'.bucket = c
        /\ capture'.active = capture.active /\ capture'.window = capture.window
        /\ capture'.registered = capture.registered /\ capture'.prewindow = capture.prewindow
        /\ capture'.run_bytes = capture.run_bytes
        /\ capture'.run_log_bytes = capture.run_log_bytes
    BY <1>2, <2>7, <2>8 DEF Capture
  <2>10. InFlight' = InFlight \ {s} /\ LogsInFlight' = LogsInFlight
    BY <1>1, <2>1, <2>9 DEF InFlight, LogsInFlight, Under, Moves
  <2>11. ExportsInv' /\ BegunInv'
    BY <1>1, <1>2, <1>3, <2>1, <2>9, MovesInOrder
  <2>12. exporting' \in [Span -> [phase: Phases, window: 0 .. MaxSteps]]
    BY <2>1 DEF Moves
  <2>13. TraceTypeOK'
    BY <1>1, <1>2, <1>5, <2>9, <2>12 DEF TraceTypeOK, Capture
  <2>14. WindowInv'
    BY <1>1, <2>2, <2>8, <2>9 DEF TInv, WindowInv
  <2>15. ChargeInv'
    BY <1>1, <1>2, <1>4, <2>1, <2>9, ChargeMove
  <2>16. BucketInv'
    <3>1. \E k \in 1 .. Len(begun) : begun[k] = s
      BY <1>3 DEF TInv, BegunInv
    <3>2. Tally(c, Cardinality(InFlight'), Cardinality(LogsInFlight'))
          /\ IsFiniteSet(InFlight') /\ IsFiniteSet(LogsInFlight')
      BY <2>4, <2>7, <2>10 DEF n, m
    <3> QED  BY <1>1, <2>1, <2>2, <2>7, <2>8, <2>9, <3>1, <3>2, HoldingKept
  <2>17. StageInv' /\ BudgetInv'
    BY <1>1, <2>9, StageKept
  <2> QED  BY <2>11, <2>13, <2>14, <2>15, <2>16, <2>17 DEF TInv
<1>b. CASE ~ InWindow(exporting[s].window)
  <2>1. Moves(s, "missed", exporting[s].window) /\ capture' = capture
    <3>1. exporting' = [exporting EXCEPT ![s].phase = "missed"] /\ capture' = capture
      BY <1>b DEF RetainSpan
    <3> QED  BY <3>1, MovesPhase DEF Phases, TInv
  <2>2. ExportsInv' /\ BegunInv'
    BY <1>1, <1>2, <1>3, <2>1, MovesInOrder
  <2>3. InFlight' = InFlight /\ LogsInFlight' = LogsInFlight
    <3>1. s \in InFlight <=> exporting[s].window = capture.window
      BY <1>1 DEF InFlight, Under
    <3> QED  BY <1>1, <2>1, <3>1, InFlightKept DEF TInv
  <2>4. exporting' \in [Span -> [phase: Phases, window: 0 .. MaxSteps]]
    BY <2>1 DEF Moves
  <2>5. TraceTypeOK'
    BY <1>1, <1>5, <2>1, <2>4 DEF TInv, TraceTypeOK
  <2>6. WindowInv'
    BY <1>1, <2>1 DEF TInv, WindowInv
  <2>7. ChargeInv'
    BY <1>1, <1>2, <1>4, <2>1, ChargeMove
  <2>8. BucketInv'
    BY <1>1, <1>3, <2>1, <2>3, BucketSame
  <2>9. StageInv' /\ BudgetInv'
    BY <1>1, <2>1, StageKept
  <2> QED  BY <2>2, <2>5, <2>6, <2>7, <2>8, <2>9 DEF TInv
<1> QED  BY <1>a, <1>b

----------------------------------------------------------------------------
(* The log records.                                                        *)

\* x has moved within the window and no other record has.
LogMoves(x) ==
  /\ logging' \in [Record -> [phase: Phases, window: 0 .. MaxSteps]]
  /\ logging'[x].window <= capture.window
  /\ \A y \in Record \ {x} : logging'[y] = logging[y]

\* What a record's move leaves alone.
LEMMA LogStep ==
  ASSUME TInv, NEW x \in Record, LogMoves(x),
         UNCHANGED <<exporting, begun, staged, charged>>,
         capture' \in Capture, capture'.active = capture.active,
         capture'.window = capture.window, capture'.registered = capture.registered,
         capture'.prewindow = capture.prewindow, capture'.run_bytes = capture.run_bytes,
         capture'.run_log_bytes = capture.run_log_bytes,
         capture'.bucket = NoBucket <=> capture.bucket = NoBucket, BucketInv'
  PROVE  TInv'
<1>1. TraceTypeOK'
  BY DEF TInv, TraceTypeOK, Capture, LogMoves
<1>2. ExportsInv'
  <2>1. ASSUME NEW y \in Record PROVE logging'[y].window <= capture.window
    <3>1. CASE y = x
      BY <3>1 DEF LogMoves
    <3>2. CASE y # x
      BY <3>2 DEF LogMoves, TInv, ExportsInv
    <3> QED  BY <3>1, <3>2
  <2> QED  BY <2>1 DEF TInv, ExportsInv
<1>3. WindowInv'
  BY DEF TInv, WindowInv
<1>4. BegunInv'
  BY DEF TInv, BegunInv, InOrder
<1>5. ChargeInv'
  BY DEF TInv, ChargeInv
<1>6. StageInv' /\ BudgetInv'
  BY StageKept
<1> QED  BY <1>1, <1>2, <1>3, <1>4, <1>5, <1>6 DEF TInv

\* The bucket after a record's move.
LEMMA LogBucket ==
  ASSUME TInv, NEW x \in Record, LogMoves(x), logging[x].phase # "done",
         UNCHANGED <<exporting, begun>>, capture'.window = capture.window,
         capture'.run_bytes = capture.run_bytes, capture.bucket # NoBucket,
         NEW c, capture'.bucket = c, IsFiniteSet(LogsInFlight'),
         Tally(c, Cardinality(InFlight), Cardinality(LogsInFlight')),
         c.spans = capture.bucket.spans, c.bytes = capture.bucket.bytes,
         c.kept \subseteq capture.bucket.kept \union {x},
         x \in c.kept => logging'[x].phase = "done"
  PROVE  BucketInv'
<1>1. Holding(capture.bucket)
  BY DEF TInv, BucketInv
<1>2. InFlight' = InFlight
  BY DEF InFlight, Under
<1>3. ASSUME NEW y \in c.kept PROVE logging'[y].phase = "done"
  <2>1. y \in Record
    BY TallyTypes
  <2>2. CASE y = x
    BY <2>2
  <2>3. CASE y # x
    <3>1. logging[y].phase = "done" /\ logging'[y] = logging[y]
      BY <1>1, <2>1, <2>3 DEF Holding, LogMoves
    <3> QED  BY <3>1
  <2> QED  BY <2>2, <2>3
<1>4. Ready(c)'
  BY <1>1, <1>2 DEF Holding, Ready, Begun
<1>5. \A i \in c.spans : exporting'[i.span].phase = "done"
  BY <1>1 DEF Holding
<1>6. capture'.run_bytes + c.bytes <= MaxBytes
  BY <1>1 DEF Holding
<1> QED  BY <1>3, <1>4, <1>5, <1>6 DEF BucketInv, Holding

LEMMA ExportLogRecordKeeps ==
  ASSUME TInv, NEW x \in Record, ExportLogRecord(x)
  PROVE  TInv'
<1>1. /\ logging[x].phase = "unstarted" /\ UNCHANGED <<exporting, begun, staged, charged>>
      /\ capture \in Capture /\ capture.window \in 0 .. MaxSteps /\ capture.window \in Int
      /\ logging \in [Record -> [phase: Phases, window: 0 .. MaxSteps]]
      /\ logging[x].window <= capture.window
  BY Shapes DEF ExportLogRecord, TInv, TraceTypeOK, ExportsInv
<1>a. CASE /\ capture.active
           /\ capture' = [capture EXCEPT !.bucket.observed_logs = @ + 1]
           /\ logging' = [logging EXCEPT
                ![x] = [phase |-> "mapping", window |-> capture.window]]
  <2> DEFINE b == capture.bucket
             c == [b EXCEPT !.observed_logs = @ + 1]
  <2>1. b # NoBucket /\ Holding(b)
    BY <1>a DEF TInv, BucketInv, WindowInv
  <2>2. /\ Cardinality(InFlight) \in Nat /\ Cardinality(LogsInFlight) \in Nat
        /\ IsFiniteSet(LogsInFlight)
    BY <2>1, FS_CardinalityType DEF Holding, Ready
  <2>3. /\ Tally(c, Cardinality(InFlight), Cardinality(LogsInFlight) + 1)
        /\ c.spans = b.spans /\ c.bytes = b.bytes /\ c.kept = b.kept
    BY <2>1, <2>2, TallyObserveLog DEF Holding, Ready
  <2>4. capture' = [capture EXCEPT !.bucket = c]
    BY <1>1, <1>a DEF Capture
  <2> HIDE DEF c
  <2>5. c \in Bucket /\ c # NoBucket
    BY <2>3, BucketNotNone DEF Tally
  <2>6. /\ capture' \in Capture /\ capture'.bucket = c
        /\ capture'.active = capture.active /\ capture'.window = capture.window
        /\ capture'.registered = capture.registered /\ capture'.prewindow = capture.prewindow
        /\ capture'.run_bytes = capture.run_bytes
        /\ capture'.run_log_bytes = capture.run_log_bytes
    BY <1>1, <2>4, <2>5 DEF Capture
  <2>7. LogMoves(x) /\ logging'[x] = [phase |-> "mapping", window |-> capture.window]
    BY <1>1, <1>a DEF LogMoves, Phases
  <2>8. LogsInFlight' = LogsInFlight \union {x} /\ x \notin LogsInFlight
    BY <1>1, <2>6, <2>7 DEF LogsInFlight, Under, LogMoves
  <2>9. IsFiniteSet(LogsInFlight') /\ Cardinality(LogsInFlight') = Cardinality(LogsInFlight) + 1
    BY <2>2, <2>8, FS_AddElement
  <2>10. x \notin c.kept
    BY <1>1, <2>1, <2>3 DEF Holding
  <2>11. BucketInv'
    BY <1>1, <2>1, <2>3, <2>6, <2>7, <2>9, <2>10, LogBucket
  <2> QED  BY <1>1, <2>1, <2>5, <2>6, <2>7, <2>11, LogStep
<1>b. CASE /\ logging' = [logging EXCEPT ![x].phase = "done"] /\ UNCHANGED capture
  <2>1. LogMoves(x) /\ logging'[x].phase = "done"
    BY <1>1, <1>b DEF LogMoves, Phases
  <2>2. LogsInFlight' = LogsInFlight
    BY <1>1, <1>b, <2>1 DEF LogsInFlight, Under, LogMoves
  <2>3. BucketInv'
    <3>1. CASE capture.bucket = NoBucket
      BY <1>b, <3>1 DEF BucketInv
    <3>2. CASE capture.bucket # NoBucket
      <4>1. Holding(capture.bucket)
        BY <3>2 DEF TInv, BucketInv
      <4>2. /\ Tally(capture.bucket, Cardinality(InFlight), Cardinality(LogsInFlight'))
            /\ IsFiniteSet(LogsInFlight')
        BY <2>2, <4>1 DEF Holding, Ready
      <4> QED  BY <1>1, <1>b, <2>1, <3>2, <4>2, LogBucket
    <3> QED  BY <3>1, <3>2
  <2> QED  BY <1>1, <1>b, <2>1, <2>3, LogStep
<1> QED  BY <1>a, <1>b DEF ExportLogRecord

LEMMA RetainLogRecordKeeps ==
  ASSUME TInv, NEW x \in Record, RetainLogRecord(x)
  PROVE  TInv'
<1>1. /\ logging[x].phase = "mapping" /\ UNCHANGED <<exporting, begun, staged, charged>>
      /\ capture \in Capture /\ capture.window \in Int
      /\ logging \in [Record -> [phase: Phases, window: 0 .. MaxSteps]]
      /\ logging[x].window <= capture.window
  BY Shapes DEF RetainLogRecord, TInv, TraceTypeOK, ExportsInv
<1>a. CASE InWindow(logging[x].window)
  <2> DEFINE b == capture.bucket
             n == Cardinality(InFlight)
             m == Cardinality(LogsInFlight \ {x})
  <2>1. b # NoBucket /\ Holding(b) /\ logging[x].window = capture.window
    BY <1>a, OpenWindow
  <2>2. LogMoves(x) /\ logging'[x].phase = "done"
    <3>1. logging' = [logging EXCEPT ![x].phase = "done"]
      BY <1>a DEF RetainLogRecord
    <3> QED  BY <1>1, <3>1 DEF LogMoves, Phases
  <2>3. x \in LogsInFlight
    BY <1>1, <2>1 DEF LogsInFlight, Under
  <2>4. /\ IsFiniteSet(LogsInFlight \ {x}) /\ n \in Nat /\ m \in Nat
        /\ Cardinality(LogsInFlight) = m + 1
    <3>1. IsFiniteSet(InFlight) /\ IsFiniteSet(LogsInFlight)
      BY <2>1 DEF Holding, Ready
    <3>2. IsFiniteSet(LogsInFlight \ {x}) /\ m = Cardinality(LogsInFlight) - 1
      BY <2>3, <3>1, FS_RemoveElement
    <3> QED  BY <3>1, <3>2, FS_CardinalityType
  <2>5. Tally(b, n, m + 1)
    BY <2>1, <2>4 DEF Holding, Ready
  <2> HIDE DEF n, m
  <2>6. x \notin b.kept
    BY <1>1, <2>1 DEF Holding
  <2>7. PICK c : /\ capture' = [capture EXCEPT !.bucket = c] /\ Tally(c, n, m)
                 /\ c.spans = b.spans /\ c.bytes = b.bytes
                 /\ c.kept \subseteq b.kept \union {x}
    <3>1. capture' = [capture EXCEPT !.bucket =
            CASE x \in Unmappable -> DroppingLog(capture.bucket, "mapping")
              [] x \notin Unmappable /\ Cardinality(capture.bucket.kept) >= MaxRecords ->
                   DroppingLog(capture.bucket, "limit")
              [] x \notin Unmappable /\ Cardinality(capture.bucket.kept) < MaxRecords ->
                   IF Cardinality(capture.bucket.kept) + 1 > MaxLogBytes
                     THEN DroppingLog(capture.bucket, "byte_limit")
                     ELSE KeepingLog(capture.bucket, x)]
      BY <1>a DEF RetainLogRecord
    <3>2. \/ \E why \in {"mapping", "limit", "byte_limit"} :
               capture' = [capture EXCEPT !.bucket = DroppingLog(b, why)]
          \/ capture' = [capture EXCEPT !.bucket = KeepingLog(b, x)]
      <4>1. Cardinality(b.kept) \in Nat /\ MaxRecords \in Nat
        BY <2>4, <2>5, TallyTypes, TraceLimitsAssumption
      <4>2. Cardinality(b.kept) >= MaxRecords <=> ~ (Cardinality(b.kept) < MaxRecords)
        BY <4>1
      <4>3. CASE x \in Unmappable
        BY <3>1, <4>3
      <4>4. CASE x \notin Unmappable /\ Cardinality(b.kept) >= MaxRecords
        BY <3>1, <4>2, <4>4
      <4>5. CASE x \notin Unmappable /\ Cardinality(b.kept) < MaxRecords
        BY <3>1, <4>2, <4>5
      <4> QED  BY <4>2, <4>3, <4>4, <4>5
    <3>3. ASSUME NEW why \in {"mapping", "limit", "byte_limit"},
                 capture' = [capture EXCEPT !.bucket = DroppingLog(b, why)]
          PROVE  \E c : /\ capture' = [capture EXCEPT !.bucket = c] /\ Tally(c, n, m)
                        /\ c.spans = b.spans /\ c.bytes = b.bytes
                        /\ c.kept \subseteq b.kept \union {x}
      <4> DEFINE c == DroppingLog(b, why)
      <4>1. Tally(c, n, m) /\ c.spans = b.spans /\ c.bytes = b.bytes /\ c.kept = b.kept
        BY <2>4, <2>5, TallyDropLog
      <4>2. capture' = [capture EXCEPT !.bucket = c]
        BY <3>3
      <4> HIDE DEF c
      <4> QED  BY <4>1, <4>2
    <3>4. ASSUME capture' = [capture EXCEPT !.bucket = KeepingLog(b, x)]
          PROVE  \E c : /\ capture' = [capture EXCEPT !.bucket = c] /\ Tally(c, n, m)
                        /\ c.spans = b.spans /\ c.bytes = b.bytes
                        /\ c.kept \subseteq b.kept \union {x}
      <4> DEFINE c == KeepingLog(b, x)
      <4>1. Tally(c, n, m) /\ c.spans = b.spans /\ c.bytes = b.bytes
            /\ c.kept = b.kept \union {x}
        BY <2>4, <2>5, <2>6, TallyKeepLog
      <4>2. capture' = [capture EXCEPT !.bucket = c]
        BY <3>4
      <4> HIDE DEF c
      <4> QED  BY <4>1, <4>2
    <3> QED  BY <3>2, <3>3, <3>4
  <2>8. c \in Bucket /\ c # NoBucket
    BY <2>7, BucketNotNone DEF Tally
  <2>9. /\ capture' \in Capture /\ capture'.bucket = c
        /\ capture'.active = capture.active /\ capture'.window = capture.window
        /\ capture'.registered = capture.registered /\ capture'.prewindow = capture.prewindow
        /\ capture'.run_bytes = capture.run_bytes
        /\ capture'.run_log_bytes = capture.run_log_bytes
    BY <1>1, <2>7, <2>8 DEF Capture
  <2>10. LogsInFlight' = LogsInFlight \ {x}
    BY <2>2, <2>9 DEF LogsInFlight, Under, LogMoves
  <2>11. /\ IsFiniteSet(LogsInFlight')
         /\ Tally(c, Cardinality(InFlight), Cardinality(LogsInFlight'))
    BY <2>4, <2>7, <2>10 DEF n, m
  <2>12. BucketInv'
    BY <1>1, <2>1, <2>2, <2>7, <2>9, <2>11, LogBucket
  <2> QED  BY <1>1, <2>1, <2>2, <2>8, <2>9, <2>12, LogStep
<1>b. CASE ~ InWindow(logging[x].window)
  <2>1. logging' = [logging EXCEPT ![x].phase = "missed"] /\ UNCHANGED capture
    BY <1>b DEF RetainLogRecord
  <2>2. LogMoves(x) /\ logging'[x].phase = "missed" /\ logging'[x].window = logging[x].window
    BY <1>1, <2>1 DEF LogMoves, Phases
  <2>3. LogsInFlight' = LogsInFlight
    BY <1>1, <2>1, <2>2 DEF LogsInFlight, Under, LogMoves
  <2>4. BucketInv'
    <3>1. CASE capture.bucket = NoBucket
      BY <2>1, <3>1 DEF BucketInv
    <3>2. CASE capture.bucket # NoBucket
      <4>1. Holding(capture.bucket)
        BY <3>2 DEF TInv, BucketInv
      <4>2. /\ Tally(capture.bucket, Cardinality(InFlight), Cardinality(LogsInFlight'))
            /\ IsFiniteSet(LogsInFlight') /\ x \notin capture.bucket.kept
        BY <1>1, <2>3, <4>1 DEF Holding, Ready
      <4> QED  BY <1>1, <2>1, <2>2, <3>2, <4>2, LogBucket
    <3> QED  BY <3>1, <3>2
  <2> QED  BY <1>1, <2>1, <2>2, <2>4, LogStep
<1> QED  BY <1>a, <1>b

----------------------------------------------------------------------------
(* The Run's thread.                                                       *)

\* Its steps leave the exports alone; a later window is ahead of them all.
LEMMA ExportsStay ==
  ASSUME TInv, UNCHANGED <<exporting, begun, logging>>,
         capture'.window \in Int, capture.window <= capture'.window
  PROVE  ExportsInv' /\ BegunInv'
<1>1. /\ capture.window \in Int
      /\ \A s \in Span : exporting[s].window \in Int
      /\ \A r \in Record : logging[r].window \in Int
  BY Shapes DEF TInv
<1>2. ExportsInv'
  BY <1>1 DEF TInv, ExportsInv
<1>3. BegunInv'
  BY DEF TInv, BegunInv, InOrder
<1> QED  BY <1>2, <1>3

\* Registrations are kept or dropped.
LEMMA ChargeStays ==
  ASSUME TInv, UNCHANGED <<exporting, charged>>,
         capture'.registered \in {capture.registered, {}},
         capture'.prewindow \in {capture.prewindow, {}}
  PROVE  ChargeInv'
BY FS_EmptySet DEF TInv, ChargeInv

\* A bucket that is not touched stays in order.
LEMMA BucketStays ==
  ASSUME TInv, UNCHANGED <<exporting, begun, logging>>,
         NEW c, capture'.bucket = c, capture'.window = capture.window,
         capture'.run_bytes = capture.run_bytes,
         capture.bucket # NoBucket, Ready(c), c.spans = capture.bucket.spans,
         c.kept = capture.bucket.kept, c.bytes = capture.bucket.bytes
  PROVE  BucketInv'
<1>1. Holding(capture.bucket)
  BY DEF TInv, BucketInv
<1>2. InFlight' = InFlight /\ LogsInFlight' = LogsInFlight
  BY DEF InFlight, LogsInFlight, Under
<1>3. Ready(c)'
  BY <1>2 DEF Ready, Begun
<1> QED  BY <1>1, <1>3 DEF BucketInv, Holding

LEMMA BeginStepKeeps ==
  ASSUME TInv, BeginStep
  PROVE  TInv'
<1>1. /\ ~ capture.active /\ ~ staged.prepared /\ capture.window < MaxSteps
      /\ capture' = [capture EXCEPT !.active = TRUE, !.window = @ + 1,
                                    !.bucket = EmptyBucket]
      /\ UNCHANGED <<exporting, begun, logging, staged, charged>>
  BY DEF BeginStep
<1>2. /\ capture \in Capture /\ capture.window \in 0 .. MaxSteps /\ capture.window \in Int
      /\ staged = NoStage /\ MaxSteps \in Nat
      /\ \A s \in Span : exporting[s].window \in Int
      /\ \A r \in Record : logging[r].window \in Int
  BY <1>1, Shapes, BucketExists, TraceLimitsAssumption DEF TInv
<1>3. EmptyBucket \in Bucket /\ EmptyBucket # NoBucket
  BY TallyEmpty, BucketNotNone DEF Tally
<1> DEFINE w == capture.window + 1
<1>4. w \in 0 .. MaxSteps /\ w \in Int /\ capture.window < w
  BY <1>1, <1>2
<1>5. capture' = [capture EXCEPT !.active = TRUE, !.window = w, !.bucket = EmptyBucket]
  BY <1>1, <1>2
<1> HIDE DEF w
<1>6. /\ capture' \in Capture /\ capture'.bucket = EmptyBucket /\ capture'.window = w
      /\ capture'.active /\ capture'.registered = capture.registered
      /\ capture'.prewindow = capture.prewindow
      /\ capture'.run_bytes = capture.run_bytes
      /\ capture'.run_log_bytes = capture.run_log_bytes
  BY <1>2, <1>3, <1>4, <1>5 DEF Capture
<1>7. TraceTypeOK'
  BY <1>1, <1>6 DEF TInv, TraceTypeOK, Capture
<1>8. WindowInv'
  BY <1>1, <1>2, <1>3, <1>6 DEF WindowInv
<1>9. ExportsInv' /\ BegunInv'
  BY <1>1, <1>2, <1>4, <1>6, ExportsStay
<1>10. ChargeInv'
  BY <1>1, <1>6, ChargeStays
<1>11. StageInv' /\ BudgetInv'
  BY <1>1, <1>6, StageKept
<1>12. InFlight' = {} /\ LogsInFlight' = {}
  <2>1. \A s \in Span : exporting[s].window # w
    BY <1>2, <1>4 DEF TInv, ExportsInv
  <2>2. \A r \in Record : logging[r].window # w
    BY <1>2, <1>4 DEF TInv, ExportsInv
  <2> QED  BY <1>1, <1>6, <2>1, <2>2 DEF InFlight, LogsInFlight, Under
<1>13. BucketInv'
  <2>1. /\ EmptyBucket.spans = {} /\ EmptyBucket.kept = {} /\ EmptyBucket.bytes = 0
    BY DEF EmptyBucket
  <2>2. /\ IsFiniteSet(InFlight') /\ IsFiniteSet(LogsInFlight')
        /\ Cardinality(InFlight') = 0 /\ Cardinality(LogsInFlight') = 0
    BY <1>12, FS_EmptySet
  <2>3. Ready(EmptyBucket)'
    BY <2>1, <2>2, TallyEmpty DEF Ready, Begun
  <2>4. capture'.run_bytes + 0 <= MaxBytes
    BY <1>6, Shapes DEF TInv, BudgetInv
  <2> QED  BY <1>6, <2>1, <2>3, <2>4 DEF BucketInv, Holding
<1> QED  BY <1>7, <1>8, <1>9, <1>10, <1>11, <1>13 DEF TInv

LEMMA PrepareStepKeeps ==
  ASSUME TInv, PrepareStep
  PROVE  TInv'
<1> DEFINE b == capture.bucket
           c == Counted(b)
           open == capture.registered \union capture.prewindow
<1>1. /\ capture.active /\ staged' = Prepared(c)
      /\ capture' = [capture EXCEPT !.active = FALSE, !.bucket = c,
                                    !.registered = {}, !.prewindow = {}]
      /\ charged' = [s \in Span |-> charged[s] + IF s \in open THEN 1 ELSE 0]
      /\ UNCHANGED <<exporting, begun, logging>>
  <2>1. capture' = Released([capture EXCEPT !.active = FALSE, !.bucket = c])
    BY DEF PrepareStep
  <2> HIDE DEF c
  <2>2. capture' = [capture EXCEPT !.active = FALSE, !.bucket = c,
                                   !.registered = {}, !.prewindow = {}]
    BY <2>1, Shapes DEF TInv, Released, Capture
  <2> QED  BY <2>2 DEF PrepareStep, c
<1>2. /\ capture \in Capture /\ capture.window \in Int /\ begun \in Seq(Span)
      /\ capture.run_bytes \in Nat /\ capture.run_log_bytes \in Nat
      /\ capture.run_bytes <= MaxBytes /\ capture.run_log_bytes <= MaxLogBytes
      /\ IsFiniteSet(capture.registered) /\ IsFiniteSet(capture.prewindow)
      /\ charged \in [Span -> Nat] /\ InOrder
  BY Shapes DEF TInv, ChargeInv, BudgetInv, BegunInv, TraceTypeOK
<1>3. b # NoBucket /\ Holding(b)
  BY <1>1 DEF TInv, BucketInv, WindowInv
<1>4. Ready(c) /\ c.spans = b.spans /\ c.bytes = b.bytes /\ c.kept = b.kept
  BY <1>2, <1>3, CountedFacts DEF Holding
<1> HIDE DEF c
<1>5. c \in Bucket /\ c # NoBucket
  BY <1>4, BucketNotNone DEF Ready, Tally
<1>6. /\ capture' \in Capture /\ capture'.bucket = c /\ ~ capture'.active
      /\ capture'.window = capture.window
      /\ capture'.registered = {} /\ capture'.prewindow = {}
      /\ capture'.run_bytes = capture.run_bytes
      /\ capture'.run_log_bytes = capture.run_log_bytes
  BY <1>1, <1>2, <1>5 DEF Capture
<1> DEFINE p == Prepared(c)
<1>7. Sound(p)
  BY <1>2, <1>4, PreparedFacts
<1>8. staged' = p
  BY <1>1
<1> HIDE DEF p, open
<1>9. p \in Staged /\ p # NoStage
  BY <1>7, StagedNotNone DEF Sound
<1>10. /\ charged' \in [Span -> Nat]
       /\ \A s \in Span : charged'[s] = charged[s] + IF s \in open THEN 1 ELSE 0
  BY <1>1, <1>2
<1>11. TraceTypeOK'
  BY <1>1, <1>6, <1>8, <1>9, <1>10 DEF TInv, TraceTypeOK, Capture
<1>12. WindowInv'
  BY <1>5, <1>6, <1>8, <1>9 DEF WindowInv
<1>13. ExportsInv' /\ BegunInv'
  BY <1>1, <1>2, <1>6, ExportsStay
<1>14. ChargeInv'
  <2>1. ASSUME NEW s \in Span
        PROVE  /\ exporting'[s].phase \in {"unstarted", "popped"} => charged'[s] = 0
               /\ charged'[s] <= 1
    <3>1. CASE s \in open
      <4>1. exporting[s].phase = "open" /\ charged[s] = 0
        BY <3>1 DEF TInv, ChargeInv, open
      <4> QED  BY <1>1, <1>10, <3>1, <4>1
    <3>2. CASE s \notin open
      <4>1. charged'[s] = charged[s]
        BY <1>2, <1>10, <3>2
      <4> QED  BY <1>1, <4>1 DEF TInv, ChargeInv
    <3> QED  BY <3>1, <3>2
  <2> QED  BY <1>6, <2>1, FS_EmptySet DEF ChargeInv
<1>15. BucketInv'
  BY <1>1, <1>3, <1>4, <1>6, BucketStays
<1>16. StageInv' /\ BudgetInv'
  BY <1>2, <1>6, <1>7, <1>8 DEF StageInv, BudgetInv, Sound, RecordsAccounted, ValidCapture
<1> QED  BY <1>11, <1>12, <1>13, <1>14, <1>15, <1>16 DEF TInv

LEMMA CommitStepKeeps ==
  ASSUME TInv, CommitStep
  PROVE  TInv'
<1> DEFINE rb == capture.run_bytes + staged.size
           rl == capture.run_log_bytes + staged.log_size
<1>1. /\ staged # NoStage /\ staged' = NoStage
      /\ capture' = [capture EXCEPT !.bucket = NoBucket, !.run_bytes = rb,
                                    !.run_log_bytes = rl]
      /\ UNCHANGED <<exporting, begun, logging, charged>>
  BY BucketExists, Shapes DEF TInv, CommitStep, Capture
<1>2. /\ capture \in Capture /\ capture.window \in Int /\ Sound(staged)
      /\ capture.run_bytes \in Nat /\ capture.run_log_bytes \in Nat
      /\ ~ capture.active
  BY <1>1, Shapes DEF TInv, StageInv, WindowInv
<1>3. rb \in Nat /\ rl \in Nat /\ rb <= MaxBytes /\ rl <= MaxLogBytes
  <2>1. staged.size \in Nat /\ staged.log_size \in Nat
    BY <1>2 DEF Sound, Staged
  <2> QED  BY <1>2, <2>1 DEF Sound
<1> HIDE DEF rb, rl
<1>4. /\ capture' \in Capture /\ capture'.bucket = NoBucket
      /\ capture'.active = capture.active /\ capture'.window = capture.window
      /\ capture'.registered = capture.registered /\ capture'.prewindow = capture.prewindow
      /\ capture'.run_bytes = rb /\ capture'.run_log_bytes = rl
  BY <1>1, <1>2, <1>3 DEF Capture
<1>5. TraceTypeOK'
  BY <1>1, <1>4 DEF TInv, TraceTypeOK, Capture
<1>6. WindowInv'
  BY <1>1, <1>2, <1>4 DEF TInv, WindowInv
<1>7. ExportsInv' /\ BegunInv'
  BY <1>1, <1>2, <1>4, ExportsStay
<1>8. ChargeInv'
  BY <1>1, <1>4, ChargeStays
<1>9. BucketInv' /\ StageInv' /\ BudgetInv'
  BY <1>1, <1>3, <1>4 DEF BucketInv, StageInv, BudgetInv
<1> QED  BY <1>5, <1>6, <1>7, <1>8, <1>9 DEF TInv

LEMMA AbortStepKeeps ==
  ASSUME TInv, AbortStep
  PROVE  TInv'
<1>1. /\ staged # NoStage /\ staged' = NoStage
      /\ capture' = [capture EXCEPT !.active = TRUE]
      /\ UNCHANGED <<exporting, begun, logging, charged>>
  BY BucketExists DEF TInv, AbortStep
<1>2. /\ capture \in Capture /\ capture.window \in Int /\ capture.bucket # NoBucket
      /\ Ready(capture.bucket)
  BY <1>1, Shapes DEF TInv, WindowInv, BucketInv, Holding
<1>3. /\ capture' \in Capture /\ capture'.bucket = capture.bucket
      /\ capture'.active /\ capture'.window = capture.window
      /\ capture'.registered = capture.registered /\ capture'.prewindow = capture.prewindow
      /\ capture'.run_bytes = capture.run_bytes
      /\ capture'.run_log_bytes = capture.run_log_bytes
  BY <1>1, <1>2 DEF Capture
<1>4. TraceTypeOK'
  BY <1>1, <1>3 DEF TInv, TraceTypeOK, Capture
<1>5. WindowInv'
  BY <1>1, <1>2, <1>3 DEF WindowInv
<1>6. ExportsInv' /\ BegunInv'
  BY <1>1, <1>2, <1>3, ExportsStay
<1>7. ChargeInv'
  BY <1>1, <1>3, ChargeStays
<1>8. BucketInv'
  BY <1>1, <1>2, <1>3, BucketStays
<1>9. StageInv' /\ BudgetInv'
  BY <1>1, <1>3 DEF TInv, StageInv, BudgetInv
<1> QED  BY <1>4, <1>5, <1>6, <1>7, <1>8, <1>9 DEF TInv

\* Discarding: by cancel_step and by finish_run.
LEMMA DiscardKeeps ==
  ASSUME TInv, UNCHANGED <<exporting, begun, logging, staged, charged>>,
         staged = NoStage, capture' \in Capture, ~ capture'.active,
         capture'.bucket = NoBucket, capture'.window = capture.window,
         capture'.registered = {}, capture'.prewindow = {},
         capture'.run_bytes \in {capture.run_bytes, 0},
         capture'.run_log_bytes \in {capture.run_log_bytes, 0}
  PROVE  TInv'
<1>1. capture.window \in Int
  BY Shapes DEF TInv
<1>2. TraceTypeOK'
  BY DEF TInv, TraceTypeOK, Capture
<1>3. WindowInv'
  BY DEF WindowInv
<1>4. ExportsInv' /\ BegunInv'
  BY <1>1, ExportsStay
<1>5. ChargeInv'
  BY ChargeStays
<1>6. BucketInv' /\ StageInv' /\ BudgetInv'
  BY TraceLimitsAssumption DEF TInv, BucketInv, StageInv, BudgetInv
<1> QED  BY <1>2, <1>3, <1>4, <1>5, <1>6 DEF TInv

LEMMA DiscardedShape ==
  ASSUME TInv
  PROVE  /\ Discarded \in Capture /\ ~ Discarded.active /\ Discarded.bucket = NoBucket
         /\ Discarded.window = capture.window
         /\ Discarded.registered = {} /\ Discarded.prewindow = {}
         /\ Discarded.run_bytes = capture.run_bytes
         /\ Discarded.run_log_bytes = capture.run_log_bytes
<1>1. capture \in Capture
  BY Shapes DEF TInv
<1>2. Discarded = [capture EXCEPT !.active = FALSE, !.bucket = NoBucket,
                                  !.registered = {}, !.prewindow = {}]
  BY <1>1 DEF Discarded, Released, Capture
<1> QED  BY <1>1, <1>2 DEF Capture

LEMMA CancelStepKeeps ==
  ASSUME TInv, CancelStep
  PROVE  TInv'
<1>1. staged = NoStage
  BY DEF TInv, CancelStep, WindowInv
<1> QED  BY <1>1, DiscardedShape, DiscardKeeps DEF CancelStep

LEMMA FinishRunKeeps ==
  ASSUME TInv, FinishRun
  PROVE  TInv'
<1>1. staged = NoStage
  BY BucketExists DEF TInv, FinishRun
<1>2. capture' = [Discarded EXCEPT !.run_bytes = 0, !.run_log_bytes = 0]
  BY DEF FinishRun
<1> DEFINE d == Discarded
<1>3. /\ d \in Capture /\ ~ d.active /\ d.bucket = NoBucket /\ d.window = capture.window
      /\ d.registered = {} /\ d.prewindow = {}
  BY DiscardedShape
<1> HIDE DEF d
<1>4. capture' = [d EXCEPT !.run_bytes = 0, !.run_log_bytes = 0]
  BY <1>2 DEF d
<1>5. /\ capture' \in Capture /\ ~ capture'.active /\ capture'.bucket = NoBucket
      /\ capture'.window = capture.window
      /\ capture'.registered = {} /\ capture'.prewindow = {}
      /\ capture'.run_bytes = 0 /\ capture'.run_log_bytes = 0
  BY <1>3, <1>4 DEF Capture
<1> QED  BY <1>1, <1>5, DiscardKeeps DEF FinishRun

----------------------------------------------------------------------------
(* The invariant, and what follows from it.                                *)

LEMMA TraceStart == TraceInit => TInv
<1> SUFFICES ASSUME TraceInit PROVE TInv
  OBVIOUS
<1>1. /\ capture = [active |-> FALSE, window |-> 0, bucket |-> NoBucket,
                    registered |-> {}, prewindow |-> {},
                    run_bytes |-> 0, run_log_bytes |-> 0]
      /\ begun = <<>> /\ staged = NoStage /\ charged = [s \in Span |-> 0]
      /\ MaxSteps \in Nat /\ MaxBytes \in Nat /\ MaxLogBytes \in Nat
  BY TraceLimitsAssumption DEF TraceInit
<1>2. PICK work \in Workloads :
        /\ exporting = [s \in Span |->
             [phase |-> IF s \in work THEN "unstarted" ELSE "done", window |-> 0]]
        /\ logging = [r \in Record |->
             [phase |-> IF r \in work THEN "unstarted" ELSE "done", window |-> 0]]
  BY DEF TraceInit
<1>3. /\ \A s \in Span : exporting[s].window = 0 /\ exporting[s].phase \in {"unstarted", "done"}
      /\ \A r \in Record : logging[r].window = 0
      /\ exporting \in [Span -> [phase: Phases, window: 0 .. MaxSteps]]
      /\ logging \in [Record -> [phase: Phases, window: 0 .. MaxSteps]]
  BY <1>1, <1>2 DEF Phases
<1>4. TraceTypeOK
  <2>1. begun \in Seq(Span)
    BY <1>1
  <2> QED  BY <1>1, <1>3, <2>1 DEF TraceTypeOK
<1>5. WindowInv /\ ExportsInv /\ BucketInv /\ StageInv /\ BudgetInv
  BY <1>1, <1>3 DEF WindowInv, ExportsInv, BucketInv, StageInv, BudgetInv
<1>6. BegunInv
  <2>1. Len(begun) = 0
    BY <1>1
  <2>2. \A s \in Span : exporting[s].phase \notin Moving
    BY <1>3 DEF Moving
  <2> QED  BY <2>1, <2>2 DEF BegunInv, InOrder
<1>7. ChargeInv
  BY <1>1, <1>3, FS_EmptySet DEF ChargeInv
<1> QED  BY <1>4, <1>5, <1>6, <1>7 DEF TInv

LEMMA TraceStep == TInv /\ [TraceNext]_traceVars => TInv'
<1> SUFFICES ASSUME TInv, [TraceNext]_traceVars PROVE TInv'
  OBVIOUS
<1>1. ASSUME NEW s \in Span,
             RegisterSpan(s) \/ ExportRegisteredSpan(s) \/ ExportSpan(s) \/ RetainSpan(s)
      PROVE  TInv'
  BY <1>1, RegisterSpanKeeps, ExportRegisteredSpanKeeps, ExportSpanKeeps, RetainSpanKeeps
<1>2. ASSUME NEW r \in Record, ExportLogRecord(r) \/ RetainLogRecord(r)
      PROVE  TInv'
  BY <1>2, ExportLogRecordKeeps, RetainLogRecordKeeps
<1>3. CASE BeginStep \/ PrepareStep \/ CommitStep \/ AbortStep \/ CancelStep \/ FinishRun
  BY <1>3, BeginStepKeeps, PrepareStepKeeps, CommitStepKeeps, AbortStepKeeps,
     CancelStepKeeps, FinishRunKeeps
<1>4. CASE UNCHANGED traceVars
  BY <1>4 DEF traceVars, TInv, TraceTypeOK, WindowInv, ExportsInv, BegunInv, InOrder,
     ChargeInv, BucketInv, Holding, Ready, Begun, InFlight, LogsInFlight, Under,
     StageInv, Sound, RecordsAccounted, BudgetInv
<1> QED  BY <1>1, <1>2, <1>3, <1>4 DEF TraceNext

\* Every reachable state satisfies the invariant, whatever the spans, the
\* records, the limits and the order of their exports.
THEOREM TraceInvariance == TraceSpec => []TInv
BY TraceStart, TraceStep, PTL DEF TraceSpec

\* Every field of the capture has its type.
THEOREM TraceTypes == TraceSpec => []TraceTypeOK
<1>1. TInv => TraceTypeOK
  BY DEF TInv
<1> QED  BY <1>1, TraceInvariance, PTL

\* No span and no log record disappears between its export and the Evidence
\* of its step, through sampling, replacement, omission, aborts and repeated
\* preparations: TraceCapture's Accounted.
THEOREM NothingDisappears == TraceSpec => []Accounted
<1>1. TInv => Accounted
  <2> SUFFICES ASSUME TInv PROVE Accounted
    OBVIOUS
  <2>1. ASSUME capture.bucket.exists PROVE SpansAccounted(capture.bucket)
    BY <2>1, BucketExists DEF TInv, BucketInv, Holding, Ready, Tally, SpansAccounted
  <2>2. ASSUME staged.prepared PROVE RecordsAccounted(staged)
    BY <2>2, BucketExists DEF TInv, StageInv, Sound
  <2> QED  BY <2>1, <2>2 DEF Accounted
<1> QED  BY <1>1, TraceInvariance, PTL

\* However a step is sampled, replaced, aborted and prepared again, a Run
\* never holds, stages or pays more bytes than its limits allow.
THEOREM RunWithinBudget == TraceSpec => []WithinBudget
<1>1. TInv => WithinBudget
  BY BucketExists DEF TInv, BucketInv, Holding, StageInv, Sound, WithinBudget
<1> QED  BY <1>1, TraceInvariance, PTL

\* A span is counted at most once, over all windows and aborts.
THEOREM SpanChargedOnce == TraceSpec => []ChargedOnce
<1>1. TInv => ChargedOnce
  BY DEF TInv, ChargeInv, ChargedOnce
<1> QED  BY <1>1, TraceInvariance, PTL

\* A prepared trace passes the validation of its upload, unless an export was
\* under way when its window closed.
THEOREM PreparedIsValid == TraceSpec => []StagedIsValid
<1>1. TInv => StagedIsValid
  BY BucketExists DEF TInv, StageInv, Sound, StagedIsValid
<1> QED  BY <1>1, TraceInvariance, PTL

----------------------------------------------------------------------------
(* Local observation: the inductive invariant.                             *)

Own(s) == {x \in Span : starter[x] = s}

\* What a buffer has of the spans that ended: it counted them, and holds some.
Counts(b, done) ==
  /\ Items(b.spans) /\ SpansOf(b.spans) \subseteq done
  /\ b.observed = Saturated(Cardinality(done))
  /\ Cardinality(b.spans) <= MaxObserved

\* An export of a buffer that is valid, fits and counts these spans.
Delivers(e, own) ==
  /\ ValidCapture(e) /\ 1 + Bytes(e.spans) <= MaxExport
  /\ Cardinality(e.spans) <= MaxObserved
  /\ e.observed = Saturated(Cardinality(own)) /\ SpansOf(e.spans) \subseteq own

SessionSound(t, own) ==
  /\ IsFiniteSet(own)
  /\ t.state = "new" => own = {}
  /\ t.state # "closed" => ~t.result.made /\ t.pending \subseteq own /\ Counts(t.buffer, own \ t.pending)
  /\ t.state = "closed" /\ t.result.made => Delivers(t.result, own)

\* A span that was not started is of no session.
OInv ==
  /\ ObservationTypeOK
  /\ \A x \in Span : life[x].phase = "unstarted" => starter[x] = NoSession
  /\ \A s \in Session : SessionSound(session[s], Own(s))

----------------------------------------------------------------------------
(* Reducing a buffer.                                                      *)

\* Among finitely many things there is one that none is above.
LEMMA MaximalElement ==
  ASSUME NEW A, IsFiniteSet(A), A # {}, NEW above \in [A -> SUBSET A],
         \A i \in A : i \notin above[i],
         \A i \in A : \A j \in above[i] : above[j] \subseteq above[i]
  PROVE  \E m \in A : above[m] = {}
<1> DEFINE n(i) == Cardinality(above[i])
           T == {n(i) : i \in A}
<1>1. \A i \in A : above[i] \in SUBSET A /\ IsFiniteSet(above[i]) /\ n(i) \in Nat
  BY FS_Subset, FS_CardinalityType
<1>2. T \in SUBSET Nat /\ T # {}
  <2> HIDE DEF n
  <2> QED  BY <1>1
<1> HIDE DEF T
<1>3. PICK k \in T : \A l \in T : k <= l
  BY <1>2, LeastNatural
<1> USE DEF T
<1>4. PICK m \in A : k = n(m)
  BY <1>3
<1>5. ASSUME NEW j \in above[m] PROVE FALSE
  <2>1. j \in A /\ above[j] \subseteq above[m] /\ j \notin above[j]
    BY <1>1, <1>4
  <2>2. n(j) < n(m)
    BY <1>1, <1>4, <2>1, FS_Subset
  <2>3. n(m) <= n(j)
    <3>1. n(j) \in T
      BY <2>1
    <3> HIDE DEF n, T
    <3> QED  BY <1>3, <1>4, <3>1
  <2> HIDE DEF n
  <2> QED  BY <1>1, <1>4, <2>1, <2>2, <2>3
<1> QED  BY <1>4, <1>5

\* One of the retained spans gives way to all others.
LEMMA LowestFacts ==
  ASSUME NEW b \in Buffer, Items(b.spans)
  PROVE  /\ WithoutLowest(b) = [b EXCEPT !.spans = WithoutLowest(b).spans]
         /\ WithoutLowest(b).spans \subseteq b.spans
         /\ b.spans # {} => \E m \in b.spans : m \notin WithoutLowest(b).spans
<1> DEFINE A == b.spans
           protected == {Parent[i.span] : i \in A} \ {NoSpan}
           rest == {i \in A : \E j \in A : Before(i.span, j.span, protected)}
           above == [i \in A |-> {j \in A : Before(i.span, j.span, protected)}]
<1>1. WithoutLowest(b) = [b EXCEPT !.spans = rest]
  BY DEF WithoutLowest
<1>2. [b EXCEPT !.spans = rest].spans = rest
  BY DEF Buffer
<1>3. \A i \in A : i.span \in Nat /\ Category(i.span, protected) \in Nat
  <2> HIDE DEF protected
  <2>1. \A i \in A : i.span \in Nat
    BY SpanContentAssumption DEF Items, Item
  <2> QED  BY <2>1 DEF Category
<1> HIDE DEF protected
<1>4. \A i \in A : i \notin above[i]
  BY <1>3 DEF Before
<1>5. \A i \in A : \A j \in above[i] : above[j] \subseteq above[i]
  BY <1>3 DEF Before
<1>6. above \in [A -> SUBSET A] /\ IsFiniteSet(A)
  BY DEF Items
<1>7. A # {} => \E m \in A : above[m] = {}
  <2> HIDE DEF A, above
  <2> QED  BY <1>4, <1>5, <1>6, MaximalElement
<1>8. \A m \in A : above[m] = {} => m \notin rest
  OBVIOUS
<1> HIDE DEF rest, above
<1>9. rest \subseteq A
  BY DEF rest
<1> QED  BY <1>1, <1>2, <1>7, <1>8, <1>9

\* The largest bodies are those no body is larger than; they go first.
LEMMA OneBodyLess ==
  ASSUME NEW A, Items(A), Bodies(A) # {}
  PROVE  \E m \in Bodies(A) : m.span \notin SpansOf(Bodies(Omitting(A, 1)))
<1> DEFINE B == Bodies(A)
           larger(i) == {j \in B : \/ BodySize[j.span] > BodySize[i.span]
                                   \/ BodySize[j.span] = BodySize[i.span] /\ j.span < i.span}
           above == [i \in B |-> larger(i)]
<1>1. B \in SUBSET A /\ IsFiniteSet(B)
  BY FS_Subset DEF Bodies, Items
<1>2. \A i \in B : i.span \in Nat /\ BodySize[i.span] \in Nat
  BY <1>1, SpanContentAssumption DEF Items, Item
<1>3. \A i \in B : i \notin above[i]
  BY <1>2
<1>4. \A i \in B : \A j \in above[i] : above[j] \subseteq above[i]
  BY <1>2
<1>5. above \in [B -> SUBSET B]
  OBVIOUS
<1>6. PICK m \in B : above[m] = {}
  <2> HIDE DEF B, above
  <2> QED  BY <1>1, <1>3, <1>4, <1>5, MaximalElement DEF B
<1>7. Omitting(A, 1) = {[i EXCEPT !.body = @ /\ Cardinality(larger(i)) >= 1] : i \in A}
  BY DEF Omitting
<1>8. ASSUME NEW o \in Bodies(Omitting(A, 1)), o.span = m.span PROVE FALSE
  <2>1. PICK i \in A : o = [i EXCEPT !.body = @ /\ Cardinality(larger(i)) >= 1]
    BY <1>7, <1>8 DEF Bodies
  <2>2. i \in Item /\ m \in A /\ m \in Item
    BY <1>1 DEF Items
  <2> DEFINE left == i.body /\ Cardinality(larger(i)) >= 1
  <2>3. o = [i EXCEPT !.body = left]
    BY <2>1
  <2>4. [i EXCEPT !.body = left].span = i.span /\ [i EXCEPT !.body = left].body = left
    BY <2>2 DEF Item
  <2>5. i = m
    <3> HIDE DEF left, B
    <3> QED  BY <1>8, <2>2, <2>3, <2>4 DEF Items
  <2>6. Cardinality(larger(m)) = 0
    BY <1>6, FS_EmptySet
  <2>7. ~ left
    <3> HIDE DEF larger
    <3> QED  BY <2>5, <2>6
  <2> HIDE DEF left
  <2>8. o.body
    BY DEF Bodies
  <2> QED  BY <2>3, <2>4, <2>7, <2>8
<1>9. m.span \notin SpansOf(Bodies(Omitting(A, 1)))
  BY <1>8 DEF SpansOf
<1> QED  BY <1>6, <1>9

\* What reducing does: nothing is added, counted or changed.
Reduction(b, r) ==
  /\ r \in Buffer /\ Items(r.spans) /\ SpansOf(r.spans) \subseteq SpansOf(b.spans)
  /\ SpansOf(Bodies(r.spans)) \subseteq SpansOf(Bodies(b.spans))
  /\ r.observed = b.observed

\* How much there is still to take away.
Weight(b) == Cardinality(SpansOf(b.spans)) + Cardinality(SpansOf(Bodies(b.spans)))

LEMMA WeightFacts ==
  ASSUME NEW b \in Buffer, Items(b.spans)
  PROVE  /\ IsFiniteSet(SpansOf(b.spans)) /\ IsFiniteSet(SpansOf(Bodies(b.spans)))
         /\ Cardinality(SpansOf(b.spans)) \in Nat
         /\ Cardinality(SpansOf(Bodies(b.spans))) \in Nat /\ Weight(b) \in Nat
<1>1. Items(Bodies(b.spans))
  BY ItemsSubset DEF Bodies
<1>2. /\ IsFiniteSet(SpansOf(b.spans)) /\ Cardinality(SpansOf(b.spans)) \in Nat
      /\ IsFiniteSet(SpansOf(Bodies(b.spans)))
      /\ Cardinality(SpansOf(Bodies(b.spans))) \in Nat
  BY <1>1, ItemsAreSpans, FS_CardinalityType
<1> QED  BY <1>2 DEF Weight

LEMMA ReductionWeight ==
  ASSUME NEW b \in Buffer, Items(b.spans), NEW r, Reduction(b, r)
  PROVE  /\ Weight(r) <= Weight(b)
         /\ Cardinality(r.spans) <= Cardinality(b.spans)
         /\ (\E x : \/ x \in SpansOf(b.spans) \ SpansOf(r.spans)
                    \/ x \in SpansOf(Bodies(b.spans)) \ SpansOf(Bodies(r.spans)))
              => Weight(r) < Weight(b)
<1> DEFINE S == SpansOf(b.spans)  T == SpansOf(r.spans)
           U == SpansOf(Bodies(b.spans))  V == SpansOf(Bodies(r.spans))
<1>1. r \in Buffer /\ Items(r.spans) /\ T \subseteq S /\ V \subseteq U
  BY DEF Reduction
<1>2. /\ IsFiniteSet(S) /\ IsFiniteSet(U) /\ Cardinality(S) \in Nat /\ Cardinality(U) \in Nat
      /\ Cardinality(T) \in Nat /\ Cardinality(V) \in Nat
      /\ Weight(b) = Cardinality(S) + Cardinality(U)
      /\ Weight(r) = Cardinality(T) + Cardinality(V)
  BY <1>1, WeightFacts DEF Weight
<1>3. Cardinality(S) = Cardinality(b.spans) /\ Cardinality(T) = Cardinality(r.spans)
  BY <1>1, ItemsAreSpans
<1> HIDE DEF S, T, U, V
<1>4. Cardinality(T) <= Cardinality(S) /\ Cardinality(V) <= Cardinality(U)
  BY <1>1, <1>2, FS_Subset
<1>5. /\ T # S => Cardinality(T) < Cardinality(S)
      /\ V # U => Cardinality(V) < Cardinality(U)
  BY <1>1, <1>2, FS_Subset
<1>6. (\E x : x \in S \ T \/ x \in U \ V) => T # S \/ V # U
  OBVIOUS
<1>7. Weight(r) <= Weight(b) /\ (T # S \/ V # U => Weight(r) < Weight(b))
  BY <1>2, <1>4, <1>5
<1> QED  BY <1>3, <1>4, <1>6, <1>7 DEF S, T, U, V

LEMMA ReductionChain ==
  ASSUME NEW a, NEW b, NEW c, Reduction(a, b), Reduction(b, c)
  PROVE  Reduction(a, c)
BY DEF Reduction

\* A count that a buffer holds.
LEMMA CountFacts ==
  ASSUME NEW m \in 0 .. MaxDropped, NEW n \in Nat
  PROVE  Saturated(m + n) \in 0 .. MaxDropped /\ Saturated(m + 0) = m
BY SpanContentAssumption DEF Saturated

LEMMA LostFacts ==
  ASSUME NEW b \in Buffer, NEW reason \in Reasons, NEW n \in Nat
  PROVE  /\ Lost(b, reason, n) \in Buffer /\ Lost(b, reason, n).spans = b.spans
         /\ Lost(b, reason, n).observed = Saturated(b.observed + n)
         /\ reason \in Lost(b, reason, n).reasons
<1> DEFINE count == Saturated(b.observed + n)
<1>1. b.observed \in 0 .. MaxDropped /\ count \in 0 .. MaxDropped
  BY CountFacts DEF Buffer
<1>2. Lost(b, reason, n) = [b EXCEPT !.observed = count, !.reasons = @ \cup {reason}]
  BY DEF Lost
<1> HIDE DEF count
<1>3. /\ [b EXCEPT !.observed = count, !.reasons = @ \cup {reason}] \in Buffer
      /\ [b EXCEPT !.observed = count, !.reasons = @ \cup {reason}].spans = b.spans
      /\ [b EXCEPT !.observed = count, !.reasons = @ \cup {reason}].observed = count
      /\ reason \in [b EXCEPT !.observed = count, !.reasons = @ \cup {reason}].reasons
  BY <1>1 DEF Buffer
<1> QED  BY <1>2, <1>3 DEF count

\* A loss that was counted before counts nothing.
LEMMA LostReduces ==
  ASSUME NEW b \in Buffer, Items(b.spans), NEW reason \in Reasons
  PROVE  Reduction(b, Lost(b, reason, 0)) /\ Lost(b, reason, 0).spans = b.spans
<1>1. b.observed \in 0 .. MaxDropped
  BY DEF Buffer
<1> QED  BY <1>1, LostFacts, CountFacts DEF Reduction

\* Fewer spans.
LEMMA FewerSpans ==
  ASSUME NEW b \in Buffer, Items(b.spans), NEW A \in SUBSET b.spans
  PROVE  /\ Reduction(b, [b EXCEPT !.spans = A])
         /\ [b EXCEPT !.spans = A].spans = A /\ [b EXCEPT !.spans = A] \in Buffer
<1>1. Items(A) /\ SpansOf(A) \subseteq SpansOf(b.spans) /\ A \in SUBSET Item
  BY ItemsSubset DEF Items
<1>2. Bodies(A) \subseteq Bodies(b.spans)
  BY DEF Bodies
<1>3. SpansOf(Bodies(A)) \subseteq SpansOf(Bodies(b.spans))
  BY <1>2 DEF SpansOf
<1>4. /\ [b EXCEPT !.spans = A] \in Buffer /\ [b EXCEPT !.spans = A].spans = A
      /\ [b EXCEPT !.spans = A].observed = b.observed
  BY <1>1 DEF Buffer
<1> QED  BY <1>1, <1>3, <1>4 DEF Reduction

LEMMA LowestReduces ==
  ASSUME NEW b \in Buffer, Items(b.spans)
  PROVE  /\ Reduction(b, WithoutLowest(b))
         /\ b.spans # {} =>
              \E m \in b.spans : m.span \in SpansOf(b.spans) \ SpansOf(WithoutLowest(b).spans)
<1>1. Reduction(b, WithoutLowest(b))
  BY LowestFacts, FewerSpans
<1>2. ASSUME NEW m \in b.spans, m \notin WithoutLowest(b).spans
      PROVE  m.span \in SpansOf(b.spans) \ SpansOf(WithoutLowest(b).spans)
  BY <1>2, LowestFacts DEF SpansOf, Items
<1> QED  BY <1>1, <1>2, LowestFacts

\* A buffer that is not empty is reduced by something.
LEMMA ReducedFacts ==
  ASSUME NEW b \in Buffer, Items(b.spans), b.spans # {}
  PROVE  Reduction(b, Reduced(b)) /\ Weight(Reduced(b)) < Weight(b)
<1>1. CASE Bodies(b.spans) # {}
  <2> DEFINE r == LosingBody(b)  O == Omitting(b.spans, 1)
             count == Saturated(b.fields + 1)
  <2>1. /\ Items(O) /\ SpansOf(O) = SpansOf(b.spans)
        /\ \A o \in O : \E a \in b.spans : a.span = o.span /\ (o.body => a.body)
    BY OmittingFacts
  <2>2. SpansOf(Bodies(O)) \subseteq SpansOf(Bodies(b.spans))
    <3>1. ASSUME NEW o \in Bodies(O) PROVE \E a \in Bodies(b.spans) : a.span = o.span
      BY <2>1 DEF Bodies
    <3> HIDE DEF O
    <3> QED  BY <3>1 DEF SpansOf
  <2>3. PICK m \in Bodies(b.spans) : m.span \notin SpansOf(Bodies(O))
    BY <1>1, OneBodyLess
  <2>4. count \in 0 .. MaxDropped
    BY CountFacts DEF Buffer
  <2>5. O \in SUBSET Item /\ "model_content_size_limit" \in Reasons
    BY <2>1 DEF Items, Reasons
  <2>6. r = [b EXCEPT !.spans = O, !.fields = count,
                      !.reasons = @ \cup {"model_content_size_limit"}]
    BY DEF LosingBody
  <2> HIDE DEF O, count
  <2>7. r \in Buffer /\ r.spans = O /\ r.observed = b.observed
    <3> HIDE DEF r
    <3> QED  BY <2>4, <2>5, <2>6 DEF Buffer
  <2>8. Reduction(b, r)
    <3> HIDE DEF r
    <3> QED  BY <2>1, <2>2, <2>7 DEF Reduction
  <2>9. m.span \in SpansOf(Bodies(b.spans)) \ SpansOf(Bodies(r.spans))
    <3> HIDE DEF r
    <3> QED  BY <2>3, <2>7 DEF SpansOf
  <2>10. Weight(r) < Weight(b)
    <3> HIDE DEF r
    <3> QED  BY <2>8, <2>9, ReductionWeight
  <2> QED  BY <1>1, <2>8, <2>10 DEF Reduced
<1>2. CASE Bodies(b.spans) = {}
  <2> DEFINE w == WithoutLowest(b)  r == Lost(w, "byte_limit", 0)
  <2>1. Reduction(b, w)
    BY LowestReduces
  <2>2. PICK m \in b.spans : m.span \in SpansOf(b.spans) \ SpansOf(w.spans)
    BY LowestReduces
  <2>3. "byte_limit" \in Reasons
    BY DEF Reasons
  <2>4. Reduction(w, r) /\ r.spans = w.spans
    BY <2>1, <2>3, LostReduces DEF Reduction
  <2>5. Reduced(b) = r
    BY <1>2 DEF Reduced
  <2> HIDE DEF w, r
  <2>6. Reduction(b, r)
    BY <2>1, <2>4, ReductionChain
  <2>7. Weight(r) < Weight(b)
    BY <2>2, <2>4, <2>6, ReductionWeight
  <2> QED  BY <2>5, <2>6, <2>7
<1> QED  BY <1>1, <1>2

LEMMA ClosingReduces ==
  ASSUME NEW b \in Buffer, Items(b.spans)
  PROVE  /\ Reduction(b, Closed(b))
         /\ \A i \in Closed(b).spans :
              Parent[i.span] \in SpansOf(Closed(b).spans) \union {NoSpan}
<1>1. TopologyClosed(b.spans) \in SUBSET b.spans
  BY ClosedFacts
<1>2. CASE TopologyClosed(b.spans) = b.spans
  <2>1. Closed(b) = b
    BY <1>2 DEF Closed
  <2> QED  BY <1>2, <2>1, ClosedFacts DEF Reduction
<1>3. CASE TopologyClosed(b.spans) # b.spans
  <2> DEFINE l == Lost(b, "topology_partial", 0)
  <2>1. "topology_partial" \in Reasons
    BY DEF Reasons
  <2>2. Reduction(b, l) /\ l.spans = b.spans
    BY <2>1, LostReduces
  <2>3. Closed(b) = [l EXCEPT !.spans = TopologyClosed(b.spans)]
    <3>1. Closed(b) = [l EXCEPT !.spans = TopologyClosed(@)]
      BY <1>3 DEF Closed
    <3>2. l \in Buffer
      BY <2>2 DEF Reduction
    <3> HIDE DEF l
    <3> QED  BY <2>2, <3>1, <3>2 DEF Buffer
  <2> HIDE DEF l
  <2>4. l \in Buffer /\ Items(l.spans)
    BY <2>2 DEF Reduction
  <2>5. Reduction(l, Closed(b)) /\ Closed(b).spans = TopologyClosed(b.spans)
    BY <1>1, <2>2, <2>3, <2>4, FewerSpans
  <2> QED  BY <2>2, <2>5, ReductionChain, ClosedFacts
<1> QED  BY <1>2, <1>3

----------------------------------------------------------------------------
(* Reducing again and again.                                               *)

\* A loop has a value for every start, which is found where it leads to.
LEMMA LoopExists ==
  ASSUME NEW X, NEW D, NEW step \in [X -> X]
  PROVE  \E f : f = [c \in X |-> IF c \in D THEN c ELSE f[step[c]]]
<1> DEFINE closed(Y) == \A y \in Y : y \notin D => step[y] \in Y
           reach(c) == {x \in X : \A Y \in SUBSET X : c \in Y /\ closed(Y) => x \in Y}
           f == [c \in X |-> CHOOSE d : d \in reach(c) \cap D]
<1>1. ASSUME NEW c \in X, c \in D PROVE f[c] = c
  <2>1. reach(c) \subseteq {c}
    <3>1. {c} \in SUBSET X /\ closed({c})
      BY <1>1
    <3> HIDE DEF closed
    <3> QED  BY <3>1
  <2>2. c \in reach(c)
    OBVIOUS
  <2>3. reach(c) \cap D = {c}
    BY <1>1, <2>1, <2>2
  <2> HIDE DEF reach
  <2> QED  BY <2>3
<1>2. ASSUME NEW c \in X, c \notin D PROVE f[c] = f[step[c]]
  <2>1. step[c] \in X
    OBVIOUS
  <2>2. ASSUME NEW x \in reach(step[c]) PROVE x \in reach(c)
    BY <1>2
  <2>3. ASSUME NEW x \in reach(c), x \in D PROVE x \in reach(step[c])
    <3>1. SUFFICES ASSUME NEW Y \in SUBSET X, step[c] \in Y, closed(Y) PROVE x \in Y
      OBVIOUS
    <3>2. Y \union {c} \in SUBSET X /\ closed(Y \union {c}) /\ c \in Y \union {c}
      BY <3>1
    <3>3. x \in Y \union {c}
      <4> HIDE DEF closed
      <4> QED  BY <2>3, <3>2
    <3> QED  BY <1>2, <2>3, <3>3
  <2>4. reach(c) \cap D = reach(step[c]) \cap D
    <3> HIDE DEF reach
    <3> QED  BY <2>2, <2>3
  <2> HIDE DEF reach
  <2> QED  BY <2>1, <2>4
<1> HIDE DEF reach, closed
<1>3. f = [c \in X |-> f[c]]
  OBVIOUS
<1> HIDE DEF f
<1>4. f = [c \in X |-> IF c \in D THEN c ELSE f[step[c]]]
  BY <1>1, <1>2, <1>3
<1> QED  BY <1>4

\* A loop that reduces a buffer until it fits ends with one that does.
LEMMA LoopFacts ==
  ASSUME NEW limit \in Nat, NEW g, NEW P, NEW f,
         \A c \in Buffer : Items(c.spans) /\ c.spans # {} =>
           Reduction(c, g[c]) /\ Weight(g[c]) < Weight(c) /\ g[c] \in P,
         f = [c \in Buffer |-> IF Bytes(c.spans) <= limit THEN c ELSE f[g[c]]],
         NEW b \in Buffer, Items(b.spans), b \in P
  PROVE  Reduction(b, f[b]) /\ Bytes(f[b].spans) <= limit /\ f[b] \in P
<1> DEFINE Good(c) == Reduction(c, f[c]) /\ Bytes(f[c].spans) <= limit /\ f[c] \in P
           S == {n \in Nat : \A c \in Buffer : Items(c.spans) /\ c \in P /\ Weight(c) < n => Good(c)}
<1>1. 0 \in S
  BY WeightFacts
<1>2. ASSUME NEW n \in Nat, n \in S PROVE n + 1 \in S
  <2> SUFFICES ASSUME NEW c \in Buffer, Items(c.spans), c \in P, Weight(c) < n + 1
               PROVE  Good(c)
    OBVIOUS
  <2>1. CASE Bytes(c.spans) <= limit
    <3>1. f[c] = c
      BY <2>1
    <3> QED  BY <2>1, <3>1 DEF Reduction
  <2>2. CASE ~(Bytes(c.spans) <= limit)
    <3>1. f[c] = f[g[c]]
      BY <2>2
    <3>2. ASSUME c.spans = {} PROVE FALSE
      <4>1. Bytes(c.spans) = 0
        BY <3>2, BytesFacts
      <4> HIDE DEF S
      <4> QED  BY <2>2, <4>1
    <3>3. Reduction(c, g[c]) /\ Weight(g[c]) < Weight(c) /\ g[c] \in P
      BY <3>2
    <3>4. g[c] \in Buffer /\ Items(g[c].spans)
      BY <3>3 DEF Reduction
    <3>5. Weight(g[c]) < n
      BY <3>3, <3>4, WeightFacts
    <3>6. Good(g[c])
      <4> HIDE DEF Good
      <4> QED  BY <1>2, <3>3, <3>4, <3>5
    <3> QED  BY <3>1, <3>3, <3>6, ReductionChain
  <2> QED  BY <2>1, <2>2
<1> HIDE DEF S
<1>3. Nat \subseteq S
  BY <1>1, <1>2, SetInduction
<1>4. Weight(b) + 1 \in S /\ Weight(b) < Weight(b) + 1
  BY <1>3, WeightFacts
<1> USE DEF S
<1> HIDE DEF Good
<1>5. Good(b)
  BY <1>4
<1> QED  BY <1>5 DEF Good

LEMMA ReducingStays == \A c \in Buffer : Reduced(c) \in Buffer /\ Closed(Reduced(c)) \in Buffer
<1>1. ASSUME NEW c \in Buffer PROVE Reduced(c) \in Buffer
  <2>1. CASE Bodies(c.spans) # {}
    <3> DEFINE O == Omitting(c.spans, 1)  count == Saturated(c.fields + 1)
    <3>1. O \in SUBSET Item
      <4>1. O = {OmittedItem(c.spans, i, 1) : i \in c.spans}
        BY DEF Omitting, OmittedItem
      <4>2. ASSUME NEW i \in c.spans PROVE OmittedItem(c.spans, i, 1) \in Item
        <5> DEFINE left == i.body /\ Cardinality({j \in Bodies(c.spans) :
                 \/ BodySize[j.span] > BodySize[i.span]
                 \/ BodySize[j.span] = BodySize[i.span] /\ j.span < i.span}) >= 1
        <5>1. OmittedItem(c.spans, i, 1) = [i EXCEPT !.body = left] /\ left \in BOOLEAN
          BY DEF OmittedItem
        <5>2. i \in Item
          BY DEF Buffer
        <5> HIDE DEF left
        <5> QED  BY <5>1, <5>2 DEF Item
      <4> HIDE DEF O
      <4> QED  BY <4>1, <4>2
    <3>2. count \in 0 .. MaxDropped
      BY CountFacts DEF Buffer
    <3>3. Reduced(c) = [c EXCEPT !.spans = O, !.fields = count,
                                 !.reasons = @ \cup {"model_content_size_limit"}]
      BY <2>1 DEF Reduced, LosingBody
    <3> HIDE DEF O, count
    <3> QED  BY <3>1, <3>2, <3>3 DEF Buffer, Reasons
  <2>2. CASE Bodies(c.spans) = {}
    <3>1. WithoutLowest(c) \in Buffer
      BY DEF WithoutLowest, Buffer
    <3>2. Reduced(c) = Lost(WithoutLowest(c), "byte_limit", 0) /\ "byte_limit" \in Reasons
      BY <2>2 DEF Reduced, Reasons
    <3> QED  BY <3>1, <3>2, LostFacts
  <2> QED  BY <2>1, <2>2
<1>2. ASSUME NEW c \in Buffer PROVE Closed(c) \in Buffer
  <2>1. "topology_partial" \in Reasons /\ TopologyClosed(c.spans) \in SUBSET Item
    BY ClosedFacts DEF Reasons, Buffer
  <2>2. Lost(c, "topology_partial", 0) \in Buffer /\ Lost(c, "topology_partial", 0).spans = c.spans
    BY <2>1, LostFacts
  <2>3. CASE TopologyClosed(c.spans) # c.spans
    <3> DEFINE l == Lost(c, "topology_partial", 0)
    <3>1. Closed(c) = [l EXCEPT !.spans = TopologyClosed(@)]
      BY <2>3 DEF Closed
    <3>2. l \in Buffer /\ l.spans = c.spans
      BY <2>2
    <3> HIDE DEF l
    <3> QED  BY <2>1, <3>1, <3>2 DEF Buffer
  <2> QED  BY <2>3 DEF Closed
<1> QED  BY <1>1, <1>2

\* The loop of add.
LEMMA ShrunkFacts ==
  ASSUME NEW b \in Buffer, Items(b.spans)
  PROVE  Reduction(b, Shrunk(b)) /\ Bytes(Shrunk(b).spans) <= MaxExport
<1> DEFINE step == [c \in Buffer |-> Reduced(c)]
           D == {c \in Buffer : Bytes(c.spans) <= MaxExport}
           body(f) == [c \in Buffer |-> IF Bytes(c.spans) <= MaxExport THEN c ELSE f[Reduced(c)]]
           f == CHOOSE h : h = body(h)
<1>1. step \in [Buffer -> Buffer]
  BY ReducingStays
<1>2. \E h : h = [c \in Buffer |-> IF c \in D THEN c ELSE h[step[c]]]
  <2> HIDE DEF step, D
  <2> QED  BY <1>1, LoopExists
<1>3. \A h : [c \in Buffer |-> IF c \in D THEN c ELSE h[step[c]]] = body(h)
  OBVIOUS
<1>4. \E h : h = body(h)
  <2> HIDE DEF step, D, body
  <2> QED  BY <1>2, <1>3
<1>5. f = body(f)
  <2> HIDE DEF body
  <2> QED  BY <1>4
<1>6. Shrunk(b) = f[b]
  BY DEF Shrunk
<1>7. f = [c \in Buffer |-> IF Bytes(c.spans) <= MaxExport THEN c ELSE f[step[c]]]
  <2> HIDE DEF f
  <2> QED  BY <1>5
<1>8. \A c \in Buffer : Items(c.spans) /\ c.spans # {} =>
        Reduction(c, step[c]) /\ Weight(step[c]) < Weight(c) /\ step[c] \in Buffer
  BY ReducedFacts, ReducingStays
<1>9. MaxExport \in Nat
  BY ObservationAssumption
<1> HIDE DEF f, step, body, D
<1> QED  BY <1>6, <1>7, <1>8, <1>9, LoopFacts

\* What is closed under parents.
Rooted(b) == \A i \in b.spans : Parent[i.span] \in SpansOf(b.spans) \union {NoSpan}

\* The loop of finish.
LEMMA SettledFacts ==
  ASSUME NEW b \in Buffer, Items(b.spans), Rooted(b)
  PROVE  /\ Reduction(b, Trimmed(b)) /\ Bytes(Trimmed(b).spans) <= MaxExport - 1
         /\ Rooted(Trimmed(b))
<1> DEFINE step == [c \in Buffer |-> Closed(Reduced(c))]
           D == {c \in Buffer : Bytes(c.spans) <= MaxExport - 1}
           P == {c \in Buffer : Rooted(c)}
           body(f) == [c \in Buffer |-> IF Bytes(c.spans) <= MaxExport - 1 THEN c
                                        ELSE f[Closed(Reduced(c))]]
           f == CHOOSE h : h = body(h)
<1>1. step \in [Buffer -> Buffer]
  BY ReducingStays
<1>2. \E h : h = [c \in Buffer |-> IF c \in D THEN c ELSE h[step[c]]]
  <2> HIDE DEF step, D
  <2> QED  BY <1>1, LoopExists
<1>3. \A h : [c \in Buffer |-> IF c \in D THEN c ELSE h[step[c]]] = body(h)
  OBVIOUS
<1>4. \E h : h = body(h)
  <2> HIDE DEF step, D, body
  <2> QED  BY <1>2, <1>3
<1>5. f = body(f)
  <2> HIDE DEF body
  <2> QED  BY <1>4
<1>6. Trimmed(b) = f[b]
  BY DEF Trimmed
<1>7. f = [c \in Buffer |-> IF Bytes(c.spans) <= MaxExport - 1 THEN c ELSE f[step[c]]]
  <2> HIDE DEF f
  <2> QED  BY <1>5
<1>8. ASSUME NEW c \in Buffer, Items(c.spans), c.spans # {}
      PROVE  Reduction(c, step[c]) /\ Weight(step[c]) < Weight(c) /\ step[c] \in P
  <2> DEFINE r == Reduced(c)  d == Closed(r)
  <2>1. Reduction(c, r) /\ Weight(r) < Weight(c) /\ r \in Buffer /\ Items(r.spans)
    BY <1>8, ReducedFacts DEF Reduction
  <2>2. Reduction(r, d) /\ Rooted(d) /\ d \in Buffer /\ Items(d.spans)
    <3> HIDE DEF r
    <3> QED  BY <2>1, ClosingReduces DEF Rooted, Reduction
  <2>3. Weight(d) <= Weight(r) /\ Weight(c) \in Nat /\ Weight(d) \in Nat /\ Weight(r) \in Nat
    <3> HIDE DEF r, d
    <3> QED  BY <1>8, <2>1, <2>2, ReductionWeight, WeightFacts
  <2>4. step[c] = d
    OBVIOUS
  <2> HIDE DEF r, d, step
  <2>5. Reduction(c, d)
    BY <2>1, <2>2, ReductionChain
  <2>6. Weight(d) < Weight(c)
    BY <2>1, <2>3
  <2> QED  BY <2>2, <2>4, <2>5, <2>6
<1>9. MaxExport - 1 \in Nat /\ b \in P
  BY ObservationAssumption
<1> HIDE DEF f, step, body, D, P
<1>10. Reduction(b, f[b]) /\ Bytes(f[b].spans) <= MaxExport - 1 /\ f[b] \in P
  BY <1>7, <1>8, <1>9, LoopFacts
<1> QED  BY <1>6, <1>10 DEF P

----------------------------------------------------------------------------
(* What becomes of a buffer.                                               *)

\* A reduced buffer still has counted the same spans.
LEMMA ReducedCounts ==
  ASSUME NEW b \in Buffer, NEW done, Counts(b, done), NEW r, Reduction(b, r)
  PROVE  r \in Buffer /\ Counts(r, done)
<1>1. Items(b.spans) /\ r \in Buffer /\ Items(r.spans)
  BY DEF Counts, Reduction
<1>2. Cardinality(r.spans) <= Cardinality(b.spans)
  BY <1>1, ReductionWeight
<1>3. Cardinality(r.spans) \in Nat /\ Cardinality(b.spans) \in Nat
  BY <1>1, ItemsAreSpans
<1> QED  BY <1>1, <1>2, <1>3, ObservationAssumption DEF Counts, Reduction

\* A span that started, but that the buffer never gets, is counted.
LEMMA LostCounts ==
  ASSUME NEW b \in Buffer, NEW done, IsFiniteSet(done), Counts(b, done), NEW more,
         IsFiniteSet(more), done \cap more = {}, NEW reason \in Reasons
  PROVE  LET l == Lost(b, reason, Cardinality(more))
         IN  l \in Buffer /\ Counts(l, done \union more) /\ l.spans = b.spans
<1> DEFINE n == Cardinality(more)  l == Lost(b, reason, n)
<1>1. n \in Nat /\ Cardinality(done) \in Nat
  BY FS_CardinalityType
<1>2. Cardinality(done \union more) = Cardinality(done) + n
  <2>1. Cardinality(done \cap more) = 0
    BY FS_EmptySet
  <2>2. Cardinality(done \union more)
          = Cardinality(done) + Cardinality(more) - Cardinality(done \cap more)
    BY FS_Union
  <2> QED  BY <1>1, <2>1, <2>2
<1>3. l \in Buffer /\ l.spans = b.spans /\ l.observed = Saturated(b.observed + n)
  <2> HIDE DEF n
  <2> QED  BY <1>1, LostFacts
<1>4. l.observed = Saturated(Cardinality(done \union more))
  BY <1>1, <1>2, <1>3, SaturatedFacts DEF Counts
<1> HIDE DEF l
<1>5. Counts(l, done \union more)
  BY <1>3, <1>4 DEF Counts
<1> QED  BY <1>3, <1>5 DEF l

LEMMA AddedCounts ==
  ASSUME NEW b \in Buffer, NEW done, IsFiniteSet(done), Counts(b, done),
         NEW x \in Span, x \notin done
  PROVE  Added(b, x) \in Buffer /\ Counts(Added(b, x), done \union {x})
<1> DEFINE count == Saturated(b.observed + 1)
           counted == [b EXCEPT !.observed = count]
           held == [counted EXCEPT !.spans = @ \cup {Mapped(x)}]
           fewer == Lost(WithoutLowest(held), "span_limit", 0)
           sampled == IF Cardinality(held.spans) > MaxObserved THEN fewer ELSE held
           more == done \union {x}
<1>1. IsFiniteSet(more) /\ Cardinality(more) = Cardinality(done) + 1
      /\ Cardinality(done) \in Nat /\ Cardinality(more) \in Nat
  BY FS_AddElement, FS_CardinalityType
<1>2. count \in 0 .. MaxDropped
  BY CountFacts DEF Buffer
<1>3. count = Saturated(Cardinality(more))
  BY <1>1, SaturatedFacts DEF Counts
<1>4. /\ counted \in Buffer /\ counted.spans = b.spans /\ counted.observed = count
      /\ counted.reasons = b.reasons
  <2> HIDE DEF count
  <2> QED  BY <1>2 DEF Buffer
<1>5. Counts(counted, more)
  <2> HIDE DEF counted, count
  <2> QED  BY <1>3, <1>4 DEF Counts
<1>6. Added(b, x) = IF x \in Faulty THEN Lost(counted, "mapping", 0) ELSE Shrunk(sampled)
  BY DEF Added
<1>7. CASE x \in Faulty
  <2>1. "mapping" \in Reasons
    BY DEF Reasons
  <2> HIDE DEF counted, sampled
  <2>2. Reduction(counted, Lost(counted, "mapping", 0))
    BY <1>4, <1>5, <2>1, LostReduces DEF Counts
  <2> QED  BY <1>4, <1>5, <1>6, <1>7, <2>2, ReducedCounts
<1>8. CASE x \notin Faulty
  <2> DEFINE A == b.spans \cup {Mapped(x)}
  <2>1. Mapped(x) \in Item /\ Mapped(x).span = x
    BY SpanContentAssumption DEF Mapped, Item
  <2>2. Mapped(x) \notin b.spans
    BY <2>1 DEF Counts, SpansOf
  <2>3. Items(A) /\ SpansOf(A) \subseteq more /\ Cardinality(A) = Cardinality(b.spans) + 1
    <3>1. Items(b.spans) /\ SpansOf(b.spans) \subseteq done
      BY DEF Counts
    <3>2. IsFiniteSet(A) /\ Cardinality(A) = Cardinality(b.spans) + 1
      BY <2>2, <3>1, FS_AddElement DEF Items
    <3>3. \A i \in b.spans : i.span # Mapped(x).span
      BY <2>1, <3>1 DEF SpansOf
    <3>4. \A i, j \in A : i.span = j.span => i = j
      BY <3>1, <3>3 DEF Items
    <3>5. SpansOf(A) = SpansOf(b.spans) \union {x}
      BY <2>1 DEF SpansOf
    <3> HIDE DEF A
    <3> QED  BY <2>1, <3>1, <3>2, <3>4, <3>5 DEF Items, A
  <2>4. held = [counted EXCEPT !.spans = A]
    <3> HIDE DEF count
    <3> QED  BY <1>4
  <2>5. held \in Buffer /\ held.spans = A /\ held.observed = count
    <3>1. A \in SUBSET Item
      BY <2>3 DEF Items
    <3> HIDE DEF A, counted, held, count
    <3> QED  BY <1>4, <2>4, <3>1 DEF Buffer
  <2>6. sampled \in Buffer /\ Counts(sampled, more)
    <3>1. CASE Cardinality(held.spans) > MaxObserved
      <4> DEFINE w == WithoutLowest(held)
      <4> HIDE DEF counted, held, count, A
      <4>1. Reduction(held, w)
        BY <2>3, <2>5, LowestReduces
      <4>2. held.spans # {}
        BY <3>1, FS_EmptySet, ObservationAssumption
      <4>3. PICK m \in held.spans : m.span \in SpansOf(held.spans) \ SpansOf(w.spans)
        BY <2>3, <2>5, <4>2, LowestReduces
      <4>4. "span_limit" \in Reasons
        BY DEF Reasons
      <4>5. Reduction(w, fewer) /\ fewer.spans = w.spans
        BY <4>1, <4>4, LostReduces DEF Reduction
      <4>6. Reduction(held, fewer)
        BY <4>1, <4>5, ReductionChain
      <4>7. Cardinality(fewer.spans) < Cardinality(held.spans)
        <5>1. /\ Items(held.spans) /\ Items(fewer.spans)
              /\ SpansOf(fewer.spans) \subseteq SpansOf(held.spans)
              /\ SpansOf(fewer.spans) # SpansOf(held.spans)
          BY <2>3, <2>5, <4>3, <4>5, <4>6 DEF Reduction
        <5> HIDE DEF fewer, w
        <5> DEFINE S == SpansOf(held.spans)  T == SpansOf(fewer.spans)
        <5>2. IsFiniteSet(S) /\ Cardinality(S) = Cardinality(held.spans)
              /\ Cardinality(T) = Cardinality(fewer.spans)
              /\ Cardinality(S) \in Nat /\ Cardinality(T) \in Nat
          BY <5>1, ItemsAreSpans
        <5>3. T \subseteq S /\ T # S
          BY <5>1
        <5> HIDE DEF S, T
        <5>4. Cardinality(T) < Cardinality(S)
          BY <5>2, <5>3, FS_Subset
        <5> QED  BY <5>2, <5>4
      <4>8. Cardinality(fewer.spans) <= MaxObserved
        <5>1. Cardinality(b.spans) <= MaxObserved /\ Items(b.spans)
          BY DEF Counts
        <5>2. Cardinality(b.spans) \in Nat /\ Cardinality(fewer.spans) \in Nat
          BY <4>6, <5>1, ItemsAreSpans DEF Reduction
        <5> HIDE DEF fewer
        <5> QED  BY <2>3, <2>5, <4>7, <5>1, <5>2, ObservationAssumption
      <4>9. fewer \in Buffer /\ Counts(fewer, more)
        <5> HIDE DEF fewer, w
        <5> QED  BY <1>3, <2>3, <2>5, <4>6, <4>8 DEF Reduction, Counts
      <4> QED  BY <3>1, <4>9
    <3>2. CASE ~(Cardinality(held.spans) > MaxObserved)
      <4>1. Cardinality(held.spans) <= MaxObserved
        <5>1. Cardinality(held.spans) \in Nat
          BY <2>3, <2>5, ItemsAreSpans
        <5> HIDE DEF held
        <5> QED  BY <3>2, <5>1, ObservationAssumption
      <4>2. sampled = held
        BY <3>2
      <4> HIDE DEF held, sampled, count, A
      <4> QED  BY <1>3, <2>3, <2>5, <4>1, <4>2 DEF Counts
    <3> QED  BY <3>1, <3>2
  <2> HIDE DEF sampled, counted, count, A
  <2>7. Reduction(sampled, Shrunk(sampled))
    BY <2>6, ShrunkFacts DEF Counts
  <2> QED  BY <1>6, <1>8, <2>6, <2>7, ReducedCounts
<1> QED  BY <1>7, <1>8

\* What leaves no trace of a loss has none.
LEMMA ExportFacts ==
  ASSUME NEW b \in Buffer, NEW done, IsFiniteSet(done), Counts(b, done), Rooted(b),
         1 + Bytes(b.spans) <= MaxExport
  PROVE  Exported(b) \in Export /\ Delivers(Exported(b), done)
<1> DEFINE n == Cardinality(b.spans)
           lost == b.observed - n
           d == Saturated(lost + b.fields)
           e == Exported(b)
<1>1. /\ Items(b.spans) /\ SpansOf(b.spans) \subseteq done /\ n <= MaxObserved
      /\ b.observed = Saturated(Cardinality(done))
  BY DEF Counts
<1>2. /\ b.spans \in SUBSET Item /\ b.observed \in 0 .. MaxDropped
      /\ b.fields \in 0 .. MaxDropped /\ b.reasons \in SUBSET Reasons
  BY DEF Buffer
<1>3. n \in Nat /\ n = Cardinality(SpansOf(b.spans))
  BY <1>1, ItemsAreSpans
<1>4. n <= Cardinality(done) /\ Cardinality(done) \in Nat
  BY <1>1, <1>3, FS_Subset, FS_CardinalityType
<1>5. n <= b.observed
  <2> HIDE DEF n
  <2> QED  BY <1>1, <1>3, <1>4, ObservationAssumption, SpanContentAssumption DEF Saturated
<1>6. lost \in Nat /\ lost + b.fields \in Nat
  <2> HIDE DEF n
  <2> QED  BY <1>2, <1>3, <1>5
<1>7. d \in 0 .. MaxDropped /\ (d = 0 <=> lost + b.fields = 0)
  <2> HIDE DEF n, lost
  <2> QED  BY <1>6, SaturatedFacts
<1>8. e = [made |-> TRUE, spans |-> b.spans, observed |-> b.observed, fields |-> b.fields,
           reasons |-> b.reasons, dropped |-> d,
           status |-> IF b.reasons = {} /\ d = 0 THEN "complete"
                      ELSE IF b.spans # {} THEN "partial" ELSE "failed"]
  BY DEF Exported
<1>9. /\ e.made = TRUE /\ e.spans = b.spans /\ e.observed = b.observed
      /\ e.fields = b.fields /\ e.reasons = b.reasons /\ e.dropped = d
      /\ e.status = IF b.reasons = {} /\ d = 0 THEN "complete"
                    ELSE IF b.spans # {} THEN "partial" ELSE "failed"
  <2> HIDE DEF e, d
  <2> QED  BY <1>8
<1>10. e \in Export
  <2> HIDE DEF e, d
  <2>1. (IF b.reasons = {} /\ d = 0 THEN "complete"
         ELSE IF b.spans # {} THEN "partial" ELSE "failed") \in {"complete", "partial", "failed"}
    OBVIOUS
  <2> QED  BY <1>2, <1>7, <1>8, <2>1 DEF Export
<1>11. ValidCapture(e)
  <2> HIDE DEF e
  <2>1. e.observed >= Cardinality(e.spans)
    BY <1>2, <1>3, <1>5, <1>9
  <2>2. e.dropped = Saturated(e.observed - Cardinality(e.spans) + e.fields)
    BY <1>9
  <2>3. e.dropped > 0 <=> d # 0
    <3> HIDE DEF d
    <3> QED  BY <1>7, <1>9
  <2>4. e.status = IF ~(e.reasons # {} \/ e.dropped > 0) THEN "complete"
                   ELSE IF e.spans # {} THEN "partial" ELSE "failed"
    <3> HIDE DEF d
    <3> QED  BY <1>9, <2>3
  <2>5. e.status = "complete" => lost = 0 /\ e.fields = 0
    <3>1. e.status = "complete" => d = 0
      <4> HIDE DEF d
      <4> QED  BY <1>9
    <3> HIDE DEF d, lost
    <3> QED  BY <1>2, <1>6, <1>7, <1>9, <3>1
  <2>6. e.dropped >= Saturated(e.observed - Cardinality(e.spans) + e.fields)
    <3> HIDE DEF d, n, lost
    <3> QED  BY <1>7, <1>9, <2>2
  <2>7. \A i \in e.spans : Parent[i.span] \in {j.span : j \in e.spans} \cup {NoSpan}
    BY <1>9 DEF Rooted, SpansOf
  <2>8. lost = e.observed - Cardinality(e.spans)
    BY <1>9
  <2> HIDE DEF d, n, lost
  <2> QED  BY <2>1, <2>4, <2>5, <2>6, <2>7, <2>8 DEF ValidCapture
<1> HIDE DEF e, d, lost
<1>12. Delivers(e, done)
  BY <1>1, <1>9, <1>11 DEF Delivers
<1> QED  BY <1>10, <1>12 DEF e

LEMMA FinishedFacts ==
  ASSUME NEW b \in Buffer, NEW done, IsFiniteSet(done), Counts(b, done),
         NEW e \in {Finished(b), Abandoned(b)}
  PROVE  e \in Export /\ Delivers(e, done)
<1>1. Items(b.spans) /\ "capture_failed" \in Reasons
  BY DEF Counts, Reasons
<1>2. CASE e = Finished(b)
  <2> DEFINE l == IF b.spans = {} THEN Lost(b, "capture_failed", 0) ELSE b
             c == Closed(l)  r == Trimmed(c)
  <2>1. Reduction(b, l)
    <3>1. Reduction(b, b)
      BY <1>1 DEF Reduction
    <3> QED  BY <1>1, <3>1, LostReduces
  <2>2. e = Exported(r)
    BY <1>2 DEF Finished
  <2> HIDE DEF l
  <2>3. l \in Buffer /\ Items(l.spans)
    BY <2>1 DEF Reduction
  <2>4. Reduction(l, c) /\ Rooted(c)
    BY <2>3, ClosingReduces DEF Rooted
  <2> HIDE DEF c
  <2>5. c \in Buffer /\ Items(c.spans)
    BY <2>4 DEF Reduction
  <2>6. Reduction(c, r) /\ Bytes(r.spans) <= MaxExport - 1 /\ Rooted(r)
    BY <2>4, <2>5, SettledFacts
  <2> HIDE DEF r
  <2>7. Reduction(b, r)
    BY <2>1, <2>4, <2>6, ReductionChain
  <2>8. r \in Buffer /\ Counts(r, done)
    BY <2>7, ReducedCounts
  <2>9. 1 + Bytes(r.spans) <= MaxExport
    <3>1. Bytes(r.spans) \in Nat
      BY <2>8, BytesFacts DEF Counts, Items
    <3> QED  BY <2>6, <3>1, ObservationAssumption
  <2> QED  BY <2>2, <2>6, <2>8, <2>9, ExportFacts
<1>3. CASE e = Abandoned(b)
  <2> DEFINE c == [b EXCEPT !.spans = {}]  r == Lost(c, "capture_failed", 0)
  <2>1. e = Exported(r)
    BY <1>3 DEF Abandoned
  <2>2. Reduction(b, c) /\ c.spans = {}
    BY <1>1, FewerSpans
  <2> HIDE DEF c
  <2>3. Reduction(c, r) /\ r.spans = {}
    BY <1>1, <2>2, LostReduces DEF Reduction
  <2> HIDE DEF r
  <2>4. Reduction(b, r)
    BY <2>2, <2>3, ReductionChain
  <2>5. r \in Buffer /\ Counts(r, done)
    BY <2>4, ReducedCounts
  <2>6. Rooted(r) /\ Bytes(r.spans) = 0
    BY <2>3, BytesFacts DEF Rooted
  <2>7. 1 + Bytes(r.spans) <= MaxExport
    BY <2>6, ObservationAssumption
  <2> QED  BY <2>1, <2>5, <2>6, <2>7, ExportFacts
<1> QED  BY <1>2, <1>3

----------------------------------------------------------------------------
(* What the steps do to sessions.                                          *)

SessionState ==
  [state: {"new", "active", "closed"}, attached: BOOLEAN, home: Context,
   outer: Session \cup {NoSession}, pending: SUBSET Span, buffer: Buffer,
   result: Export \cup {NoExport}]

\* No span starts or ends for a session: it stays sound.
LEMMA OwnSame ==
  ASSUME starter' = starter
  PROVE  \A s : Own(s)' = Own(s)
BY DEF Own

\* A step that changes one session at most, and whose span it is not, none of
\* the others' spans.
LEMMA OneSession ==
  ASSUME OInv, NEW s \in Session, NEW t \in SessionState,
         session' = [session EXCEPT ![s] = t], SessionSound(t, Own(s)'),
         \A u \in Session \ {s} : Own(u)' = Own(u)
  PROVE  /\ session' \in [Session -> SessionState]
         /\ \A u \in Session : SessionSound(session'[u], Own(u)')
<1>1. session \in [Session -> SessionState] /\ \A u \in Session : SessionSound(session[u], Own(u))
  BY DEF OInv, ObservationTypeOK, SessionState
<1>2. session' \in [Session -> SessionState] /\ session'[s] = t
      /\ \A u \in Session \ {s} : session'[u] = session[u]
  BY <1>1
<1> QED  BY <1>1, <1>2

LEMMA EmptyCounts == EmptyBuffer \in Buffer /\ Counts(EmptyBuffer, {})
<1>1. EmptyBuffer.spans = {} /\ EmptyBuffer.observed = 0 /\ EmptyBuffer \in Buffer
  BY SpanContentAssumption DEF EmptyBuffer, Buffer
<1>2. Items({}) /\ SpansOf({}) = {} /\ Cardinality({}) = 0
  BY FS_EmptySet DEF Items, SpansOf
<1>3. Saturated(0) = 0 /\ 0 <= MaxObserved
  BY SpanContentAssumption, ObservationAssumption DEF Saturated
<1> QED  BY <1>1, <1>2, <1>3 DEF Counts

LEMMA ObservationStart == ObservationInit => OInv
<1> SUFFICES ASSUME ObservationInit PROVE OInv
  OBVIOUS
<1>1. EmptyBuffer \in Buffer /\ Main \in Context /\ ~ NoExport.made
  BY EmptyCounts, ObservationAssumption DEF NoExport
<1>2. ObservationTypeOK
  BY <1>1 DEF ObservationInit, ObservationTypeOK
<1>3. \A x \in Span : starter[x] = NoSession
  BY DEF ObservationInit
<1>4. \A s \in Session : Own(s) = {}
  BY <1>3, ObservationAssumption DEF Own
<1>5. ASSUME NEW s \in Session PROVE SessionSound(session[s], Own(s))
  <2>1. /\ session[s].state = "new" /\ session[s].result = NoExport
        /\ session[s].pending = {} /\ session[s].buffer = EmptyBuffer
    BY DEF ObservationInit
  <2>2. {} \ {} = {}
    OBVIOUS
  <2> QED  BY <1>1, <1>4, <2>1, <2>2, EmptyCounts, FS_EmptySet DEF SessionSound
<1> QED  BY <1>2, <1>3, <1>5 DEF OInv

LEMMA SpawnKeeps ==
  ASSUME OInv, NEW c \in Context, NEW d \in Context, Spawn(c, d)
  PROVE  OInv'
<1>1. focus' \in [Context -> Session \cup {NoSession, "unborn"}]
  BY DEF Spawn, OInv, ObservationTypeOK
<1>2. \A s \in Session : Own(s)' = Own(s)
  BY OwnSame DEF Spawn
<1> QED  BY <1>1, <1>2 DEF Spawn, OInv, ObservationTypeOK

LEMMA EnterKeeps ==
  ASSUME OInv, NEW s \in Session, NEW c \in Context, Enter(s, c)
  PROVE  OInv'
<1> DEFINE t == session[s]
<1>1. PICK attached \in BOOLEAN :
        session' = [session EXCEPT ![s] = Entered(session[s], c, focus[c], attached)]
  BY DEF Enter
<1> DEFINE u == Entered(t, c, focus[c], attached)
           b == IF attached THEN t.buffer ELSE Lost(t.buffer, "capture_failed", 0)
<1>2. t \in SessionState /\ SessionSound(t, Own(s)) /\ t.state = "new"
  BY DEF OInv, ObservationTypeOK, SessionState, Enter
<1>3. focus[c] \in Session \cup {NoSession}
  BY DEF OInv, ObservationTypeOK, Enter
<1>4. u = [t EXCEPT !.state = "active", !.attached = attached, !.home = c, !.outer = focus[c],
                    !.buffer = b]
  BY DEF Entered
<1> HIDE DEF t
<1>5. Own(s) = {} /\ t.pending = {} /\ Counts(t.buffer, {}) /\ ~t.result.made
  <2>1. {} \ {} = {}
    OBVIOUS
  <2>2. t.pending = {}
    BY <1>2 DEF SessionSound
  <2> QED  BY <1>2, <2>1, <2>2 DEF SessionSound
<1>6. b \in Buffer /\ Counts(b, {})
  <2>1. t.buffer \in Buffer /\ "capture_failed" \in Reasons
    BY <1>2 DEF SessionState, Reasons
  <2>2. Reduction(t.buffer, Lost(t.buffer, "capture_failed", 0))
    BY <1>5, <2>1, LostReduces DEF Counts
  <2>3. Lost(t.buffer, "capture_failed", 0) \in Buffer /\ Counts(Lost(t.buffer, "capture_failed", 0), {})
    BY <1>5, <2>1, <2>2, ReducedCounts
  <2> QED  BY <1>5, <2>1, <2>3
<1> HIDE DEF b, u
<1>7. /\ u \in SessionState /\ u.state = "active" /\ u.pending = {} /\ u.buffer = b
      /\ u.result = t.result
  BY <1>2, <1>3, <1>4, <1>5, <1>6 DEF SessionState
<1>8. SessionSound(u, Own(s))
  <2>1. {} \ {} = {}
    OBVIOUS
  <2> QED  BY <1>5, <1>6, <1>7, <2>1, FS_EmptySet DEF SessionSound
<1>9. \A v \in Session : Own(v)' = Own(v)
  BY OwnSame DEF Enter
<1>10. session' = [session EXCEPT ![s] = u]
  BY <1>1 DEF u, t
<1>11. /\ session' \in [Session -> SessionState]
       /\ \A v \in Session : SessionSound(session'[v], Own(v)')
  BY <1>7, <1>8, <1>9, <1>10, OneSession
<1>12. focus' \in [Context -> Session \cup {NoSession, "unborn"}]
  BY DEF Enter, OInv, ObservationTypeOK
<1> QED  BY <1>11, <1>12 DEF Enter, OInv, ObservationTypeOK, SessionState

\* What a start does to the session it belongs to.
LEMMA RegisteredFacts ==
  ASSUME NEW t \in SessionState, t.state = "active", NEW own, SessionSound(t, own),
         NEW x \in Span, x \notin own
  PROVE  Registered(x, t) \in SessionState /\ SessionSound(Registered(x, t), own \union {x})
<1> DEFINE done == own \ t.pending
<1>1. /\ IsFiniteSet(own) /\ t.pending \subseteq own /\ Counts(t.buffer, done)
      /\ ~t.result.made /\ t.buffer \in Buffer
  BY DEF SessionSound, SessionState
<1>2. IsFiniteSet(done) /\ IsFiniteSet(own \union {x}) /\ IsFiniteSet({x})
      /\ Cardinality({x}) = 1 /\ done \cap {x} = {}
  <2>1. done \subseteq own
    OBVIOUS
  <2>2. done \cap {x} = {}
    OBVIOUS
  <2> HIDE DEF done
  <2>3. IsFiniteSet(done)
    BY <1>1, <2>1, FS_Subset
  <2>4. IsFiniteSet(own \union {x})
    BY <1>1, FS_AddElement
  <2>5. IsFiniteSet({x}) /\ Cardinality({x}) = 1
    BY FS_Singleton
  <2> QED  BY <2>2, <2>3, <2>4, <2>5
<1>3. (own \union {x}) \ t.pending = done \union {x}
      /\ (own \union {x}) \ (t.pending \union {x}) = done
  BY <1>1
<1>4. ASSUME NEW reason \in Reasons
      PROVE  /\ [t EXCEPT !.buffer = Lost(@, reason, 1)] \in SessionState
             /\ SessionSound([t EXCEPT !.buffer = Lost(@, reason, 1)], own \union {x})
  <2> DEFINE l == Lost(t.buffer, reason, 1)  u == [t EXCEPT !.buffer = l]
  <2>1. l \in Buffer /\ Counts(l, done \union {x})
    <3> HIDE DEF done
    <3> QED  BY <1>1, <1>2, LostCounts
  <2>2. u = [t EXCEPT !.buffer = Lost(@, reason, 1)]
    OBVIOUS
  <2> HIDE DEF l
  <2>3. /\ u \in SessionState /\ u.state = "active" /\ u.pending = t.pending
        /\ u.buffer = l /\ u.result = t.result
    BY <2>1 DEF SessionState
  <2> HIDE DEF u, done
  <2>4. SessionSound(u, own \union {x})
    BY <1>1, <1>2, <1>3, <2>1, <2>3 DEF SessionSound
  <2> QED  BY <2>2, <2>3, <2>4
<1>5. CASE x \in Invalid
  <2>1. Registered(x, t) = [t EXCEPT !.buffer = Lost(@, "mapping", 1)] /\ "mapping" \in Reasons
    BY <1>5 DEF Registered, Reasons
  <2> QED  BY <1>4, <2>1
<1>6. CASE x \notin Invalid /\ Cardinality(t.pending) >= MaxPending
  <2>1. Registered(x, t) = [t EXCEPT !.buffer = Lost(@, "span_limit", 1)]
        /\ "span_limit" \in Reasons
    BY <1>6 DEF Registered, Reasons
  <2> QED  BY <1>4, <2>1
<1>7. CASE x \notin Invalid /\ ~(Cardinality(t.pending) >= MaxPending)
  <2> DEFINE u == [t EXCEPT !.pending = @ \cup {x}]
  <2>1. Registered(x, t) = u
    BY <1>7 DEF Registered
  <2>2. /\ u \in SessionState /\ u.state = "active" /\ u.pending = t.pending \union {x}
        /\ u.buffer = t.buffer /\ u.result = t.result
    BY DEF SessionState
  <2> HIDE DEF u, done
  <2>3. SessionSound(u, own \union {x})
    BY <1>1, <1>2, <1>3, <2>2 DEF SessionSound
  <2> QED  BY <2>1, <2>2, <2>3
<1> QED  BY <1>5, <1>6, <1>7

\* A span that starts in an active session.
LEMMA RegisterKeeps ==
  ASSUME OInv, NEW x \in Span, NEW s \in Session, starter[x] = NoSession,
         SessionSound(Registered(x, session[s]), Own(s) \union {x}),
         Registered(x, session[s]) \in SessionState,
         session' = [session EXCEPT ![s] = Registered(x, session[s])],
         starter' = [starter EXCEPT ![x] = s]
  PROVE  /\ session' \in [Session -> SessionState]
         /\ \A v \in Session : SessionSound(session'[v], Own(v)')
         /\ starter' \in [Span -> Session \cup {NoSession}]
         /\ \A y \in Span \ {x} : starter'[y] = starter[y]
<1>1. starter \in [Span -> Session \cup {NoSession}]
  BY DEF OInv, ObservationTypeOK
<1>2. /\ starter' \in [Span -> Session \cup {NoSession}] /\ starter'[x] = s
      /\ \A y \in Span \ {x} : starter'[y] = starter[y]
  BY <1>1
<1>3. Own(s)' = Own(s) \union {x}
  BY <1>2 DEF Own
<1>4. \A u \in Session \ {s} : Own(u)' = Own(u)
  BY <1>2, ObservationAssumption DEF Own
<1> DEFINE t == Registered(x, session[s])
<1>5. t \in SessionState /\ SessionSound(t, Own(s)') /\ session' = [session EXCEPT ![s] = t]
  BY <1>3
<1> HIDE DEF t
<1>6. /\ session' \in [Session -> SessionState]
      /\ \A v \in Session : SessionSound(session'[v], Own(v)')
  BY <1>4, <1>5, OneSession
<1> QED  BY <1>2, <1>6

LEMMA StartSpanKeeps ==
  ASSUME OInv, NEW x \in Span, NEW c \in Context, StartSpan(x, c)
  PROVE  OInv'
<1>0. PICK s : s = focus[c]
  OBVIOUS
<1>1. /\ life' \in [Span -> [phase: {"unstarted", "open", "ended"}, routes: SUBSET Session]]
      /\ life'[x].phase = "open" /\ \A y \in Span \ {x} : life'[y] = life[y]
  BY DEF StartSpan, OInv, ObservationTypeOK
<1>2. starter[x] = NoSession
  BY DEF StartSpan, OInv
<1>3. \A u \in Session : x \notin Own(u)
  BY <1>2, ObservationAssumption DEF Own
<1>4. CASE s \in Session /\ session[s].attached /\ session[s].state = "active"
  <2>1. /\ session' = [session EXCEPT ![s] = Registered(x, session[s])]
        /\ starter' = [starter EXCEPT ![x] = s]
    BY <1>0, <1>4 DEF StartSpan
  <2>2. session[s] \in SessionState /\ SessionSound(session[s], Own(s)) /\ s \in Session
    BY <1>4 DEF OInv, ObservationTypeOK, SessionState
  <2>3. IsFiniteSet(Own(s)) /\ x \notin Own(s)
    BY <1>3, <2>2 DEF SessionSound
  <2>4. /\ Registered(x, session[s]) \in SessionState
        /\ SessionSound(Registered(x, session[s]), Own(s) \union {x})
    BY <1>4, <2>2, <2>3, RegisteredFacts
  <2>5. /\ session' \in [Session -> SessionState]
        /\ \A v \in Session : SessionSound(session'[v], Own(v)')
        /\ starter' \in [Span -> Session \cup {NoSession}]
        /\ \A y \in Span \ {x} : starter'[y] = starter[y]
    BY <1>2, <2>1, <2>2, <2>4, RegisterKeeps
  <2> QED  BY <1>1, <2>5 DEF StartSpan, OInv, ObservationTypeOK, SessionState
<1>5. CASE ~(s \in Session /\ session[s].attached /\ session[s].state = "active")
  <2>1. session' = session
    <3>1. CASE s \in Session /\ session[s].attached
      <4>1. Registered(x, session[s]) = session[s]
        BY <1>5, <3>1 DEF Registered
      <4>2. session' = [session EXCEPT ![s] = Registered(x, session[s])]
        BY <1>0, <3>1 DEF StartSpan
      <4> QED  BY <3>1, <4>1, <4>2 DEF OInv, ObservationTypeOK
    <3>2. CASE ~(s \in Session /\ session[s].attached)
      BY <1>0, <3>2 DEF StartSpan
    <3> QED  BY <3>1, <3>2
  <2>2. starter' = starter
    <3>1. CASE s \in Session /\ session[s].attached
      <4>1. starter' = [starter EXCEPT ![x] = NoSession]
        BY <1>0, <1>5, <3>1 DEF StartSpan
      <4>2. starter \in [Span -> Session \cup {NoSession}]
        BY DEF OInv, ObservationTypeOK
      <4> QED  BY <1>2, <4>1, <4>2
    <3>2. CASE ~(s \in Session /\ session[s].attached)
      BY <1>0, <3>2 DEF StartSpan
    <3> QED  BY <3>1, <3>2
  <2>3. \A u \in Session : Own(u)' = Own(u)
    BY <2>2, OwnSame
  <2> QED  BY <1>1, <2>1, <2>2, <2>3 DEF StartSpan, OInv, ObservationTypeOK
<1> QED  BY <1>4, <1>5

LEMMA EndSpanKeeps ==
  ASSUME OInv, NEW x \in Span, EndSpan(x)
  PROVE  OInv'
<1>1. /\ life' \in [Span -> [phase: {"unstarted", "open", "ended"}, routes: SUBSET Session]]
      /\ \A y \in Span : life'[y].phase = "unstarted" => life[y].phase = "unstarted"
  BY DEF EndSpan, OInv, ObservationTypeOK
<1>2. \A s \in Session : Own(s)' = Own(s)
  BY OwnSame DEF EndSpan
<1> QED  BY <1>1, <1>2 DEF EndSpan, OInv, ObservationTypeOK

LEMMA ToldFacts ==
  ASSUME NEW t \in SessionState, NEW own, SessionSound(t, own), NEW x \in Span
  PROVE  Told(x, t) \in SessionState /\ SessionSound(Told(x, t), own)
<1>1. CASE t.state = "active" /\ x \in t.pending
  <2> DEFINE done == own \ t.pending  a == Added(t.buffer, x)
             u == [t EXCEPT !.pending = @ \ {x}, !.buffer = a]
  <2>1. /\ IsFiniteSet(own) /\ t.pending \subseteq own /\ Counts(t.buffer, done)
        /\ ~t.result.made /\ t.buffer \in Buffer
    BY <1>1 DEF SessionSound, SessionState
  <2>2. IsFiniteSet(done) /\ x \notin done /\ own \ (t.pending \ {x}) = done \union {x}
    BY <1>1, <2>1, FS_Subset
  <2>3. a \in Buffer /\ Counts(a, done \union {x})
    <3> HIDE DEF done
    <3> QED  BY <2>1, <2>2, AddedCounts
  <2>4. Told(x, t) = u
    BY <1>1 DEF Told
  <2> HIDE DEF a
  <2>5. /\ u \in SessionState /\ u.state = "active" /\ u.pending = t.pending \ {x}
        /\ u.buffer = a /\ u.result = t.result
    BY <1>1, <2>3 DEF SessionState
  <2> HIDE DEF u, done
  <2>6. SessionSound(u, own)
    BY <2>1, <2>2, <2>3, <2>5 DEF SessionSound
  <2> QED  BY <2>4, <2>5, <2>6
<1>2. CASE ~(t.state = "active" /\ x \in t.pending)
  BY <1>2 DEF Told
<1> QED  BY <1>1, <1>2

LEMMA RouteEndKeeps ==
  ASSUME OInv, NEW x \in Span, NEW s \in Session, RouteEnd(x, s)
  PROVE  OInv'
<1>1. session' = [session EXCEPT ![s] = Told(x, session[s])]
  BY DEF RouteEnd
<1>2. session[s] \in SessionState /\ SessionSound(session[s], Own(s))
  BY DEF OInv, ObservationTypeOK, SessionState
<1>3. Told(x, session[s]) \in SessionState /\ SessionSound(Told(x, session[s]), Own(s))
  BY <1>2, ToldFacts
<1>4. \A u \in Session : Own(u)' = Own(u)
  BY OwnSame DEF RouteEnd
<1>5. /\ session' \in [Session -> SessionState]
      /\ \A v \in Session : SessionSound(session'[v], Own(v)')
  BY <1>1, <1>3, <1>4, OneSession
<1>6. /\ life' \in [Span -> [phase: {"unstarted", "open", "ended"}, routes: SUBSET Session]]
      /\ \A y \in Span : life'[y].phase = life[y].phase
  BY DEF RouteEnd, OInv, ObservationTypeOK
<1> QED  BY <1>5, <1>6 DEF RouteEnd, OInv, ObservationTypeOK, SessionState

\* The export of a session counts what it had counted and what was still open.
LEMMA ExitSessionKeeps ==
  ASSUME OInv, NEW s \in Session, ExitSession(s)
  PROVE  OInv'
<1> DEFINE t == session[s]  b == OpenAtExit(t)  own == Own(s)  done == own \ t.pending
<1>1. PICK result \in {Finished(b), Abandoned(b)} :
        session' = [session EXCEPT ![s] = Exited(session[s], result)]
  BY DEF ExitSession
<1> DEFINE u == Exited(t, result)
<1>2. t \in SessionState /\ SessionSound(t, own) /\ t.state = "active"
  BY DEF OInv, ObservationTypeOK, SessionState, ExitSession
<1> HIDE DEF t, own
<1>3. /\ IsFiniteSet(own) /\ t.pending \subseteq own /\ Counts(t.buffer, done)
      /\ t.buffer \in Buffer
  BY <1>2 DEF SessionSound, SessionState
<1>4. b \in Buffer /\ Counts(b, own)
  <2>1. CASE t.pending = {}
    <3>1. done = own /\ b = t.buffer
      BY <2>1 DEF OpenAtExit
    <3> QED  BY <1>3, <3>1
  <2>2. CASE t.pending # {}
    <3>1. b = Lost(t.buffer, "outside_window", Cardinality(t.pending))
          /\ "outside_window" \in Reasons
      BY <2>2 DEF OpenAtExit, Reasons
    <3>2. IsFiniteSet(done) /\ IsFiniteSet(t.pending) /\ done \cap t.pending = {}
          /\ done \union t.pending = own
      BY <1>3, FS_Subset
    <3> HIDE DEF done, b
    <3> QED  BY <1>3, <3>1, <3>2, LostCounts
  <2> QED  BY <2>1, <2>2
<1> HIDE DEF b
<1>5. result \in Export /\ Delivers(result, own)
  BY <1>3, <1>4, FinishedFacts
<1>6. /\ u \in SessionState /\ u.state = "closed" /\ u.result = result
  BY <1>2, <1>5, EmptyCounts DEF Exited, SessionState
<1>7. SessionSound(u, own)
  <2> HIDE DEF u
  <2> QED  BY <1>3, <1>5, <1>6 DEF SessionSound
<1>8. \A v \in Session : Own(v)' = Own(v)
  BY OwnSame DEF ExitSession
<1>9. session' = [session EXCEPT ![s] = u]
  BY <1>1 DEF t
<1>10. SessionSound(u, Own(s)')
  BY <1>7, <1>8 DEF own
<1> HIDE DEF u
<1>11. /\ session' \in [Session -> SessionState]
       /\ \A v \in Session : SessionSound(session'[v], Own(v)')
  BY <1>6, <1>8, <1>9, <1>10, OneSession
<1>12. focus' \in [Context -> Session \cup {NoSession, "unborn"}]
  BY DEF ExitSession, OInv, ObservationTypeOK
<1> QED  BY <1>11, <1>12 DEF ExitSession, OInv, ObservationTypeOK, SessionState

LEMMA ObservationStep == OInv /\ [ObservationNext]_observationVars => OInv'
<1> SUFFICES ASSUME OInv, [ObservationNext]_observationVars PROVE OInv'
  OBVIOUS
<1>1. ASSUME NEW c \in Context, NEW d \in Context, Spawn(c, d) PROVE OInv'
  BY <1>1, SpawnKeeps
<1>2. ASSUME NEW s \in Session, ExitSession(s) \/ \E c \in Context : Enter(s, c) PROVE OInv'
  BY <1>2, ExitSessionKeeps, EnterKeeps
<1>3. ASSUME NEW x \in Span,
             \/ EndSpan(x)
             \/ \E c \in Context : StartSpan(x, c)
             \/ \E s \in Session : RouteEnd(x, s)
      PROVE  OInv'
  BY <1>3, EndSpanKeeps, StartSpanKeeps, RouteEndKeeps
<1>4. CASE UNCHANGED observationVars
  <2>1. \A s \in Session : Own(s)' = Own(s)
    BY <1>4, OwnSame DEF observationVars
  <2> QED  BY <1>4, <2>1 DEF observationVars, OInv, ObservationTypeOK
<1> QED  BY <1>1, <1>2, <1>3, <1>4 DEF ObservationNext

\* The inductive invariant of local observation: an active session has counted
\* every span that started in it and is not pending any more, and what it holds
\* is of those; an exported one counts them all.
THEOREM ObservationInvariance == ObservationSpec => []OInv
BY ObservationStart, ObservationStep, PTL DEF ObservationSpec

\* However sessions nest, exit around open spans or run out of room, their
\* exports pass the validation of an upload and fit its limits: ObservationSession
\* and ObservationBuffer make LocalObservation's ObservationValid true.
THEOREM ExportsAreValid == ObservationSpec => []ObservationValid
<1>1. OInv => ObservationValid
  <2> SUFFICES ASSUME OInv, NEW s \in Session, session[s].result.made
               PROVE  Delivers(session[s].result, Own(s))
    BY DEF ObservationValid, Delivers
  <2> QED  BY DEF OInv, SessionSound
<1> QED  BY <1>1, ObservationInvariance, PTL

\* A session's export counts exactly the spans that started in it, each once,
\* whichever threads ended them and whatever sessions were around or in it.
THEOREM SpansObservedOnce == ObservationSpec => []ObservedOnce
<1>1. OInv => ObservedOnce
  <2> SUFFICES ASSUME OInv, NEW s \in Session, session[s].result.made
               PROVE  /\ session[s].result.observed = Saturated(Cardinality(Own(s)))
                      /\ SpansOf(session[s].result.spans) \subseteq Own(s)
    BY DEF ObservedOnce, Own, SpansOf
  <2> QED  BY DEF OInv, SessionSound, Delivers
<1> QED  BY <1>1, ObservationInvariance, PTL

----------------------------------------------------------------------------
(* The mapping of a span.  An iteration over its items is a fold; it is    *)
(* reasoned about as the sequence of what the first n items make.          *)

IsTaking(g, S, items, resource, tool, managed) ==
  g = [s \in SUBSET S |->
         IF s = {} THEN FirstOf(items, resource, tool)
         ELSE TakeItem(g[s \ {Max(s)}], items[Max(s)], items, resource, managed)]

Taking(items, resource, tool, managed) ==
  CHOOSE g : IsTaking(g, DOMAIN items, items, resource, tool, managed)

TakenItems(items, resource, tool, managed) ==
  LET take(acc, item) == TakeItem(acc, item, items, resource, managed)
  IN  FoldLeft(take, FirstOf(items, resource, tool), items)

LEMMA TakingIsFold ==
  ASSUME NEW items, NEW resource, NEW tool, NEW managed
  PROVE  TakenItems(items, resource, tool, managed) = Taking(items, resource, tool, managed)[DOMAIN items]
BY DEF TakenItems, Taking, IsTaking, FoldLeft, MapThenFoldSet

IsLinking(g, S, links) ==
  g = [s \in SUBSET S |->
         IF s = {} THEN NoLinks ELSE TakeLink(g[s \ {Max(s)}], links[Max(s)])]

Linking(links) == CHOOSE g : IsLinking(g, DOMAIN links, links)

LEMMA LinkingIsFold ==
  ASSUME NEW links
  PROVE  FoldLeft(TakeLink, NoLinks, links) = Linking(links)[DOMAIN links]
BY DEF Linking, IsLinking, FoldLeft, MapThenFoldSet

IsListing(g, S, events) ==
  g = [s \in SUBSET S |->
         IF s = {} THEN NoEvents ELSE MapEvent(g[s \ {Max(s)}], events[Max(s)])]

Listing(events) == CHOOSE g : IsListing(g, DOMAIN events, events)

LEMMA LastOfFinite ==
  ASSUME NEW S \in SUBSET Nat, IsFiniteSet(S)
  PROVE  \A s \in SUBSET S :
           /\ Cardinality(s) \in Nat
           /\ (Cardinality(s) = 0 <=> s = {})
           /\ (s # {} => Cardinality(s \ {Max(s)}) = Cardinality(s) - 1)
<1> DEFINE F == {s \in SUBSET S : s # {} => \E m \in s : \A n \in s : m >= n}
<1>1. {} \in F
  OBVIOUS
<1>2. ASSUME NEW T \in SUBSET S, NEW x \in S \ T, T \in F PROVE T \union {x} \in F
  <2>1. CASE T = {}
    BY <2>1
  <2>2. CASE T # {}
    <3>1. PICK m \in T : \A n \in T : m >= n
      BY <1>2, <2>2
    <3>2. CASE m >= x
      BY <3>1, <3>2
    <3>3. CASE ~(m >= x)
      BY <3>1, <3>3
    <3> QED  BY <3>2, <3>3
  <2> QED  BY <2>1, <2>2
<1>3. ASSUME NEW s \in SUBSET S, s # {} PROVE Max(s) \in s
  <2> DEFINE G == {t \in SUBSET s : t # {} => \E m \in t : \A n \in t : m >= n}
  <2>1. {} \in G
    OBVIOUS
  <2>2. \A T \in SUBSET s : \A x \in s \ T : T \in G => T \union {x} \in G
    BY <1>2
  <2> HIDE DEF G
  <2>3. s \in G
    BY <2>1, <2>2, FS_Subset, FiniteInduction
  <2> USE DEF G
  <2>4. \E m \in s : \A n \in s : m >= n
    BY <1>3, <2>3
  <2> QED  BY <2>4 DEF Max
<1> QED  BY <1>3, FS_Subset, FS_CardinalityType, FS_EmptySet, FS_RemoveElement

LEMMA TakingExists ==
  ASSUME NEW S \in SUBSET Nat, IsFiniteSet(S), NEW items, NEW resource, NEW tool, NEW managed
  PROVE  \E g : IsTaking(g, S, items, resource, tool, managed)
<1> DEFINE upto(n) == {s \in SUBSET S : Cardinality(s) <= n}
           step(g, s) == IF s = {} THEN FirstOf(items, resource, tool)
                         ELSE TakeItem(g[s \ {Max(s)}], items[Max(s)], items, resource, managed)
           defined(n) == \E g : g = [s \in upto(n) |-> step(g, s)]
           good == {n \in Nat : defined(n)}
<1>0. \A s \in SUBSET S : Cardinality(s) \in Nat
  BY LastOfFinite
<1>5. \A s \in SUBSET S : Cardinality(s) = 0 <=> s = {}
  BY LastOfFinite
<1>6. \A s \in SUBSET S : s # {} => Cardinality(s \ {Max(s)}) = Cardinality(s) - 1
  BY LastOfFinite
<1>1. 0 \in good
  <2> DEFINE g == [s \in upto(0) |-> FirstOf(items, resource, tool)]
  <2>1. \A s \in upto(0) : s = {}
    BY <1>0, <1>5
  <2>2. g = [s \in upto(0) |-> step(g, s)]
    BY <2>1
  <2> QED  BY <2>2
<1>2. ASSUME NEW n \in Nat, n \in good PROVE n + 1 \in good
  <2>1. PICK g : g = [s \in upto(n) |-> step(g, s)]
    BY <1>2
  <2> DEFINE h == [s \in upto(n + 1) |-> step(g, s)]
  <2>2. ASSUME NEW s \in upto(n + 1), s # {}
        PROVE  s \ {Max(s)} \in upto(n)
    <3>1. s \in SUBSET S /\ s \ {Max(s)} \in SUBSET S /\ Cardinality(s) <= n + 1
      OBVIOUS
    <3>2. Cardinality(s \ {Max(s)}) <= n
      BY <1>0, <1>6, <2>2, <3>1
    <3> QED  BY <3>1, <3>2
  <2>3. upto(n) \subseteq upto(n + 1)
    BY <1>0
  <2>4. ASSUME NEW s \in upto(n) PROVE h[s] = g[s]
    <3>1. g[s] = step(g, s)
      BY <2>1
    <3> QED  BY <2>3, <3>1
  <2>5. ASSUME NEW s \in upto(n + 1) PROVE step(g, s) = step(h, s)
    BY <2>2, <2>4
  <2>6. h = [s \in upto(n + 1) |-> step(h, s)]
    BY <2>5
  <2> HIDE DEF h, step
  <2>7. defined(n + 1)
    BY <2>6
  <2> HIDE DEF defined
  <2> QED  BY <2>7
<1> HIDE DEF good
<1>3. Cardinality(S) \in good
  BY <1>1, <1>2, SetInduction, FS_CardinalityType
<1> USE DEF good
<1>4. upto(Cardinality(S)) = SUBSET S
  BY FS_Subset
<1> QED  BY <1>3, <1>4 DEF IsTaking

LEMMA LinkingExists ==
  ASSUME NEW S \in SUBSET Nat, IsFiniteSet(S), NEW links
  PROVE  \E g : IsLinking(g, S, links)
<1> DEFINE upto(n) == {s \in SUBSET S : Cardinality(s) <= n}
           step(g, s) == IF s = {} THEN NoLinks
                         ELSE TakeLink(g[s \ {Max(s)}], links[Max(s)])
           defined(n) == \E g : g = [s \in upto(n) |-> step(g, s)]
           good == {n \in Nat : defined(n)}
<1>0. \A s \in SUBSET S : Cardinality(s) \in Nat
  BY LastOfFinite
<1>5. \A s \in SUBSET S : Cardinality(s) = 0 <=> s = {}
  BY LastOfFinite
<1>6. \A s \in SUBSET S : s # {} => Cardinality(s \ {Max(s)}) = Cardinality(s) - 1
  BY LastOfFinite
<1>1. 0 \in good
  <2> DEFINE g == [s \in upto(0) |-> NoLinks]
  <2>1. \A s \in upto(0) : s = {}
    BY <1>0, <1>5
  <2>2. g = [s \in upto(0) |-> step(g, s)]
    BY <2>1
  <2> QED  BY <2>2
<1>2. ASSUME NEW n \in Nat, n \in good PROVE n + 1 \in good
  <2>1. PICK g : g = [s \in upto(n) |-> step(g, s)]
    BY <1>2
  <2> DEFINE h == [s \in upto(n + 1) |-> step(g, s)]
  <2>2. ASSUME NEW s \in upto(n + 1), s # {}
        PROVE  s \ {Max(s)} \in upto(n)
    <3>1. s \in SUBSET S /\ s \ {Max(s)} \in SUBSET S /\ Cardinality(s) <= n + 1
      OBVIOUS
    <3>2. Cardinality(s \ {Max(s)}) <= n
      BY <1>0, <1>6, <2>2, <3>1
    <3> QED  BY <3>1, <3>2
  <2>3. upto(n) \subseteq upto(n + 1)
    BY <1>0
  <2>4. ASSUME NEW s \in upto(n) PROVE h[s] = g[s]
    <3>1. g[s] = step(g, s)
      BY <2>1
    <3> QED  BY <2>3, <3>1
  <2>5. ASSUME NEW s \in upto(n + 1) PROVE step(g, s) = step(h, s)
    BY <2>2, <2>4
  <2>6. h = [s \in upto(n + 1) |-> step(h, s)]
    BY <2>5
  <2> HIDE DEF h, step
  <2>7. defined(n + 1)
    BY <2>6
  <2> HIDE DEF defined
  <2> QED  BY <2>7
<1> HIDE DEF good
<1>3. Cardinality(S) \in good
  BY <1>1, <1>2, SetInduction, FS_CardinalityType
<1> USE DEF good
<1>4. upto(Cardinality(S)) = SUBSET S
  BY FS_Subset
<1> QED  BY <1>3, <1>4 DEF IsLinking

LEMMA ListingExists ==
  ASSUME NEW S \in SUBSET Nat, IsFiniteSet(S), NEW events
  PROVE  \E g : IsListing(g, S, events)
<1> DEFINE upto(n) == {s \in SUBSET S : Cardinality(s) <= n}
           step(g, s) == IF s = {} THEN NoEvents
                         ELSE MapEvent(g[s \ {Max(s)}], events[Max(s)])
           defined(n) == \E g : g = [s \in upto(n) |-> step(g, s)]
           good == {n \in Nat : defined(n)}
<1>0. \A s \in SUBSET S : Cardinality(s) \in Nat
  BY LastOfFinite
<1>5. \A s \in SUBSET S : Cardinality(s) = 0 <=> s = {}
  BY LastOfFinite
<1>6. \A s \in SUBSET S : s # {} => Cardinality(s \ {Max(s)}) = Cardinality(s) - 1
  BY LastOfFinite
<1>1. 0 \in good
  <2> DEFINE g == [s \in upto(0) |-> NoEvents]
  <2>1. \A s \in upto(0) : s = {}
    BY <1>0, <1>5
  <2>2. g = [s \in upto(0) |-> step(g, s)]
    BY <2>1
  <2> QED  BY <2>2
<1>2. ASSUME NEW n \in Nat, n \in good PROVE n + 1 \in good
  <2>1. PICK g : g = [s \in upto(n) |-> step(g, s)]
    BY <1>2
  <2> DEFINE h == [s \in upto(n + 1) |-> step(g, s)]
  <2>2. ASSUME NEW s \in upto(n + 1), s # {}
        PROVE  s \ {Max(s)} \in upto(n)
    <3>1. s \in SUBSET S /\ s \ {Max(s)} \in SUBSET S /\ Cardinality(s) <= n + 1
      OBVIOUS
    <3>2. Cardinality(s \ {Max(s)}) <= n
      BY <1>0, <1>6, <2>2, <3>1
    <3> QED  BY <3>1, <3>2
  <2>3. upto(n) \subseteq upto(n + 1)
    BY <1>0
  <2>4. ASSUME NEW s \in upto(n) PROVE h[s] = g[s]
    <3>1. g[s] = step(g, s)
      BY <2>1
    <3> QED  BY <2>3, <3>1
  <2>5. ASSUME NEW s \in upto(n + 1) PROVE step(g, s) = step(h, s)
    BY <2>2, <2>4
  <2>6. h = [s \in upto(n + 1) |-> step(h, s)]
    BY <2>5
  <2> HIDE DEF h, step
  <2>7. defined(n + 1)
    BY <2>6
  <2> HIDE DEF defined
  <2> QED  BY <2>7
<1> HIDE DEF good
<1>3. Cardinality(S) \in good
  BY <1>1, <1>2, SetInduction, FS_CardinalityType
<1> USE DEF good
<1>4. upto(Cardinality(S)) = SUBSET S
  BY FS_Subset
<1> QED  BY <1>3, <1>4 DEF IsListing

LEMMA LastOfInterval ==
  ASSUME NEW n \in Nat
  PROVE  Max(1..n + 1) = n + 1 /\ (1..n + 1) \ {n + 1} = 1..n
<1>1. Max(1..n + 1) = n + 1
  BY DEF Max
<1>2. (1..n + 1) \ {n + 1} \subseteq 1..n /\ 1..n \subseteq (1..n + 1) \ {n + 1}
  OBVIOUS
<1> HIDE DEF Max
<1> QED  BY <1>1, <1>2

LEMMA ListingIsFold ==
  ASSUME NEW events
  PROVE  FoldLeft(MapEvent, NoEvents, events) = Listing(events)[DOMAIN events]
BY DEF Listing, IsListing, FoldLeft, MapThenFoldSet

TakenUpTo(n, items, resource, tool, managed) == Taking(items, resource, tool, managed)[1..n]

LEMMA TakenSteps ==
  ASSUME NEW items, Len(items) \in Nat, DOMAIN items = 1..Len(items), NEW resource, NEW tool, NEW managed
  PROVE  /\ TakenUpTo(0, items, resource, tool, managed) = FirstOf(items, resource, tool)
         /\ \A n \in 0..Len(items) - 1 :
              TakenUpTo(n + 1, items, resource, tool, managed) =
                TakeItem(TakenUpTo(n, items, resource, tool, managed), items[n + 1], items, resource, managed)
         /\ TakenItems(items, resource, tool, managed) = TakenUpTo(Len(items), items, resource, tool, managed)
<1> DEFINE g == Taking(items, resource, tool, managed)
<1>1. DOMAIN items \in SUBSET Nat /\ IsFiniteSet(DOMAIN items)
  BY FS_Interval
<1>2. IsTaking(g, DOMAIN items, items, resource, tool, managed)
  BY <1>1, TakingExists DEF Taking
<1> HIDE DEF g
<1>3. g[1..0] = FirstOf(items, resource, tool)
  <2>1. 1..0 = {} /\ 1..0 \in SUBSET DOMAIN items
    OBVIOUS
  <2> QED  BY <1>2, <2>1 DEF IsTaking
<1>4. ASSUME NEW n \in 0..Len(items) - 1
      PROVE  g[1..n + 1] = TakeItem(g[1..n], items[n + 1], items, resource, managed)
  <2>0. n \in Nat /\ n + 1 \in Nat /\ n + 1 <= Len(items)
    OBVIOUS
  <2>1. 1..n + 1 \in SUBSET (1..Len(items)) /\ n + 1 \in 1..n + 1
    BY <2>0
  <2>2. Max(1..n + 1) = n + 1 /\ (1..n + 1) \ {n + 1} = 1..n
    BY <2>0, LastOfInterval
  <2> QED  BY <1>2, <2>1, <2>2 DEF IsTaking
<1> QED  BY <1>3, <1>4, TakingIsFold DEF TakenUpTo, g


LinkedUpTo(n, links) == Linking(links)[1..n]

LEMMA LinkedSteps ==
  ASSUME NEW links, Len(links) \in Nat, DOMAIN links = 1..Len(links)
  PROVE  /\ LinkedUpTo(0, links) = NoLinks
         /\ \A n \in 0..Len(links) - 1 :
              LinkedUpTo(n + 1, links) =
                TakeLink(LinkedUpTo(n, links), links[n + 1])
         /\ FoldLeft(TakeLink, NoLinks, links) = LinkedUpTo(Len(links), links)
<1> DEFINE g == Linking(links)
<1>1. DOMAIN links \in SUBSET Nat /\ IsFiniteSet(DOMAIN links)
  BY FS_Interval
<1>2. IsLinking(g, DOMAIN links, links)
  BY <1>1, LinkingExists DEF Linking
<1> HIDE DEF g
<1>3. g[1..0] = NoLinks
  <2>1. 1..0 = {} /\ 1..0 \in SUBSET DOMAIN links
    OBVIOUS
  <2> QED  BY <1>2, <2>1 DEF IsLinking
<1>4. ASSUME NEW n \in 0..Len(links) - 1
      PROVE  g[1..n + 1] = TakeLink(g[1..n], links[n + 1])
  <2>0. n \in Nat /\ n + 1 \in Nat /\ n + 1 <= Len(links)
    OBVIOUS
  <2>1. 1..n + 1 \in SUBSET (1..Len(links)) /\ n + 1 \in 1..n + 1
    BY <2>0
  <2>2. Max(1..n + 1) = n + 1 /\ (1..n + 1) \ {n + 1} = 1..n
    BY <2>0, LastOfInterval
  <2> QED  BY <1>2, <2>1, <2>2 DEF IsLinking
<1> QED  BY <1>3, <1>4, LinkingIsFold DEF LinkedUpTo, g


ListedUpTo(n, events) == Listing(events)[1..n]

LEMMA ListedSteps ==
  ASSUME NEW events, Len(events) \in Nat, DOMAIN events = 1..Len(events)
  PROVE  /\ ListedUpTo(0, events) = NoEvents
         /\ \A n \in 0..Len(events) - 1 :
              ListedUpTo(n + 1, events) =
                MapEvent(ListedUpTo(n, events), events[n + 1])
         /\ FoldLeft(MapEvent, NoEvents, events) = ListedUpTo(Len(events), events)
<1> DEFINE g == Listing(events)
<1>1. DOMAIN events \in SUBSET Nat /\ IsFiniteSet(DOMAIN events)
  BY FS_Interval
<1>2. IsListing(g, DOMAIN events, events)
  BY <1>1, ListingExists DEF Listing
<1> HIDE DEF g
<1>3. g[1..0] = NoEvents
  <2>1. 1..0 = {} /\ 1..0 \in SUBSET DOMAIN events
    OBVIOUS
  <2> QED  BY <1>2, <2>1 DEF IsListing
<1>4. ASSUME NEW n \in 0..Len(events) - 1
      PROVE  g[1..n + 1] = MapEvent(g[1..n], events[n + 1])
  <2>0. n \in Nat /\ n + 1 \in Nat /\ n + 1 <= Len(events)
    OBVIOUS
  <2>1. 1..n + 1 \in SUBSET (1..Len(events)) /\ n + 1 \in 1..n + 1
    BY <2>0
  <2>2. Max(1..n + 1) = n + 1 /\ (1..n + 1) \ {n + 1} = 1..n
    BY <2>0, LastOfInterval
  <2> QED  BY <1>2, <2>1, <2>2 DEF IsListing
<1> QED  BY <1>3, <1>4, ListingIsFold DEF ListedUpTo, g


----------------------------------------------------------------------------
(* What happens to one item.                                               *)

\* What attributes, events and links count while they are taken.
CountsLosses(acc) ==
  {"drops", "cut", "reasons"} \subseteq DOMAIN acc /\ acc.drops \in Nat /\ acc.cut \in BOOLEAN

IsAcc(acc) == CountsLosses(acc) /\ "kept" \in DOMAIN acc /\ "tool" \in DOMAIN acc

\* An item is lost: nothing more is kept, and the loss is counted and reported.
LostItem(acc, new) ==
  /\ IsAcc(new) /\ new.kept = acc.kept /\ new.tool = acc.tool
  /\ new.drops > acc.drops /\ acc.reasons \subseteq new.reasons /\ new.reasons # {}

LEMMA LosesItemFields ==
  ASSUME NEW acc, CountsLosses(acc), NEW cut \in BOOLEAN, NEW reason
  PROVE  LET new == LosesItem(acc, cut, reason)
         IN  /\ CountsLosses(new) /\ DOMAIN new = DOMAIN acc
             /\ new.drops = acc.drops + 1
             /\ new.cut = (acc.cut \/ cut)
             /\ new.reasons = acc.reasons \cup {reason}
             /\ \A x \in DOMAIN acc \ {"drops", "cut", "reasons"} : new[x] = acc[x]
<1> DEFINE new == LosesItem(acc, cut, reason)
<1>1. DOMAIN new = DOMAIN acc
  BY DEF CountsLosses, LosesItem
<1>2. new.drops = acc.drops + 1
  BY DEF CountsLosses, LosesItem
<1>3. new.reasons = acc.reasons \cup {reason}
  BY DEF CountsLosses, LosesItem
<1>4. new.cut = (acc.cut \/ cut)
  BY DEF CountsLosses, LosesItem
<1>5. \A x \in DOMAIN acc \ {"drops", "cut", "reasons"} : new[x] = acc[x]
  BY DEF CountsLosses, LosesItem
<1> HIDE DEF new
<1>6. new.drops \in Nat /\ new.cut \in BOOLEAN
  BY <1>2, <1>4 DEF CountsLosses
<1>7. CountsLosses(new)
  BY <1>1, <1>6 DEF CountsLosses
<1> QED  BY <1>1, <1>2, <1>3, <1>4, <1>5, <1>7 DEF new

LEMMA WithValueLost ==
  ASSUME NEW acc, IsAcc(acc), NEW key, NEW s, s.kept = FALSE, s.drops \in Nat
  PROVE  LostItem(acc, WithValue(acc, key, s))
<1> DEFINE new == WithValue(acc, key, s)
<1>1. new.drops = acc.drops + (IF s.drops > 1 THEN s.drops ELSE 1)
  BY DEF IsAcc, CountsLosses, WithValue
<1>2. new.drops \in Nat /\ new.drops > acc.drops
  BY <1>1 DEF IsAcc, CountsLosses
<1>3. new.cut = acc.cut /\ new.kept = acc.kept /\ new.tool = acc.tool /\ DOMAIN new = DOMAIN acc
  BY DEF IsAcc, CountsLosses, WithValue
<1>4. new.reasons = acc.reasons \cup s.reasons \cup {"trace_attribute_invalid"}
  BY DEF IsAcc, CountsLosses, WithValue
<1> HIDE DEF new
<1>5. IsAcc(new)
  BY <1>2, <1>3 DEF IsAcc, CountsLosses
<1>6. acc.reasons \subseteq new.reasons /\ new.reasons # {}
  BY <1>4
<1>7. LostItem(acc, new)
  BY <1>2, <1>3, <1>5, <1>6 DEF LostItem
<1> QED  BY <1>7 DEF new

\* A cut that nothing else tells of is a reason of its own.
CutReason(s) == IF s.cut /\ s.reasons = {} THEN {"trace_value_truncated"} ELSE {}

ValueTaken(acc, new, key, s) ==
  /\ IsAcc(new) /\ new.drops = acc.drops + s.drops /\ new.cut = (acc.cut \/ s.cut)
  /\ new.kept = Put(acc.kept, key, s.fate) /\ new.tool = acc.tool
  /\ new.reasons = acc.reasons \cup s.reasons \cup CutReason(s)

LEMMA WithValueKept ==
  ASSUME NEW acc, IsAcc(acc), NEW key, NEW s, s.kept = TRUE, s.cut \in BOOLEAN, s.drops \in Nat
  PROVE  ValueTaken(acc, WithValue(acc, key, s), key, s)
<1> DEFINE new == WithValue(acc, key, s)
<1>1. new.drops = acc.drops + s.drops
  BY DEF IsAcc, CountsLosses, WithValue
<1>2. new.drops \in Nat
  BY <1>1 DEF IsAcc, CountsLosses
<1>3. DOMAIN new = DOMAIN acc /\ new.kept = Put(acc.kept, key, s.fate) /\ new.tool = acc.tool
  BY DEF IsAcc, CountsLosses, WithValue
<1>4. new.cut = (acc.cut \/ s.cut)
  BY DEF IsAcc, CountsLosses, WithValue
<1>5. new.reasons = acc.reasons \cup s.reasons \cup CutReason(s)
  BY DEF IsAcc, CountsLosses, WithValue, CutReason
<1> HIDE DEF new
<1>6. new.cut \in BOOLEAN
  BY <1>4 DEF IsAcc, CountsLosses
<1>7. IsAcc(new)
  BY <1>2, <1>3, <1>6 DEF IsAcc, CountsLosses
<1>8. ValueTaken(acc, new, key, s)
  BY <1>1, <1>3, <1>4, <1>5, <1>7 DEF ValueTaken
<1> QED  BY <1>8 DEF new

LEMMA ToolAttributeFields ==
  ASSUME NEW acc, IsAcc(acc), NEW f \in Fields, NEW value
  PROVE  LET retain == Cardinality(DOMAIN acc.kept) < MaxAttributes
             status == IF retain THEN NormalizeToolContent(value) ELSE "size_limit"
             new == ToolAttribute(acc, ToolContentKeys[f], value)
         IN  /\ IsAcc(new) /\ new.tool = [acc.tool EXCEPT ![f] = status]
             /\ acc.reasons \subseteq new.reasons
             /\ (status # "present" => ToolReason(status) \in new.reasons)
             /\ (status \in Whole => /\ new.kept = Put(acc.kept, ToolContentKeys[f], "body")
                                     /\ new.drops = acc.drops /\ new.cut = acc.cut)
             /\ (status \notin Whole => new.kept = acc.kept /\ new.drops = acc.drops + 1)
<1> DEFINE retain == Cardinality(DOMAIN acc.kept) < MaxAttributes
           status == IF retain THEN NormalizeToolContent(value) ELSE "size_limit"
           key == ToolContentKeys[f]
           tool == [acc.tool EXCEPT ![f] = status]
           new == ToolAttribute(acc, key, value)
           told == [acc EXCEPT !.tool = tool]
           reason == {ToolReason(status)}
<1>1. f = CHOOSE g \in Fields : ToolContentKeys[g] = key
  BY DEF Fields, ToolContentKeys
<1>2. new = CASE status = "present" -> [told EXCEPT !.kept = Put(told.kept, key, "body")]
              [] status = "redacted" ->
                   [told EXCEPT !.kept = Put(told.kept, key, "body"), !.reasons = told.reasons \cup reason]
              [] OTHER ->
                   [told EXCEPT !.drops = told.drops + 1, !.cut = TRUE,
                      !.reasons = told.reasons \cup reason
                         \cup IF retain THEN {} ELSE {"trace_attribute_limit"}]
  BY <1>1 DEF ToolAttribute
<1>3. /\ DOMAIN told = DOMAIN acc /\ told.kept = acc.kept /\ told.drops = acc.drops
      /\ told.cut = acc.cut /\ told.reasons = acc.reasons /\ told.tool = tool
  BY DEF IsAcc, CountsLosses
<1>4. CountsLosses(told) /\ IsAcc(told)
  BY <1>3 DEF IsAcc, CountsLosses
<1> HIDE DEF told, new, tool, status, retain, key
<1>5. CASE status = "present"
  <2>1. new = [told EXCEPT !.kept = Put(told.kept, key, "body")]
    BY <1>2, <1>5
  <2>2. /\ DOMAIN new = DOMAIN told /\ new.kept = Put(told.kept, key, "body") /\ new.drops = told.drops
        /\ new.cut = told.cut /\ new.reasons = told.reasons /\ new.tool = told.tool
    BY <1>4, <2>1 DEF IsAcc, CountsLosses
  <2>3. IsAcc(new)
    BY <1>4, <2>2 DEF IsAcc, CountsLosses
  <2> QED  BY <1>3, <1>5, <2>2, <2>3 DEF Whole, status, retain, key, tool, new
<1>6. CASE status = "redacted"
  <2>1. new = [told EXCEPT !.kept = Put(told.kept, key, "body"), !.reasons = told.reasons \cup reason]
    BY <1>2, <1>6
  <2>2. /\ DOMAIN new = DOMAIN told /\ new.kept = Put(told.kept, key, "body") /\ new.drops = told.drops
        /\ new.cut = told.cut /\ new.reasons = told.reasons \cup reason /\ new.tool = told.tool
    BY <1>4, <2>1 DEF IsAcc, CountsLosses
  <2>3. IsAcc(new)
    BY <1>4, <2>2 DEF IsAcc, CountsLosses
  <2> QED  BY <1>3, <1>6, <2>2, <2>3 DEF Whole, status, retain, key, tool, new
<1>7. CASE status \notin Whole
  <2>1. new = [told EXCEPT !.drops = told.drops + 1, !.cut = TRUE,
                 !.reasons = told.reasons \cup reason
                    \cup IF retain THEN {} ELSE {"trace_attribute_limit"}]
    BY <1>2, <1>7 DEF Whole
  <2>2. /\ DOMAIN new = DOMAIN told /\ new.kept = told.kept /\ new.drops = told.drops + 1
        /\ new.cut = TRUE /\ new.tool = told.tool
    BY <1>4, <2>1 DEF IsAcc, CountsLosses
  <2>3. told.reasons \cup reason \subseteq new.reasons
    BY <1>4, <2>1 DEF IsAcc, CountsLosses
  <2>4. told.drops \in Nat /\ {"drops", "cut", "reasons", "kept", "tool"} \subseteq DOMAIN told
    BY <1>4 DEF IsAcc, CountsLosses
  <2>5. new.drops \in Nat
    BY <2>2, <2>4
  <2>6. IsAcc(new)
    BY <2>2, <2>4, <2>5 DEF IsAcc, CountsLosses
  <2> QED  BY <1>3, <1>7, <2>2, <2>3, <2>6 DEF Whole, status, retain, key, tool, new
<1> QED  BY <1>5, <1>6, <1>7 DEF Whole


----------------------------------------------------------------------------
(* What is read of a value.                                                *)

Spoilt == {"secret", "hidden", "long", "huge", "unusable", "null", "raises"}

LeafRead(leaf, s) ==
  /\ s.kept \in BOOLEAN /\ s.cut \in BOOLEAN /\ s.drops \in {0, 1}
  /\ (s.kept = TRUE /\ s.cut = FALSE /\ s.reasons = {} => leaf \notin Spoilt)
  /\ (s.reasons = {} => s.drops = 0)
  /\ (leaf # "number" /\ s.kept = TRUE => s.fate \notin {"number", "list"})
  /\ (s.kept = TRUE /\ s.fate = "execute_tool" => leaf \in {"execute_tool", "execute_tool subclass"})

LEMMA SafeLeafFacts == ASSUME NEW leaf \in Leaf PROVE LeafRead(leaf, SafeLeaf(leaf))
<1> DEFINE s == SafeLeaf(leaf)
           says(kept, fate, cut, drops, reasons) ==
             /\ s.kept = kept /\ s.fate = fate /\ s.cut = cut /\ s.drops = drops /\ s.reasons = reasons
<1>0. SUFFICES LeafRead(leaf, s)
  OBVIOUS
<1>1. CASE leaf \in {"secret", "hidden"}
  <2>1. s = [Reads("redacted") EXCEPT !.cut = TRUE, !.drops = 1,
                                      !.reasons = {"trace_attribute_filtered"}]
    BY <1>1 DEF SafeLeaf
  <2>2. says(TRUE, "redacted", TRUE, 1, {"trace_attribute_filtered"})
    BY <2>1 DEF Reads
  <2> HIDE DEF s
  <2> QED  BY <1>1, <2>2 DEF LeafRead, Spoilt
<1>2. CASE leaf \in {"long", "huge"}
  <2>1. s = [Reads("long") EXCEPT !.cut = TRUE]
    BY <1>2 DEF SafeLeaf
  <2>2. says(TRUE, "long", TRUE, 0, {})
    BY <2>1 DEF Reads
  <2> HIDE DEF s
  <2> QED  BY <1>2, <2>2 DEF LeafRead, Spoilt
<1>3. CASE leaf = "null"
  <2>1. s = Loses(0, {})
    BY <1>3 DEF SafeLeaf
  <2>2. says(FALSE, "none", FALSE, 0, {})
    BY <2>1 DEF Loses
  <2> HIDE DEF s
  <2> QED  BY <1>3, <2>2 DEF LeafRead, Spoilt
<1>4. CASE leaf \in {"unusable", "raises"}
  <2>1. s = Loses(1, {"trace_attribute_invalid"})
    BY <1>4 DEF SafeLeaf
  <2>2. says(FALSE, "none", FALSE, 1, {"trace_attribute_invalid"})
    BY <2>1 DEF Loses
  <2> HIDE DEF s
  <2> QED  BY <1>4, <2>2 DEF LeafRead, Spoilt
<1>5. CASE leaf = "execute_tool subclass"
  <2>1. s = Reads("execute_tool")
    BY <1>5 DEF SafeLeaf
  <2>2. says(TRUE, "execute_tool", FALSE, 0, {})
    BY <2>1 DEF Reads
  <2> HIDE DEF s
  <2> QED  BY <1>5, <2>2 DEF LeafRead, Spoilt
<1>6. CASE leaf \notin Spoilt \cup {"execute_tool subclass"}
  <2>1. s = Reads(leaf)
    BY <1>6 DEF SafeLeaf, Spoilt
  <2>2. says(TRUE, leaf, FALSE, 0, {})
    BY <2>1 DEF Reads
  <2>3. leaf # "list"
    BY DEF Leaf, ReservedOperations, ModelOperations
  <2> HIDE DEF s
  <2> QED  BY <1>6, <2>2, <2>3 DEF LeafRead
<1> QED  BY <1>1, <1>2, <1>3, <1>4, <1>5, <1>6 DEF Spoilt

\* A value that is kept, and counted and reported nowhere, is whole.
ValueRead(v, s) ==
  /\ s.kept \in BOOLEAN /\ s.cut \in BOOLEAN /\ s.drops \in Nat
  /\ (s.kept = TRUE /\ s.cut = FALSE /\ s.reasons = {} =>
        s.drops = 0 /\ Len(v) <= MaxList /\ ToSet(v) \cap Spoilt = {})
  /\ (s.kept = TRUE /\ ~IsList(v) /\ v[1] # "number" => s.fate \notin {"number", "list"})
  /\ (s.kept = TRUE /\ s.fate = "execute_tool" =>
        ~IsList(v) /\ v[1] \in {"execute_tool", "execute_tool subclass"})

LEMMA SafeValueFacts == ASSUME NEW v \in Seq(Leaf) PROVE ValueRead(v, SafeValue(v))
<1> DEFINE s == SafeValue(v)
<1>0. SUFFICES ValueRead(v, s)
  OBVIOUS
<1>1. Len(v) \in Nat /\ DOMAIN v = 1..Len(v) /\ \A i \in 1..Len(v) : v[i] \in Leaf
  OBVIOUS
<1>2. ToSet(v) = {v[i] : i \in 1..Len(v)}
  BY <1>1 DEF ToSet
<1>3. CASE ~IsList(v)
  <2>1. Len(v) = 1
    BY <1>1, <1>3 DEF IsList
  <2>2. v[1] \in Leaf /\ s = SafeLeaf(v[1])
    BY <1>1, <1>3, <2>1 DEF SafeValue
  <2>3. ToSet(v) = {v[1]}
    BY <1>2, <2>1
  <2>4. 1 <= MaxList
    BY MappingAssumption
  <2>5. LeafRead(v[1], s)
    BY <2>2, SafeLeafFacts
  <2> HIDE DEF s
  <2>6. s.drops = 0 \/ s.drops = 1
    BY <2>5 DEF LeafRead
  <2>7. s.drops \in Nat
    BY <2>6
  <2> QED  BY <1>3, <2>1, <2>3, <2>4, <2>5, <2>7 DEF LeafRead, ValueRead
<1>4. CASE IsList(v) /\ "raises" \in ToSet(v)
  <2>1. s = Loses(1, {"trace_attribute_invalid"})
    BY <1>4 DEF SafeValue
  <2>2. s.kept = FALSE /\ s.cut = FALSE /\ s.drops = 1
    BY <2>1 DEF Loses
  <2> HIDE DEF s
  <2>3. s.kept \in BOOLEAN /\ s.cut \in BOOLEAN /\ s.kept # TRUE
    BY <2>2
  <2>4. s.drops \in Nat
    BY <2>2
  <2> QED  BY <2>3, <2>4 DEF ValueRead
<1>5. CASE IsList(v) /\ "raises" \notin ToSet(v)
  <2> DEFINE beyond == Len(v) > MaxList
             last == IF beyond THEN MaxList ELSE Len(v)
             child == [i \in 1..last |-> SafeLeaf(v[i])]
             lost == {i \in 1..last : ~child[i].kept \/ child[i].drops > 0}
             unread == IF \E i \in 1..last : ~child[i].kept
                       THEN {"trace_attribute_invalid"} ELSE {}
             others == (IF beyond THEN {"trace_attribute_limit"} ELSE {})
                       \cup (UNION {child[i].reasons : i \in 1..last})
  <2>1. s = SafeList(v)
    BY <1>5 DEF SafeValue
  <2>2. s.kept = TRUE /\ s.fate = "list" /\ s.cut = (beyond \/ \E i \in 1..last : child[i].cut)
    BY <2>1 DEF SafeList
  <2>3. s.drops = (IF beyond THEN Len(v) - MaxList ELSE 0) + Cardinality(lost)
    BY <2>1 DEF SafeList
  <2>4. s.reasons = others \cup unread
    BY <2>1 DEF SafeList
  <2>5. MaxList \in Nat /\ last \in Nat /\ last <= Len(v)
    BY <1>1, MappingAssumption
  <2>6. Cardinality(lost) \in Nat
    <3>0. lost \subseteq 1..last
      OBVIOUS
    <3>1. IsFiniteSet(1..last) /\ lost \subseteq 1..last
      <4> HIDE DEF lost, last
      <4> QED  BY <2>5, <3>0, FS_Interval
    <3> HIDE DEF lost, last
    <3> QED  BY <3>1, FS_Subset, FS_CardinalityType
  <2>7. s.drops \in Nat
    <3> HIDE DEF s, lost
    <3> QED  BY <1>1, <2>3, <2>5, <2>6
  <2>8. \A i \in 1..last : LeafRead(v[i], child[i])
    BY <1>1, <2>5, SafeLeafFacts
  <2> HIDE DEF s, child
  <2>9. ASSUME s.cut = FALSE, s.reasons = {}
        PROVE  s.drops = 0 /\ Len(v) <= MaxList /\ ToSet(v) \cap Spoilt = {}
    <3>1. ~beyond /\ last = Len(v)
      BY <2>2, <2>9
    <3>2. ASSUME NEW i \in 1..last
          PROVE  child[i].kept = TRUE /\ child[i].drops = 0 /\ v[i] \notin Spoilt
      <4>1. child[i].kept \in BOOLEAN /\ child[i].cut \in BOOLEAN
        BY <2>8 DEF LeafRead
      <4>2. child[i].cut = FALSE
        BY <2>2, <2>9, <4>1
      <4>3. child[i].reasons \subseteq s.reasons
        BY <2>4
      <4>4. child[i].kept = TRUE
        <5>1. SUFFICES ASSUME child[i].kept = FALSE PROVE FALSE
          BY <4>1
        <5>2. unread = {"trace_attribute_invalid"}
          BY <5>1
        <5>3. unread \subseteq s.reasons
          <6> HIDE DEF others, unread
          <6> QED  BY <2>4
        <5> QED  BY <2>9, <5>2, <5>3
      <4>5. child[i].reasons = {}
        BY <2>9, <4>3
      <4> QED  BY <2>8, <4>2, <4>4, <4>5 DEF LeafRead
    <3>3. lost = {}
      <4>1. SUFFICES ASSUME NEW i \in lost PROVE FALSE
        BY Zenon
      <4>2. i \in 1..last /\ (~child[i].kept \/ child[i].drops > 0)
        OBVIOUS
      <4>3. child[i].kept = TRUE /\ child[i].drops = 0
        BY <3>2, <4>2
      <4> QED  BY <4>2, <4>3
    <3>4. s.drops = 0
      <4>1. Cardinality(lost) = 0
        BY <3>3, FS_EmptySet
      <4>2. ~beyond
        BY <3>1
      <4>3. (IF beyond THEN Len(v) - MaxList ELSE 0) = 0
        BY <4>2
      <4> HIDE DEF lost, beyond
      <4> QED  BY <2>3, <4>1, <4>3
    <3>5. Len(v) <= MaxList
      BY <1>1, <2>5, <3>1
    <3>6. ASSUME NEW x \in ToSet(v) PROVE x \notin Spoilt
      <4>1. PICK i \in 1..Len(v) : x = v[i]
        BY <1>2
      <4> QED  BY <3>1, <3>2, <4>1
    <3> QED  BY <3>4, <3>5, <3>6
  <2>10. s.cut \in BOOLEAN
    BY <2>2
  <2> QED  BY <1>5, <2>2, <2>7, <2>9, <2>10 DEF ValueRead
<1> QED  BY <1>3, <1>4, <1>5

----------------------------------------------------------------------------
(* What becomes of an item under its key: nothing is kept and a loss is    *)
(* counted and reported, or a body is told of, or a value is kept.         *)

Statuses == {"invalid", "size_limit", "sensitive_content", "redacted", "present"}

LEMMA StatusOfBody == \A v : NormalizeToolContent(v) \in Statuses
BY DEF NormalizeToolContent, Statuses

ToldBody(acc, new, f, status, v) ==
  /\ IsAcc(new) /\ acc.tool # NoTool /\ new.tool = [acc.tool EXCEPT ![f] = status]
  /\ status \in Statuses /\ acc.reasons \subseteq new.reasons
  /\ (status = "present" => NormalizeToolContent(v) = "present")
  /\ (status # "present" => ToolReason(status) \in new.reasons)
  /\ (status \in Whole => /\ new.kept = Put(acc.kept, ToolContentKeys[f], "body")
                          /\ new.drops = acc.drops /\ new.cut = acc.cut)
  /\ (status \notin Whole => new.kept = acc.kept /\ new.drops = acc.drops + 1)

KeptValue(acc, new, key, fate, v) ==
  /\ IsAcc(new) /\ new.tool = acc.tool /\ new.kept = Put(acc.kept, key, fate)
  /\ new.drops >= acc.drops /\ acc.reasons \subseteq new.reasons
  /\ (new.reasons = {} => /\ new.drops = acc.drops /\ new.cut = acc.cut
                          /\ Len(v) <= MaxList /\ ToSet(v) \cap Spoilt = {})
  /\ (key \in ToolMetadata => fate \notin {"number", "list"})
  /\ (fate = "execute_tool" => ~IsList(v) /\ v[1] \in {"execute_tool", "execute_tool subclass"})

\* The outcomes of an item, with what each of them requires of the key.
Outcome(acc, new, key, v, resource) ==
  \/ LostItem(acc, new)
  \/ /\ Allowed(key, resource)
     /\ \E f \in Fields, status \in Statuses :
          key = ToolContentKeys[f] /\ ToldBody(acc, new, f, status, v)
  \/ /\ Allowed(key, resource) /\ key \notin ToolBodies
     /\ (key \in ToolMetadata => acc.tool # NoTool)
     /\ \E fate : KeptValue(acc, new, key, fate, v)

LEMMA LosesItemIsLost ==
  ASSUME NEW acc, IsAcc(acc), NEW cut \in BOOLEAN, NEW reason
  PROVE  LostItem(acc, LosesItem(acc, cut, reason))
<1> DEFINE new == LosesItem(acc, cut, reason)
<1>1. CountsLosses(acc) /\ acc.drops \in Nat /\ "kept" \in DOMAIN acc /\ "tool" \in DOMAIN acc
  BY DEF IsAcc, CountsLosses
<1>2. /\ CountsLosses(new) /\ DOMAIN new = DOMAIN acc /\ new.drops = acc.drops + 1
      /\ new.reasons = acc.reasons \cup {reason}
      /\ \A x \in DOMAIN acc \ {"drops", "cut", "reasons"} : new[x] = acc[x]
  BY <1>1, LosesItemFields
<1> HIDE DEF new
<1>3. new.kept = acc.kept /\ new.tool = acc.tool
  BY <1>1, <1>2
<1>4. new.drops > acc.drops
  BY <1>1, <1>2
<1>5. acc.reasons \subseteq new.reasons /\ new.reasons # {}
  BY <1>2
<1>6. LostItem(acc, new)
  BY <1>1, <1>2, <1>3, <1>4, <1>5 DEF LostItem, IsAcc
<1> QED  BY <1>6 DEF new

LEMMA SafeAttributeOutcome ==
  ASSUME NEW acc, IsAcc(acc), NEW key, NEW v \in Seq(Leaf), NEW resource \in BOOLEAN
  PROVE  Outcome(acc, SafeAttribute(acc, key, v, resource), key, v, resource)
<1> DEFINE new == SafeAttribute(acc, key, v, resource)
           full == Cardinality(DOMAIN acc.kept) >= MaxAttributes
           nameless == key \in ToolMetadata
                       /\ (IsList(v) \/ v[1] \in {"number", "unusable", "null", "raises"})
<1>0. SUFFICES Outcome(acc, new, key, v, resource)
  OBVIOUS
<1>1. CASE key = "invalid"
  <2>1. new = LosesItem(acc, TRUE, "trace_attribute_invalid")
    BY <1>1 DEF SafeAttribute
  <2> QED  BY <2>1, LosesItemIsLost DEF Outcome
<1>2. CASE key # "invalid" /\ ~Allowed(key, resource)
  <2>1. new = LosesItem(acc, FALSE, IF key = "private" THEN "trace_attribute_filtered"
                                    ELSE "trace_attribute_not_allowlisted")
    BY <1>2 DEF SafeAttribute
  <2> QED  BY <2>1, LosesItemIsLost DEF Outcome
<1>3. CASE key # "invalid" /\ Allowed(key, resource)
  <2>1. CASE key \in ToolBodies \cup ToolMetadata /\ acc.tool = NoTool
    <3>1. new = LosesItem(acc, FALSE, "trace_attribute_not_allowlisted")
      BY <1>3, <2>1 DEF SafeAttribute
    <3> QED  BY <3>1, LosesItemIsLost DEF Outcome
  <2>2. CASE key \in ToolBodies /\ acc.tool # NoTool
    <3>1. new = ToolAttribute(acc, key, v)
      BY <1>3, <2>2 DEF SafeAttribute
    <3>2. PICK f \in Fields : key = ToolContentKeys[f]
      BY <2>2 DEF ToolBodies
    <3> DEFINE retain == Cardinality(DOMAIN acc.kept) < MaxAttributes
               status == IF retain THEN NormalizeToolContent(v) ELSE "size_limit"
    <3>3. status \in Statuses /\ (status = "present" => NormalizeToolContent(v) = "present")
      BY StatusOfBody DEF Statuses
    <3>4. ToldBody(acc, new, f, status, v)
      BY <2>2, <3>1, <3>2, <3>3, ToolAttributeFields DEF ToldBody
    <3> HIDE DEF status, new
    <3> QED  BY <1>3, <3>2, <3>3, <3>4 DEF Outcome
  <2>3. CASE ~(key \in ToolBodies \cup ToolMetadata /\ acc.tool = NoTool) /\ key \notin ToolBodies
    <3>1. CASE full
      <4>1. new = LosesItem(acc, TRUE, "trace_attribute_limit")
        BY <1>3, <2>3, <3>1 DEF SafeAttribute
      <4> QED  BY <4>1, LosesItemIsLost DEF Outcome
    <3>2. CASE ~full /\ nameless
      <4>1. new = LosesItem(acc, FALSE, "trace_attribute_invalid")
        BY <1>3, <2>3, <3>2 DEF SafeAttribute
      <4> QED  BY <4>1, LosesItemIsLost DEF Outcome
    <3>3. CASE ~full /\ ~nameless
      <4> DEFINE s == SafeValue(v)
      <4>1. new = WithValue(acc, key, s)
        BY <1>3, <2>3, <3>3 DEF SafeAttribute
      <4>2. ValueRead(v, s)
        BY SafeValueFacts
      <4> HIDE DEF s, new
      <4>3. s.kept \in BOOLEAN /\ s.cut \in BOOLEAN /\ s.drops \in Nat /\ acc.drops \in Nat
        BY <4>2 DEF ValueRead, IsAcc, CountsLosses
      <4>4. CASE s.kept = FALSE
        <5>1. LostItem(acc, new)
          BY <4>1, <4>3, <4>4, WithValueLost
        <5> QED  BY <5>1 DEF Outcome
      <4>5. CASE s.kept = TRUE
        <5>0. ValueTaken(acc, new, key, s)
          BY <4>1, <4>3, <4>5, WithValueKept
        <5>1. /\ IsAcc(new) /\ new.drops = acc.drops + s.drops
              /\ new.cut = (acc.cut \/ s.cut)
              /\ new.kept = Put(acc.kept, key, s.fate) /\ new.tool = acc.tool
          BY <5>0 DEF ValueTaken
        <5>2. new.drops >= acc.drops
          BY <4>3, <5>1
        <5>3. acc.reasons \subseteq new.reasons /\ s.reasons \subseteq new.reasons
              /\ CutReason(s) \subseteq new.reasons
          BY <5>0 DEF ValueTaken
        <5>4. ASSUME new.reasons = {}
              PROVE  /\ new.drops = acc.drops /\ new.cut = acc.cut
                     /\ Len(v) <= MaxList /\ ToSet(v) \cap Spoilt = {}
          <6>1. s.reasons = {} /\ CutReason(s) = {}
            BY <5>3, <5>4
          <6>2. s.cut = FALSE
            BY <4>3, <6>1 DEF CutReason
          <6>3. s.drops = 0 /\ Len(v) <= MaxList /\ ToSet(v) \cap Spoilt = {}
            BY <4>2, <4>5, <6>1, <6>2 DEF ValueRead
          <6>4. new.drops = acc.drops
            BY <4>3, <5>1, <6>3
          <6>5. new.cut = acc.cut
            BY <5>1, <6>2 DEF IsAcc, CountsLosses
          <6> QED  BY <6>3, <6>4, <6>5
        <5>5. key \in ToolMetadata => s.fate \notin {"number", "list"}
          BY <3>3, <4>2, <4>5 DEF ValueRead
        <5>6. s.fate = "execute_tool" =>
                ~IsList(v) /\ v[1] \in {"execute_tool", "execute_tool subclass"}
          BY <4>2, <4>5 DEF ValueRead
        <5>7. KeptValue(acc, new, key, s.fate, v)
          BY <5>1, <5>2, <5>3, <5>4, <5>5, <5>6 DEF KeptValue
        <5> QED  BY <1>3, <2>3, <5>7 DEF Outcome
      <4> QED  BY <4>3, <4>4, <4>5
    <3> QED  BY <3>1, <3>2, <3>3
  <2> QED  BY <2>1, <2>2, <2>3
<1> QED  BY <1>1, <1>2, <1>3

----------------------------------------------------------------------------
(* Keys.                                                                   *)

\* The key that the i-th item is taken under.
KeyAt(i, items, resource) == CanonicalKey(items[i].key, items, OperationOf(items, resource))

LEMMA PutFacts ==
  ASSUME NEW kept, NEW key, NEW fate
  PROVE  /\ DOMAIN Put(kept, key, fate) = DOMAIN kept \cup {key}
         /\ Put(kept, key, fate)[key] = fate
         /\ \A k \in DOMAIN kept \ {key} : Put(kept, key, fate)[k] = kept[k]
BY DEF Put

LEMMA RawItemsFacts ==
  ASSUME NEW items \in RawItems
  PROVE  /\ Len(items) \in Nat /\ DOMAIN items = 1..Len(items)
         /\ \A i \in DOMAIN items : items[i].value \in Seq(Leaf)
         /\ \A i, j \in DOMAIN items : items[i].key = items[j].key => i = j
<1> DEFINE item == [key : STRING, value : Seq(Leaf)]
<1>1. items \in Seq(item)
  BY DEF RawItems
<1>2. \A i, j \in DOMAIN items : items[i].key = items[j].key => i = j
  BY DEF RawItems
<1>3. \A x \in item : x.value \in Seq(Leaf)
  OBVIOUS
<1> HIDE DEF item
<1>4. Len(items) \in Nat /\ DOMAIN items = 1..Len(items)
  BY <1>1
<1>5. \A i \in DOMAIN items : items[i] \in item
  BY <1>1, <1>4
<1> QED  BY <1>2, <1>3, <1>4, <1>5

\* A value looked up by its key is the value of the one item of that key.
LEMMA ValueOfItem ==
  ASSUME NEW items \in RawItems, NEW i \in DOMAIN items
  PROVE  items[i].key \in KeysOf(items) /\ ValueOf(items, items[i].key) = items[i].value
<1> DEFINE j == CHOOSE j \in DOMAIN items : items[j].key = items[i].key
<1>1. j \in DOMAIN items /\ items[j].key = items[i].key
  OBVIOUS
<1> HIDE DEF j
<1>2. j = i
  BY <1>1, RawItemsFacts
<1> QED  BY <1>2 DEF KeysOf, ValueOf, j

LEMMA BodyAliases ==
  ASSUME NEW key, NEW operation, NEW f \in Fields, SemanticKey(key, operation) = ToolContentKeys[f]
  PROVE  key = IF f = "arguments" THEN "input.value" ELSE "output.value"
<1>1. f \in {"arguments", "result"}
  BY DEF Fields, ToolContentKeys
<1>2. ToolContentKeys[f] \in {"gen_ai.tool.call.arguments", "gen_ai.tool.call.result"}
  BY <1>1 DEF ToolContentKeys
<1>3. CASE operation = "execute_tool" /\ key = "input.value"
  BY <1>1, <1>3 DEF SemanticKey, ToolContentKeys, KindKey
<1>4. CASE operation = "execute_tool" /\ key = "output.value"
  BY <1>1, <1>4 DEF SemanticKey, ToolContentKeys, KindKey
<1>5. CASE ~(operation = "execute_tool" /\ key \in {"input.value", "output.value"})
  BY <1>1, <1>2, <1>5 DEF SemanticKey, ToolContentKeys, KindKey, Operation
<1> QED  BY <1>3, <1>4, <1>5

\* No two items are taken under the key of one body.
LEMMA BodiesAreDistinct ==
  ASSUME NEW items \in RawItems, NEW resource, NEW i \in DOMAIN items, NEW j \in DOMAIN items,
         NEW f \in Fields, KeyAt(i, items, resource) = ToolContentKeys[f],
         KeyAt(j, items, resource) = ToolContentKeys[f]
  PROVE  i = j
<1> DEFINE operation == OperationOf(items, resource)
           body == ToolContentKeys[f]
           canonical(k) == SemanticKey(items[k].key, operation)
<1>1. ASSUME NEW k \in DOMAIN items, KeyAt(k, items, resource) = body
      PROVE  items[k].key = body \/ (body \notin KeysOf(items) /\ canonical(k) = body)
  BY <1>1 DEF KeyAt, CanonicalKey
<1>2. CASE body \in KeysOf(items)
  <2>1. items[i].key = items[j].key
    BY <1>1, <1>2
  <2> QED  BY <2>1, RawItemsFacts
<1>3. CASE body \notin KeysOf(items)
  <2>1. items[i].key # body /\ items[j].key # body
    BY <1>3 DEF KeysOf
  <2>2. canonical(i) = body /\ canonical(j) = body
    BY <1>1, <2>1
  <2>3. items[i].key = items[j].key
    BY <2>2, BodyAliases
  <2> QED  BY <2>3, RawItemsFacts
<1> QED  BY <1>2, <1>3

\* Only an item that names the operation is taken under its key where none is
\* reserved.
LEMMA OperationItem ==
  ASSUME NEW items \in RawItems, NEW i \in DOMAIN items,
         KeyAt(i, items, FALSE) = Operation, ~Reserves(items, FALSE)
  PROVE  items[i].key = Operation
<1> DEFINE operation == ObservedOperation(items)
           canonical == SemanticKey(items[i].key, operation)
<1>1. operation \notin ReservedOperations /\ OperationOf(items, FALSE) = operation
  BY DEF Reserves, OperationOf
<1>2. SUFFICES ASSUME items[i].key # Operation PROVE FALSE
  OBVIOUS
<1>3. canonical = Operation /\ canonical # "none" /\ Operation \notin KeysOf(items)
  BY <1>1, <1>2 DEF KeyAt, CanonicalKey, Operation
<1>4. operation \in {"execute_tool", "chat", "none"}
  BY <1>3 DEF ObservedOperation
<1>5. operation = "none"
  BY <1>1, <1>4 DEF ReservedOperations, ModelOperations
<1>6. canonical = "none"
  BY <1>5 DEF SemanticKey
<1> QED  BY <1>3, <1>6

LEMMA ReservedIsObserved ==
  ASSUME NEW items \in RawItems, NEW i \in DOMAIN items, items[i].key = Operation,
         ~IsList(items[i].value), items[i].value[1] \in ReservedOperations
  PROVE  Reserves(items, FALSE) /\ ObservedOperation(items) = items[i].value[1]
BY ValueOfItem DEF Reserves, OperationOf, ObservedOperation

LEMMA AllowedKeys ==
  /\ \A k : Allowed(k, TRUE) => k \notin ToolBodies \cup ToolMetadata \cup {Operation}
  /\ Allowed(Operation, FALSE)
  /\ \A f \in Fields : ToolContentKeys[f] \in ToolBodies /\ ToolContentKeys[f] # Operation
  /\ \A f, g \in Fields : ToolContentKeys[f] = ToolContentKeys[g] => f = g
  /\ ToolBodies \cap ToolMetadata = {} /\ Operation \notin ToolBodies \cup ToolMetadata
BY DEF Allowed, ToolBodies, ToolMetadata, Operation, ToolContentKeys, Fields

----------------------------------------------------------------------------
(* What is kept.                                                           *)

\* The n-th item was taken from acc into new.
Step(acc, new, n, items, resource, managed) ==
  \/ /\ new = acc
     /\ \/ items[n].key \in managed
        \/ KeyAt(n, items, resource) = Operation /\ Reserves(items, resource)
  \/ /\ items[n].key \notin managed
     /\ ~(KeyAt(n, items, resource) = Operation /\ Reserves(items, resource))
     /\ Outcome(acc, new, KeyAt(n, items, resource), items[n].value, resource)

LEMMA TakeItemSteps ==
  ASSUME NEW items \in RawItems, NEW n \in DOMAIN items, NEW resource \in BOOLEAN, NEW managed,
         NEW acc, IsAcc(acc)
  PROVE  Step(acc, TakeItem(acc, items[n], items, resource, managed), n, items, resource, managed)
<1>1. items[n].value \in Seq(Leaf)
  BY RawItemsFacts
<1> QED  BY <1>1, SafeAttributeOutcome DEF Step, TakeItem, KeyAt

\* What is kept may be there; a reserved operation is kept under its name, and
\* only a subclass of str takes the name of the tool's operation otherwise.
KeptInv(acc, items, resource, tool) ==
  /\ \A k \in DOMAIN acc.kept :
       /\ Allowed(k, resource)
       /\ (k \in ToolBodies \cup ToolMetadata => tool # NoTool)
       /\ (k \in ToolMetadata => acc.kept[k] \notin {"number", "list"})
  /\ (Reserves(items, resource) =>
        Operation \in DOMAIN acc.kept /\ acc.kept[Operation] = OperationOf(items, resource))
  /\ (~Reserves(items, resource) /\ Operation \in DOMAIN acc.kept
      /\ acc.kept[Operation] = "execute_tool" =>
        \E i \in DOMAIN items : items[i].key = Operation /\ ~IsList(items[i].value)
                                /\ items[i].value[1] = "execute_tool subclass")

LEMMA KeptStep ==
  ASSUME NEW items \in RawItems, NEW n \in DOMAIN items, NEW resource \in BOOLEAN, NEW managed,
         NEW tool, NEW acc, NEW new, (acc.tool = NoTool) <=> (tool = NoTool),
         KeptInv(acc, items, resource, tool), Step(acc, new, n, items, resource, managed)
  PROVE  KeptInv(new, items, resource, tool)
<1> DEFINE key == KeyAt(n, items, resource)
           v == items[n].value
<1>1. CASE new = acc
  BY <1>1
<1>2. CASE new.kept = acc.kept
  BY <1>2 DEF KeptInv
<1>3. ASSUME NEW fate, new.kept = Put(acc.kept, key, fate), Allowed(key, resource),
             key \in ToolBodies \cup ToolMetadata => tool # NoTool,
             key \in ToolMetadata => fate \notin {"number", "list"},
             ~(key = Operation /\ Reserves(items, resource)),
             key = Operation /\ fate = "execute_tool" =>
               ~IsList(v) /\ v[1] \in {"execute_tool", "execute_tool subclass"}
      PROVE  KeptInv(new, items, resource, tool)
  <2> HIDE DEF key
  <2>0. new.kept = Put(acc.kept, key, fate)
    BY <1>3
  <2> DEFINE put == Put(acc.kept, key, fate)
  <2>a. /\ DOMAIN put = DOMAIN acc.kept \cup {key} /\ put[key] = fate
        /\ \A k \in DOMAIN acc.kept \ {key} : put[k] = acc.kept[k]
    BY DEF Put
  <2> HIDE DEF put
  <2>1. /\ DOMAIN new.kept = DOMAIN acc.kept \cup {key} /\ new.kept[key] = fate
        /\ \A k \in DOMAIN acc.kept \ {key} : new.kept[k] = acc.kept[k]
    <3>1. new.kept = put
      BY <2>0 DEF put
    <3> QED  BY <3>1, <2>a
  <2>2. ASSUME NEW k \in DOMAIN new.kept
        PROVE  /\ Allowed(k, resource)
               /\ (k \in ToolBodies \cup ToolMetadata => tool # NoTool)
               /\ (k \in ToolMetadata => new.kept[k] \notin {"number", "list"})
    <3>1. CASE k = key
      BY <1>3, <2>1, <3>1
    <3>2. CASE k # key
      BY <2>1, <3>2 DEF KeptInv
    <3> QED  BY <3>1, <3>2
  <2>3. CASE Reserves(items, resource)
    <3>1. key # Operation
      BY <1>3, <2>3
    <3>2. Operation \in DOMAIN acc.kept /\ acc.kept[Operation] = OperationOf(items, resource)
      BY <2>3 DEF KeptInv
    <3>3. Operation \in DOMAIN new.kept /\ new.kept[Operation] = OperationOf(items, resource)
      BY <2>1, <3>1, <3>2
    <3> QED  BY <2>2, <2>3, <3>3 DEF KeptInv
  <2>4. CASE ~Reserves(items, resource)
    <3>1. ASSUME Operation \in DOMAIN new.kept, new.kept[Operation] = "execute_tool"
          PROVE  \E i \in DOMAIN items : items[i].key = Operation /\ ~IsList(items[i].value)
                                         /\ items[i].value[1] = "execute_tool subclass"
      <4>1. CASE key # Operation
        <5>1. Operation \in DOMAIN acc.kept /\ acc.kept[Operation] = "execute_tool"
          BY <2>1, <3>1, <4>1
        <5> QED  BY <2>4, <5>1 DEF KeptInv
      <4>2. CASE key = Operation
        <5>1. fate = "execute_tool"
          BY <2>1, <3>1, <4>2
        <5>2. ~IsList(v) /\ v[1] \in {"execute_tool", "execute_tool subclass"}
          BY <1>3, <4>2, <5>1
        <5>3. resource = FALSE
          BY <1>3, <4>2, AllowedKeys
        <5>4. items[n].key = Operation
          BY <2>4, <4>2, <5>3, OperationItem DEF key
        <5>5. v[1] # "execute_tool"
          <6>1. SUFFICES ASSUME v[1] = "execute_tool" PROVE FALSE
            OBVIOUS
          <6>2. v[1] \in ReservedOperations
            BY <6>1 DEF ReservedOperations
          <6> QED  BY <2>4, <5>2, <5>3, <5>4, <6>2, ReservedIsObserved
        <5> QED  BY <5>2, <5>4, <5>5
      <4> QED  BY <4>1, <4>2
    <3> QED  BY <2>2, <2>4, <3>1 DEF KeptInv
  <2> QED  BY <2>3, <2>4
<1>4. CASE /\ ~(key = Operation /\ Reserves(items, resource))
           /\ Outcome(acc, new, key, v, resource)
  <2> HIDE DEF key, v
  <2>1. CASE LostItem(acc, new)
    BY <1>2, <2>1 DEF LostItem
  <2>2. ASSUME Allowed(key, resource), NEW f \in Fields, NEW status \in Statuses,
               key = ToolContentKeys[f], ToldBody(acc, new, f, status, v)
        PROVE  KeptInv(new, items, resource, tool)
    <3>1. CASE status \in Whole
      <4>1. new.kept = Put(acc.kept, key, "body") /\ tool # NoTool
        BY <2>2, <3>1 DEF ToldBody
      <4>2. key \notin ToolMetadata \cup {Operation}
        BY <2>2, AllowedKeys
      <4> QED  BY <1>3, <2>2, <4>1, <4>2
    <3>2. CASE status \notin Whole
      BY <1>2, <2>2, <3>2 DEF ToldBody
    <3> QED  BY <3>1, <3>2
  <2>3. ASSUME Allowed(key, resource), key \notin ToolBodies,
               key \in ToolMetadata => acc.tool # NoTool,
               NEW fate, KeptValue(acc, new, key, fate, v)
        PROVE  KeptInv(new, items, resource, tool)
    <3>1. /\ new.kept = Put(acc.kept, key, fate)
          /\ (key \in ToolMetadata => fate \notin {"number", "list"})
          /\ (fate = "execute_tool" =>
                ~IsList(v) /\ v[1] \in {"execute_tool", "execute_tool subclass"})
      BY <2>3 DEF KeptValue
    <3> QED  BY <1>3, <1>4, <2>3, <3>1
  <2> QED  BY <1>4, <2>1, <2>2, <2>3 DEF Outcome
<1> QED  BY <1>1, <1>4 DEF Step

----------------------------------------------------------------------------
(* What is lost is counted.                                                *)

\* A value is whole under its key.
WholeAs(key, v) ==
  IF key \in ToolBodies THEN NormalizeToolContent(v) = "present"
  ELSE Len(v) <= MaxList /\ ToSet(v) \cap Spoilt = {}

\* The items among the first n that should be attributes and are not.
LostAmong(n, acc, items, resource, managed) ==
  {i \in 1..n : items[i].key \notin managed /\ KeyAt(i, items, resource) \notin DOMAIN acc.kept}

\* No less is counted than is missing of the first n items; where nothing is
\* reported, they are all kept whole.
LossInv(n, acc, items, resource, managed) ==
  /\ acc.drops >= Cardinality(LostAmong(n, acc, items, resource, managed))
  /\ (acc.reasons = {} =>
        /\ acc.drops = 0 /\ acc.cut = FALSE
        /\ \A i \in 1..n : items[i].key \notin managed =>
             /\ KeyAt(i, items, resource) \in DOMAIN acc.kept
             /\ WholeAs(KeyAt(i, items, resource), items[i].value))

LEMMA LostAmongGrows ==
  ASSUME NEW items, NEW n \in Nat, NEW resource, NEW managed, NEW acc, NEW new,
         DOMAIN acc.kept \subseteq DOMAIN new.kept
  PROVE  LET old == Cardinality(LostAmong(n, acc, items, resource, managed))
             now == Cardinality(LostAmong(n + 1, new, items, resource, managed))
         IN  /\ old \in Nat /\ now \in Nat /\ now <= old + 1
             /\ (items[n + 1].key \in managed \/ KeyAt(n + 1, items, resource) \in DOMAIN new.kept
                 => now <= old)
<1> DEFINE before == LostAmong(n, acc, items, resource, managed)
           after == LostAmong(n + 1, new, items, resource, managed)
           taken == items[n + 1].key \in managed \/ KeyAt(n + 1, items, resource) \in DOMAIN new.kept
<1>1. before \subseteq 1..n /\ after \subseteq 1..n + 1
  BY DEF LostAmong
<1>2. after \subseteq before \cup {n + 1}
  <2>1. ASSUME NEW i \in after, i # n + 1 PROVE i \in before
    <3>1. i \in 1..n + 1 /\ items[i].key \notin managed
          /\ KeyAt(i, items, resource) \notin DOMAIN new.kept
      BY DEF LostAmong
    <3>2. i \in 1..n
      BY <2>1, <3>1
    <3> QED  BY <3>1, <3>2 DEF LostAmong
  <2> HIDE DEF before, after
  <2> QED  BY <2>1
<1>3. taken => n + 1 \notin after
  BY DEF LostAmong
<1>4. n + 1 \notin before
  BY <1>1
<1> HIDE DEF before, after, taken
<1>5. IsFiniteSet(before) /\ IsFiniteSet(before \cup {n + 1})
  <2>1. IsFiniteSet(1..n)
    BY FS_Interval
  <2>2. IsFiniteSet(before)
    BY <1>1, <2>1, FS_Subset
  <2> QED  BY <2>2, FS_AddElement
<1>6. Cardinality(before \cup {n + 1}) = Cardinality(before) + 1
  BY <1>4, <1>5, FS_AddElement
<1>7. Cardinality(before) \in Nat /\ Cardinality(after) \in Nat
      /\ Cardinality(after) <= Cardinality(before \cup {n + 1})
  BY <1>2, <1>5, FS_Subset, FS_CardinalityType
<1>8. taken => Cardinality(after) <= Cardinality(before)
  <2>1. SUFFICES ASSUME taken PROVE Cardinality(after) <= Cardinality(before)
    OBVIOUS
  <2>2. after \subseteq before
    BY <1>2, <1>3, <2>1
  <2> QED  BY <1>5, <2>2, FS_Subset
<1> QED  BY <1>6, <1>7, <1>8 DEF before, after, taken

\* What names the reserved operation names it whole.
LEMMA ReservedIsWhole ==
  ASSUME NEW items \in RawItems, NEW i \in DOMAIN items, NEW resource \in BOOLEAN,
         KeyAt(i, items, resource) = Operation, Reserves(items, resource)
  PROVE  WholeAs(Operation, items[i].value)
<1> DEFINE v == items[i].value
           operation == ObservedOperation(items)
<1>1. resource = FALSE /\ OperationOf(items, resource) = operation /\ operation \in ReservedOperations
  BY DEF Reserves, OperationOf, ReservedOperations, ModelOperations
<1>2. Operation \notin ToolBodies
  BY AllowedKeys
<1>3. v \in Seq(Leaf) /\ Len(v) \in Nat
  BY RawItemsFacts
<1>4. ASSUME NEW leaf, leaf \notin Spoilt, Len(v) = 1, v[1] = leaf
      PROVE  WholeAs(Operation, v)
  <2>1. ToSet(v) = {leaf}
    BY <1>3, <1>4 DEF ToSet
  <2>2. 1 <= MaxList
    BY MappingAssumption
  <2> QED  BY <1>2, <1>4, <2>1, <2>2 DEF WholeAs
<1>5. CASE items[i].key = Operation
  <2>1. Operation \in KeysOf(items) /\ ValueOf(items, Operation) = v
    BY <1>5, ValueOfItem
  <2>2. ~IsList(v) /\ v[1] = operation
    BY <1>1, <2>1 DEF ObservedOperation, ReservedOperations, ModelOperations
  <2>3. operation \notin Spoilt
    BY <1>1 DEF ReservedOperations, ModelOperations, Spoilt
  <2> QED  BY <1>4, <2>2, <2>3 DEF IsList
<1>6. CASE items[i].key # Operation
  <2>1. /\ Operation \notin KeysOf(items)
        /\ SemanticKey(items[i].key, operation) = Operation
    BY <1>1, <1>6 DEF KeyAt, CanonicalKey
  <2>2. items[i].key = KindKey
    BY <2>1 DEF SemanticKey, Operation, ToolContentKeys
  <2>3. KindKey \in KeysOf(items) /\ ValueOf(items, KindKey) = v
    BY <2>2, ValueOfItem
  <2>4. operation # "none"
    BY <1>1 DEF ReservedOperations, ModelOperations
  <2>5. v = <<"TOOL">> \/ v = <<"LLM">>
    BY <2>1, <2>3, <2>4 DEF ObservedOperation
  <2> QED  BY <1>4, <2>5 DEF Spoilt
<1> QED  BY <1>5, <1>6

LEMMA StepGrows ==
  ASSUME NEW items, NEW n, NEW resource, NEW managed, NEW acc, NEW new,
         IsAcc(acc), Step(acc, new, n, items, resource, managed)
  PROVE  /\ IsAcc(new) /\ new.drops >= acc.drops /\ acc.reasons \subseteq new.reasons
         /\ DOMAIN acc.kept \subseteq DOMAIN new.kept
<1> DEFINE key == KeyAt(n, items, resource)
           v == items[n].value
<1>0. acc.drops \in Nat
  BY DEF IsAcc, CountsLosses
<1>1. CASE new = acc
  BY <1>0, <1>1
<1>2. CASE Outcome(acc, new, key, v, resource)
  <2> HIDE DEF key, v
  <2>1. CASE LostItem(acc, new)
    <3>1. new.drops \in Nat
      BY <2>1 DEF LostItem, IsAcc, CountsLosses
    <3> QED  BY <1>0, <2>1, <3>1 DEF LostItem
  <2>2. ASSUME NEW f \in Fields, NEW status \in Statuses, ToldBody(acc, new, f, status, v)
        PROVE  /\ IsAcc(new) /\ new.drops >= acc.drops /\ acc.reasons \subseteq new.reasons
               /\ DOMAIN acc.kept \subseteq DOMAIN new.kept
    <3>1. CASE status \in Whole
      <4>1. new.kept = Put(acc.kept, ToolContentKeys[f], "body") /\ new.drops = acc.drops
        BY <2>2, <3>1 DEF ToldBody
      <4>2. DOMAIN acc.kept \subseteq DOMAIN new.kept
        BY <4>1 DEF Put
      <4> QED  BY <1>0, <2>2, <4>1, <4>2 DEF ToldBody
    <3>2. CASE status \notin Whole
      BY <1>0, <2>2, <3>2 DEF ToldBody
    <3> QED  BY <3>1, <3>2
  <2>3. ASSUME NEW fate, KeptValue(acc, new, key, fate, v)
        PROVE  /\ IsAcc(new) /\ new.drops >= acc.drops /\ acc.reasons \subseteq new.reasons
               /\ DOMAIN acc.kept \subseteq DOMAIN new.kept
    <3>1. DOMAIN acc.kept \subseteq DOMAIN new.kept
      BY <2>3 DEF KeptValue, Put
    <3> QED  BY <2>3, <3>1 DEF KeptValue
  <2> QED  BY <1>2, <2>1, <2>2, <2>3 DEF Outcome
<1> QED  BY <1>1, <1>2 DEF Step

\* An item that should be an attribute is one, whole where nothing is
\* reported, or is counted.
LEMMA StepCounts ==
  ASSUME NEW items \in RawItems, NEW n \in DOMAIN items, NEW resource \in BOOLEAN, NEW managed,
         NEW tool, NEW acc, NEW new, IsAcc(acc), KeptInv(acc, items, resource, tool),
         Step(acc, new, n, items, resource, managed), items[n].key \notin managed
  PROVE  /\ KeyAt(n, items, resource) \in DOMAIN new.kept \/ new.drops > acc.drops
         /\ (new.reasons = {} =>
               /\ KeyAt(n, items, resource) \in DOMAIN new.kept
               /\ WholeAs(KeyAt(n, items, resource), items[n].value)
               /\ new.drops = acc.drops /\ new.cut = acc.cut)
<1> DEFINE key == KeyAt(n, items, resource)
           v == items[n].value
<1>1. CASE new = acc /\ key = Operation /\ Reserves(items, resource)
  <2>1. Operation \in DOMAIN acc.kept
    BY <1>1 DEF KeptInv
  <2>2. WholeAs(Operation, v)
    BY <1>1, ReservedIsWhole
  <2> QED  BY <1>1, <2>1, <2>2
<1>2. CASE Outcome(acc, new, key, v, resource)
  <2> HIDE DEF key, v
  <2>0. acc.drops \in Nat
    BY DEF IsAcc, CountsLosses
  <2>1. CASE LostItem(acc, new)
    BY <2>1 DEF LostItem, key, v
  <2>2. ASSUME NEW f \in Fields, NEW status \in Statuses, key = ToolContentKeys[f],
               ToldBody(acc, new, f, status, v)
        PROVE  /\ key \in DOMAIN new.kept \/ new.drops > acc.drops
               /\ (new.reasons = {} => /\ key \in DOMAIN new.kept /\ WholeAs(key, v)
                                       /\ new.drops = acc.drops /\ new.cut = acc.cut)
    <3>1. CASE status \in Whole
      <4>1. new.kept = Put(acc.kept, key, "body") /\ new.drops = acc.drops /\ new.cut = acc.cut
        BY <2>2, <3>1 DEF ToldBody
      <4>2. key \in DOMAIN new.kept
        BY <4>1 DEF Put
      <4>3. new.reasons = {} => WholeAs(key, v)
        BY <2>2, AllowedKeys DEF ToldBody, WholeAs
      <4> QED  BY <4>1, <4>2, <4>3
    <3>2. CASE status \notin Whole
      <4>1. new.drops = acc.drops + 1 /\ new.reasons # {}
        BY <2>2, <3>2 DEF ToldBody, Whole
      <4> QED  BY <2>0, <4>1
    <3> QED  BY <3>1, <3>2
  <2>3. ASSUME key \notin ToolBodies, NEW fate, KeptValue(acc, new, key, fate, v)
        PROVE  /\ key \in DOMAIN new.kept
               /\ (new.reasons = {} => WholeAs(key, v) /\ new.drops = acc.drops /\ new.cut = acc.cut)
    <3>1. key \in DOMAIN new.kept
      BY <2>3 DEF KeptValue, Put
    <3>2. new.reasons = {} => WholeAs(key, v) /\ new.drops = acc.drops /\ new.cut = acc.cut
      BY <2>3 DEF KeptValue, WholeAs
    <3> QED  BY <3>1, <3>2
  <2> QED  BY <1>2, <2>1, <2>2, <2>3 DEF Outcome, key, v
<1> QED  BY <1>1, <1>2 DEF Step

LEMMA LossStep ==
  ASSUME NEW items \in RawItems, NEW n \in 0..Len(items) - 1, NEW resource \in BOOLEAN,
         NEW managed, NEW tool, NEW acc, NEW new, IsAcc(acc), KeptInv(acc, items, resource, tool),
         LossInv(n, acc, items, resource, managed),
         Step(acc, new, n + 1, items, resource, managed)
  PROVE  LossInv(n + 1, new, items, resource, managed)
<1> DEFINE old == Cardinality(LostAmong(n, acc, items, resource, managed))
           now == Cardinality(LostAmong(n + 1, new, items, resource, managed))
           key == KeyAt(n + 1, items, resource)
           v == items[n + 1].value
<1>0. n \in Nat /\ n + 1 \in DOMAIN items
  BY RawItemsFacts
<1>1. IsAcc(new) /\ new.drops >= acc.drops /\ acc.reasons \subseteq new.reasons
      /\ DOMAIN acc.kept \subseteq DOMAIN new.kept
  BY StepGrows
<1>2. old \in Nat /\ now \in Nat /\ now <= old + 1
      /\ (items[n + 1].key \in managed \/ key \in DOMAIN new.kept => now <= old)
  BY <1>0, <1>1, LostAmongGrows
<1>3. items[n + 1].key \in managed => new = acc
  BY DEF Step
<1>4. items[n + 1].key \notin managed =>
        /\ key \in DOMAIN new.kept \/ new.drops > acc.drops
        /\ (new.reasons = {} => /\ key \in DOMAIN new.kept /\ WholeAs(key, v)
                                /\ new.drops = acc.drops /\ new.cut = acc.cut)
  BY <1>0, StepCounts
<1>5. acc.drops \in Nat /\ new.drops \in Nat
  BY <1>1 DEF IsAcc, CountsLosses
<1>6. acc.drops >= old
  BY DEF LossInv
<1> HIDE DEF old, now, key, v
<1>7. new.drops >= now
  <2>1. CASE items[n + 1].key \in managed \/ key \in DOMAIN new.kept
    BY <1>1, <1>2, <1>5, <1>6, <2>1
  <2>2. CASE items[n + 1].key \notin managed /\ key \notin DOMAIN new.kept
    BY <1>2, <1>4, <1>5, <1>6, <2>2
  <2> QED  BY <2>1, <2>2
<1>8. ASSUME new.reasons = {}
      PROVE  /\ new.drops = 0 /\ new.cut = FALSE
             /\ \A i \in 1..n + 1 : items[i].key \notin managed =>
                  /\ KeyAt(i, items, resource) \in DOMAIN new.kept
                  /\ WholeAs(KeyAt(i, items, resource), items[i].value)
  <2>1. acc.reasons = {}
    BY <1>1, <1>8
  <2>2. /\ acc.drops = 0 /\ acc.cut = FALSE
        /\ \A i \in 1..n : items[i].key \notin managed =>
             /\ KeyAt(i, items, resource) \in DOMAIN acc.kept
             /\ WholeAs(KeyAt(i, items, resource), items[i].value)
    BY <2>1 DEF LossInv
  <2>3. new.drops = 0 /\ new.cut = FALSE
    BY <1>3, <1>4, <1>8, <2>2
  <2>4. ASSUME NEW i \in 1..n + 1, items[i].key \notin managed
        PROVE  /\ KeyAt(i, items, resource) \in DOMAIN new.kept
               /\ WholeAs(KeyAt(i, items, resource), items[i].value)
    <3>1. CASE i = n + 1
      BY <1>4, <1>8, <2>4, <3>1 DEF key, v
    <3>2. CASE i # n + 1
      <4>1. i \in 1..n
        BY <1>0, <3>2
      <4> QED  BY <1>1, <2>2, <2>4, <4>1
    <3> QED  BY <3>1, <3>2
  <2> QED  BY <2>3, <2>4
<1> QED  BY <1>7, <1>8 DEF LossInv, now

----------------------------------------------------------------------------
(* What is told of the bodies of a tool.                                   *)

OmittedBodies(told) == {f \in Fields : Omitted(told[f])}

\* The status of a body agrees with what is kept under its key, and one that
\* is not whole is reported, and counted where the body is left out.
ToldBodies(n, acc, items, resource, managed) ==
  /\ DOMAIN acc.tool = Fields
  /\ \A f \in Fields :
       /\ acc.tool[f] \in Statuses \cup {"not_recorded"}
       /\ (acc.tool[f] \in Whole <=> ToolContentKeys[f] \in DOMAIN acc.kept)
       /\ (acc.tool[f] \notin {"present", "not_recorded"} => ToolReason(acc.tool[f]) \in acc.reasons)
       /\ ((\A i \in 1..n : items[i].key \notin managed =>
              KeyAt(i, items, resource) # ToolContentKeys[f]) => acc.tool[f] = "not_recorded")
  /\ acc.drops >= Cardinality(OmittedBodies(acc.tool))

\* Bodies of a tool have a status each, or no place.
ToolInv(n, acc, items, resource, tool, managed) ==
  \/ tool = NoTool /\ acc.tool = NoTool
  \/ tool = Unrecorded /\ ToldBodies(n, acc, items, resource, managed)

LEMMA TwoFields ==
  /\ "arguments" \in Fields /\ IsFiniteSet(Fields)
  /\ \A S \in SUBSET Fields : IsFiniteSet(S) /\ Cardinality(S) \in Nat
<1>1. Fields = {"arguments"} \cup {"result"}
  BY DEF Fields, ToolContentKeys
<1>2. IsFiniteSet(Fields)
  BY <1>1, FS_Singleton, FS_AddElement
<1> QED  BY <1>1, <1>2, FS_Subset, FS_CardinalityType

LEMMA ToldIsATool ==
  ASSUME NEW n, NEW acc, NEW items, NEW resource, NEW managed, NEW tool,
         ToolInv(n, acc, items, resource, tool, managed)
  PROVE  (acc.tool = NoTool) <=> (tool = NoTool)
<1>1. CASE tool = NoTool /\ acc.tool = NoTool
  BY <1>1
<1>2. CASE tool = Unrecorded /\ ToldBodies(n, acc, items, resource, managed)
  <2>1. "arguments" \in Fields
    BY TwoFields
  <2>2. tool["arguments"] = "not_recorded" /\ NoTool["arguments"] = "none"
    BY <1>2, <2>1 DEF Unrecorded, NoTool
  <2>3. acc.tool["arguments"] # "none"
    BY <1>2, <2>1 DEF ToldBodies, Statuses
  <2> QED  BY <2>2, <2>3
<1> QED  BY <1>1, <1>2 DEF ToolInv

LEMMA ToolStep ==
  ASSUME NEW items \in RawItems, NEW n \in 0..Len(items) - 1, NEW resource \in BOOLEAN,
         NEW managed, NEW tool, NEW acc, NEW new, IsAcc(acc),
         ToolInv(n, acc, items, resource, tool, managed),
         Step(acc, new, n + 1, items, resource, managed)
  PROVE  ToolInv(n + 1, new, items, resource, tool, managed)
<1> DEFINE key == KeyAt(n + 1, items, resource)
           v == items[n + 1].value
<1>0. n \in Nat /\ n + 1 \in DOMAIN items /\ 1..n \subseteq 1..n + 1
  BY RawItemsFacts
<1>1. IsAcc(new) /\ new.drops >= acc.drops /\ acc.reasons \subseteq new.reasons
      /\ DOMAIN acc.kept \subseteq DOMAIN new.kept /\ acc.drops \in Nat /\ new.drops \in Nat
  BY StepGrows DEF IsAcc, CountsLosses
<1>2. ASSUME new.tool = acc.tool,
             \A f \in Fields : ToolContentKeys[f] \in DOMAIN new.kept =>
               ToolContentKeys[f] \in DOMAIN acc.kept
      PROVE  ToolInv(n + 1, new, items, resource, tool, managed)
  <2>1. CASE tool = NoTool /\ acc.tool = NoTool
    BY <1>2, <2>1 DEF ToolInv
  <2>2. CASE tool = Unrecorded /\ ToldBodies(n, acc, items, resource, managed)
    <3>1. DOMAIN new.tool = Fields
      BY <1>2, <2>2 DEF ToldBodies
    <3>2. ASSUME NEW f \in Fields
          PROVE  /\ new.tool[f] \in Statuses \cup {"not_recorded"}
                 /\ (new.tool[f] \in Whole <=> ToolContentKeys[f] \in DOMAIN new.kept)
                 /\ (new.tool[f] \notin {"present", "not_recorded"} =>
                       ToolReason(new.tool[f]) \in new.reasons)
                 /\ ((\A i \in 1..n + 1 : items[i].key \notin managed =>
                        KeyAt(i, items, resource) # ToolContentKeys[f]) =>
                     new.tool[f] = "not_recorded")
      BY <1>0, <1>1, <1>2, <2>2 DEF ToldBodies
    <3>3. new.drops >= Cardinality(OmittedBodies(new.tool))
      <4>1. acc.drops >= Cardinality(OmittedBodies(acc.tool))
        BY <2>2 DEF ToldBodies
      <4>2. Cardinality(OmittedBodies(acc.tool)) \in Nat
        BY TwoFields DEF OmittedBodies
      <4> QED  BY <1>1, <1>2, <4>1, <4>2
    <3> QED  BY <2>2, <3>1, <3>2, <3>3 DEF ToolInv, ToldBodies
  <2> QED  BY <2>1, <2>2 DEF ToolInv
<1>3. CASE new = acc
  BY <1>2, <1>3
<1>4. CASE items[n + 1].key \notin managed /\ Outcome(acc, new, key, v, resource)
  <2>1. CASE LostItem(acc, new)
    BY <1>2, <2>1 DEF LostItem
  <2>2. ASSUME NEW f \in Fields, NEW status \in Statuses, key = ToolContentKeys[f],
               ToldBody(acc, new, f, status, v)
        PROVE  ToolInv(n + 1, new, items, resource, tool, managed)
    <3>1. tool = Unrecorded /\ ToldBodies(n, acc, items, resource, managed)
      BY <2>2 DEF ToldBody, ToolInv
    <3>2. new.tool = [acc.tool EXCEPT ![f] = status] /\ DOMAIN acc.tool = Fields
      BY <2>2, <3>1 DEF ToldBody, ToldBodies
    <3>3. /\ DOMAIN new.tool = Fields /\ new.tool[f] = status
          /\ \A g \in Fields \ {f} : new.tool[g] = acc.tool[g]
      BY <3>2
    <3>4. acc.tool[f] = "not_recorded"
      <4>1. ASSUME NEW i \in 1..n, items[i].key \notin managed PROVE KeyAt(i, items, resource) # key
        <5>1. i \in DOMAIN items /\ i # n + 1
          BY <1>0, RawItemsFacts
        <5> QED  BY <1>0, <2>2, <5>1, BodiesAreDistinct DEF key
      <4> QED  BY <2>2, <3>1, <4>1 DEF ToldBodies
    <3>5. ToolContentKeys[f] \notin DOMAIN acc.kept
      BY <3>1, <3>4 DEF ToldBodies, Whole
    <3>6. /\ (status \in Whole => DOMAIN new.kept = DOMAIN acc.kept \cup {ToolContentKeys[f]}
                                  /\ new.drops = acc.drops)
          /\ (status \notin Whole => new.kept = acc.kept /\ new.drops = acc.drops + 1)
      BY <2>2 DEF ToldBody, Put
    <3>7. ASSUME NEW g \in Fields
          PROVE  /\ new.tool[g] \in Statuses \cup {"not_recorded"}
                 /\ (new.tool[g] \in Whole <=> ToolContentKeys[g] \in DOMAIN new.kept)
                 /\ (new.tool[g] \notin {"present", "not_recorded"} =>
                       ToolReason(new.tool[g]) \in new.reasons)
                 /\ ((\A i \in 1..n + 1 : items[i].key \notin managed =>
                        KeyAt(i, items, resource) # ToolContentKeys[g]) =>
                     new.tool[g] = "not_recorded")
      <4>1. CASE g = f
        <5>1. new.tool[g] \in Statuses
          BY <3>3, <4>1
        <5>2. new.tool[g] \in Whole <=> ToolContentKeys[g] \in DOMAIN new.kept
          BY <3>3, <3>5, <3>6, <4>1
        <5>3. new.tool[g] # "present" => ToolReason(new.tool[g]) \in new.reasons
          BY <2>2, <3>3, <4>1 DEF ToldBody
        <5>4. n + 1 \in 1..n + 1
          BY <1>0
        <5>5. ~(\A i \in 1..n + 1 : items[i].key \notin managed =>
                  KeyAt(i, items, resource) # ToolContentKeys[g])
          BY <1>4, <2>2, <4>1, <5>4
        <5> QED  BY <5>1, <5>2, <5>3, <5>5
      <4>2. CASE g # f
        <5>1. new.tool[g] = acc.tool[g]
          BY <3>3, <4>2
        <5>2. ToolContentKeys[g] # ToolContentKeys[f]
          BY <4>2, AllowedKeys
        <5>3. ToolContentKeys[g] \in DOMAIN new.kept <=> ToolContentKeys[g] \in DOMAIN acc.kept
          BY <3>6, <5>2
        <5> QED  BY <1>0, <1>1, <3>1, <5>1, <5>3 DEF ToldBodies
      <4> QED  BY <4>1, <4>2
    <3>8. new.drops >= Cardinality(OmittedBodies(new.tool))
      <4>1. acc.drops >= Cardinality(OmittedBodies(acc.tool))
        BY <3>1 DEF ToldBodies
      <4>2. /\ OmittedBodies(acc.tool) \in SUBSET Fields
            /\ OmittedBodies(new.tool) \in SUBSET Fields
        BY DEF OmittedBodies
      <4>3. /\ IsFiniteSet(OmittedBodies(acc.tool)) /\ Cardinality(OmittedBodies(acc.tool)) \in Nat
            /\ Cardinality(OmittedBodies(new.tool)) \in Nat
        BY <4>2, TwoFields
      <4>4. CASE status \in Whole
        <5>1. OmittedBodies(new.tool) \subseteq OmittedBodies(acc.tool)
          BY <3>3, <4>4 DEF OmittedBodies, Omitted
        <5>2. Cardinality(OmittedBodies(new.tool)) <= Cardinality(OmittedBodies(acc.tool))
          BY <4>3, <5>1, FS_Subset
        <5> QED  BY <1>1, <4>1, <4>3, <5>2
      <4>5. CASE status \notin Whole
        <5> DEFINE before == OmittedBodies(acc.tool)
                   more == before \cup {f}
        <5>1. OmittedBodies(new.tool) \subseteq more
          BY <3>3 DEF OmittedBodies
        <5>a. IsFiniteSet(before) /\ Cardinality(before) \in Nat
          BY <4>3
        <5> HIDE DEF before
        <5>b. IsFiniteSet(more) /\ (Cardinality(more) = IF f \in before THEN Cardinality(before)
                                                        ELSE Cardinality(before) + 1)
          BY <5>a, FS_AddElement
        <5>c. IsFiniteSet(more) /\ Cardinality(more) <= Cardinality(before) + 1
          BY <5>a, <5>b
        <5>2. IsFiniteSet(more) /\ Cardinality(more) <= Cardinality(OmittedBodies(acc.tool)) + 1
          BY <5>c DEF before
        <5>3. Cardinality(more) \in Nat
          BY <5>2, FS_CardinalityType
        <5> HIDE DEF more
        <5>4. Cardinality(OmittedBodies(new.tool)) <= Cardinality(more)
          BY <5>1, <5>2, FS_Subset
        <5>5. new.drops = acc.drops + 1
          BY <3>6, <4>5
        <5> QED  BY <1>1, <4>1, <4>3, <5>2, <5>3, <5>4, <5>5
      <4> QED  BY <4>4, <4>5
    <3>9. ToldBodies(n + 1, new, items, resource, managed)
      BY <3>3, <3>7, <3>8 DEF ToldBodies
    <3> QED  BY <3>1, <3>9 DEF ToolInv
  <2>3. ASSUME key \notin ToolBodies, NEW fate, KeptValue(acc, new, key, fate, v)
        PROVE  ToolInv(n + 1, new, items, resource, tool, managed)
    <3>1. new.tool = acc.tool /\ DOMAIN new.kept = DOMAIN acc.kept \cup {key}
      BY <2>3 DEF KeptValue, Put
    <3>2. \A f \in Fields : ToolContentKeys[f] # key
      BY <2>3, AllowedKeys
    <3> QED  BY <1>2, <3>1, <3>2
  <2> QED  BY <1>4, <2>1, <2>2, <2>3 DEF Outcome
<1> QED  BY <1>3, <1>4 DEF Step

----------------------------------------------------------------------------
(* The attributes of a span, an event or a resource.                       *)

\* What n items have made of the accumulator.
AttributesInv(n, acc, items, resource, tool, managed) ==
  /\ IsAcc(acc) /\ KeptInv(acc, items, resource, tool)
  /\ ToolInv(n, acc, items, resource, tool, managed)
  /\ LossInv(n, acc, items, resource, managed)

LEMMA FirstOfFields ==
  ASSUME NEW items, NEW resource, NEW tool
  PROVE  LET first == FirstOf(items, resource, tool)
         IN  /\ IsAcc(first) /\ first.drops = 0 /\ first.cut = FALSE /\ first.reasons = {}
             /\ first.tool = tool
             /\ (~Reserves(items, resource) => DOMAIN first.kept = {})
             /\ (Reserves(items, resource) =>
                   /\ DOMAIN first.kept = {Operation}
                   /\ first.kept[Operation] = OperationOf(items, resource))
<1> DEFINE first == FirstOf(items, resource, tool)
           empty == EmptyAttributes(tool)
<1>1. /\ DOMAIN empty = {"kept", "drops", "cut", "reasons", "tool"}
      /\ empty.kept = [k \in {} |-> "none"] /\ empty.drops = 0 /\ empty.cut = FALSE
      /\ empty.reasons = {} /\ empty.tool = tool
  BY DEF EmptyAttributes
<1>2. first = IF Reserves(items, resource)
              THEN [empty EXCEPT !.kept = Put(empty.kept, Operation, OperationOf(items, resource))]
              ELSE empty
  BY DEF FirstOf
<1> HIDE DEF empty, first
<1>3. CASE ~Reserves(items, resource)
  <2>1. first = empty
    BY <1>2, <1>3
  <2>2. IsAcc(empty)
    <3>1. empty.drops \in Nat
      BY <1>1
    <3>3. empty.cut \in BOOLEAN
      BY <1>1
    <3>2. {"drops", "cut", "reasons"} \subseteq DOMAIN empty /\ "kept" \in DOMAIN empty
          /\ "tool" \in DOMAIN empty
      BY <1>1
    <3> QED  BY <3>1, <3>2, <3>3 DEF IsAcc, CountsLosses
  <2> QED  BY <1>1, <1>3, <2>1, <2>2 DEF first
<1>4. CASE Reserves(items, resource)
  <2>1. first = [empty EXCEPT !.kept = Put(empty.kept, Operation, OperationOf(items, resource))]
    BY <1>2, <1>4
  <2>2. /\ DOMAIN first = DOMAIN empty /\ first.drops = 0 /\ first.cut = FALSE
        /\ first.reasons = {} /\ first.tool = tool
        /\ first.kept = Put(empty.kept, Operation, OperationOf(items, resource))
    BY <1>1, <2>1
  <2>3. IsAcc(first)
    <3>1. first.drops \in Nat
      BY <2>2
    <3>3. first.cut \in BOOLEAN
      BY <2>2
    <3>2. {"drops", "cut", "reasons"} \subseteq DOMAIN first /\ "kept" \in DOMAIN first
          /\ "tool" \in DOMAIN first
      BY <1>1, <2>2
    <3> QED  BY <3>1, <3>2, <3>3 DEF IsAcc, CountsLosses
  <2>4. DOMAIN first.kept = {Operation} /\ first.kept[Operation] = OperationOf(items, resource)
    BY <1>1, <2>2 DEF Put
  <2> QED  BY <1>4, <2>2, <2>3, <2>4 DEF first
<1> QED  BY <1>3, <1>4

LEMMA FirstOfInv ==
  ASSUME NEW items, NEW resource \in BOOLEAN, NEW tool \in {NoTool, Unrecorded}, NEW managed
  PROVE  AttributesInv(0, FirstOf(items, resource, tool), items, resource, tool, managed)
<1> DEFINE first == FirstOf(items, resource, tool)
<1>1. /\ IsAcc(first) /\ first.drops = 0 /\ first.cut = FALSE /\ first.reasons = {}
      /\ first.tool = tool
      /\ (~Reserves(items, resource) => DOMAIN first.kept = {})
      /\ (Reserves(items, resource) => /\ DOMAIN first.kept = {Operation}
                                       /\ first.kept[Operation] = OperationOf(items, resource))
  BY FirstOfFields
<1> HIDE DEF first
<1>2. Reserves(items, resource) => resource = FALSE
  BY DEF Reserves, OperationOf, ReservedOperations, ModelOperations
<1>3. KeptInv(first, items, resource, tool)
  BY <1>1, <1>2, AllowedKeys DEF KeptInv
<1>4. ToolInv(0, first, items, resource, tool, managed)
  <2>1. CASE tool = NoTool
    BY <1>1, <2>1 DEF ToolInv
  <2>2. CASE tool = Unrecorded
    <3>1. DOMAIN first.tool = Fields /\ \A f \in Fields : first.tool[f] = "not_recorded"
      BY <1>1, <2>2 DEF Unrecorded
    <3>2. \A f \in Fields : ToolContentKeys[f] \notin DOMAIN first.kept
      BY <1>1, AllowedKeys
    <3>3. OmittedBodies(first.tool) = {}
      BY <3>1 DEF OmittedBodies, Omitted
    <3>4. first.drops >= Cardinality(OmittedBodies(first.tool))
      BY <1>1, <3>3, FS_EmptySet
    <3> QED  BY <2>2, <3>1, <3>2, <3>4 DEF ToolInv, ToldBodies, Whole
  <2> QED  BY <2>1, <2>2
<1>5. LossInv(0, first, items, resource, managed)
  <2>1. 1..0 = {}
    OBVIOUS
  <2>2. LostAmong(0, first, items, resource, managed) = {}
    BY <2>1 DEF LostAmong
  <2>3. first.drops >= Cardinality(LostAmong(0, first, items, resource, managed))
    BY <1>1, <2>2, FS_EmptySet
  <2> QED  BY <1>1, <2>1, <2>3 DEF LossInv
<1> QED  BY <1>1, <1>3, <1>4, <1>5 DEF AttributesInv, first

LEMMA TakenAt ==
  ASSUME NEW items \in RawItems, NEW resource, NEW tool, NEW managed
  PROVE  \A n \in 0..Len(items) - 1 :
           TakenUpTo(n + 1, items, resource, tool, managed) =
             TakeItem(TakenUpTo(n, items, resource, tool, managed), items[n + 1], items, resource, managed)
<1>1. Len(items) \in Nat /\ DOMAIN items = 1..Len(items)
  BY RawItemsFacts
<1> QED  BY <1>1, TakenSteps

LEMMA TakenInv ==
  ASSUME NEW items \in RawItems, NEW resource \in BOOLEAN, NEW tool \in {NoTool, Unrecorded},
         NEW managed
  PROVE  AttributesInv(Len(items), TakenItems(items, resource, tool, managed),
                       items, resource, tool, managed)
<1> DEFINE inv(n) == AttributesInv(n, TakenUpTo(n, items, resource, tool, managed),
                                   items, resource, tool, managed)
           good == {n \in Nat : n <= Len(items) => inv(n)}
<1>0. Len(items) \in Nat /\ DOMAIN items = 1..Len(items)
  BY RawItemsFacts
<1>a. \A n \in 0..Len(items) - 1 :
        TakenUpTo(n + 1, items, resource, tool, managed) =
          TakeItem(TakenUpTo(n, items, resource, tool, managed), items[n + 1], items, resource, managed)
  BY TakenAt
<1>1. inv(0)
  <2>1. TakenUpTo(0, items, resource, tool, managed) = FirstOf(items, resource, tool)
    BY <1>0, TakenSteps
  <2> QED  BY <2>1, FirstOfInv
<1>2. ASSUME NEW n \in Nat, n \in good PROVE n + 1 \in good
  <2>1. SUFFICES ASSUME n + 1 <= Len(items) PROVE inv(n + 1)
    OBVIOUS
  <2> DEFINE acc == TakenUpTo(n, items, resource, tool, managed)
             new == TakenUpTo(n + 1, items, resource, tool, managed)
  <2>2. n \in 0..Len(items) - 1 /\ n + 1 \in DOMAIN items /\ inv(n)
    BY <1>0, <1>2, <2>1
  <2>3. new = TakeItem(acc, items[n + 1], items, resource, managed)
    BY <1>a, <2>2
  <2>4. /\ IsAcc(acc) /\ KeptInv(acc, items, resource, tool)
        /\ ToolInv(n, acc, items, resource, tool, managed)
        /\ LossInv(n, acc, items, resource, managed)
    BY <2>2 DEF AttributesInv
  <2> HIDE DEF acc, new
  <2>5. Step(acc, new, n + 1, items, resource, managed)
    BY <2>2, <2>3, <2>4, TakeItemSteps
  <2>6. IsAcc(new)
    BY <2>4, <2>5, StepGrows
  <2>7. KeptInv(new, items, resource, tool)
    <3>1. (acc.tool = NoTool) <=> (tool = NoTool)
      BY <2>4, ToldIsATool
    <3> QED  BY <2>2, <2>4, <2>5, <3>1, KeptStep
  <2>8. ToolInv(n + 1, new, items, resource, tool, managed)
    BY <2>2, <2>4, <2>5, ToolStep
  <2>9. LossInv(n + 1, new, items, resource, managed)
    BY <2>2, <2>4, <2>5, LossStep
  <2> QED  BY <2>6, <2>7, <2>8, <2>9 DEF AttributesInv, new
<1>3. 0 \in good
  BY <1>1
<1> HIDE DEF good
<1>4. Nat \subseteq good
  BY <1>2, <1>3, SetInduction
<1>5. Len(items) \in good
  BY <1>0, <1>4
<1>6. inv(Len(items))
  BY <1>0, <1>5 DEF good
<1> QED  BY <1>0, <1>6, TakenSteps

\* Something is reported, and perhaps counted, but nothing else changes.
Reported(acc, new) ==
  /\ IsAcc(new) /\ new.kept = acc.kept /\ new.tool = acc.tool /\ new.drops >= acc.drops
  /\ acc.reasons \subseteq new.reasons /\ new.reasons # {}

LEMMA ReportedInv ==
  ASSUME NEW items, NEW n \in Nat, NEW resource, NEW managed, NEW tool, NEW acc, NEW new,
         AttributesInv(n, acc, items, resource, tool, managed), Reported(acc, new)
  PROVE  AttributesInv(n, new, items, resource, tool, managed)
<1>0. acc.drops \in Nat /\ new.drops \in Nat /\ new.drops >= acc.drops
  BY DEF AttributesInv, Reported, IsAcc, CountsLosses
<1>1. KeptInv(new, items, resource, tool)
  BY DEF AttributesInv, Reported, KeptInv
<1>2. ToolInv(n, new, items, resource, tool, managed)
  <2>1. CASE tool = NoTool /\ acc.tool = NoTool
    BY <2>1 DEF Reported, ToolInv
  <2>2. CASE tool = Unrecorded /\ ToldBodies(n, acc, items, resource, managed)
    <3>1. acc.drops >= Cardinality(OmittedBodies(acc.tool))
      BY <2>2 DEF ToldBodies
    <3>2. Cardinality(OmittedBodies(acc.tool)) \in Nat
      BY TwoFields DEF OmittedBodies
    <3>3. new.drops >= Cardinality(OmittedBodies(new.tool))
      BY <1>0, <3>1, <3>2 DEF Reported
    <3> QED  BY <2>2, <3>3 DEF Reported, ToolInv, ToldBodies
  <2> QED  BY <2>1, <2>2 DEF AttributesInv, ToolInv
<1>3. LossInv(n, new, items, resource, managed)
  <2> DEFINE lost == LostAmong(n, acc, items, resource, managed)
  <2>1. LostAmong(n, new, items, resource, managed) = lost
    BY DEF Reported, LostAmong
  <2>2. lost \subseteq 1..n
    BY DEF LostAmong
  <2>3. acc.drops >= Cardinality(lost)
    BY DEF AttributesInv, LossInv
  <2> HIDE DEF lost
  <2>4. IsFiniteSet(1..n)
    BY FS_Interval
  <2>5. Cardinality(lost) \in Nat
    BY <2>2, <2>4, FS_Subset, FS_CardinalityType
  <2>6. new.drops >= Cardinality(lost)
    BY <1>0, <2>3, <2>5
  <2> QED  BY <2>1, <2>6 DEF Reported, LossInv
<1> QED  BY <1>1, <1>2, <1>3 DEF AttributesInv, Reported

LEMMA LostIsReported == ASSUME NEW acc, NEW new, IsAcc(acc), LostItem(acc, new) PROVE Reported(acc, new)
<1>1. acc.drops \in Nat /\ new.drops \in Nat
  BY DEF LostItem, IsAcc, CountsLosses
<1>2. new.drops >= acc.drops
  BY <1>1 DEF LostItem
<1> QED  BY <1>2 DEF LostItem, Reported

\* Whatever form the attributes have, what is made of them satisfies the
\* invariant of their items.
LEMMA SafeAttributesInv ==
  ASSUME NEW attributes \in RawAttributes, NEW resource \in BOOLEAN,
         NEW tool \in {NoTool, Unrecorded}, NEW managed
  PROVE  /\ attributes.items \in RawItems
         /\ AttributesInv(Len(attributes.items),
                          SafeAttributes(attributes, resource, tool, managed),
                          attributes.items, resource, tool, managed)
<1> DEFINE items == attributes.items
           inv(a) == AttributesInv(Len(items), a, items, resource, tool, managed)
           made == SafeAttributes(attributes, resource, tool, managed)
           taken == TakenItems(items, resource, tool, managed)
           empty == EmptyAttributes(tool)
<1>1. /\ items \in RawItems /\ attributes.breaks \in BOOLEAN
      /\ attributes.form \in {"absent", "mapping", "other", "raises"}
      /\ (attributes.form # "mapping" => items = <<>>)
  BY DEF RawAttributes
<1>2. made = CASE attributes.form = "absent" -> empty
               [] attributes.form = "raises" -> [empty EXCEPT !.reasons = {"trace_attribute_invalid"}]
               [] attributes.form = "other" -> LosesItem(empty, TRUE, "trace_attribute_invalid")
               [] OTHER -> BrokenOff(attributes.breaks, taken, "trace_attribute_invalid")
  BY DEF SafeAttributes, TakenItems
<1>3. inv(taken) /\ Len(items) \in Nat
  BY <1>1, TakenInv, RawItemsFacts
<1>4. ASSUME NEW acc, inv(acc), NEW cut \in BOOLEAN, NEW reason PROVE inv(LosesItem(acc, cut, reason))
  <2>1. IsAcc(acc)
    BY <1>4 DEF AttributesInv
  <2>2. Reported(acc, LosesItem(acc, cut, reason))
    BY <2>1, LosesItemIsLost, LostIsReported
  <2> QED  BY <1>3, <1>4, <2>2, ReportedInv
<1>5. ASSUME attributes.form # "mapping" PROVE inv(empty)
  <2>1. items = <<>> /\ Len(items) = 0 /\ DOMAIN items = {}
    BY <1>1, <1>5
  <2>2. ~Reserves(items, resource)
    BY <2>1 DEF Reserves, OperationOf, ObservedOperation, KeysOf, ReservedOperations, ModelOperations
  <2>3. FirstOf(items, resource, tool) = empty
    BY <2>2 DEF FirstOf
  <2>4. AttributesInv(0, FirstOf(items, resource, tool), items, resource, tool, managed)
    BY FirstOfInv
  <2> HIDE DEF items, empty
  <2> QED  BY <2>1, <2>3, <2>4
<1>6. inv(made)
  <2>1. CASE attributes.form = "absent"
    <3>1. made = empty
      BY <1>2, <2>1
    <3> QED  BY <1>5, <2>1, <3>1
  <2>2. CASE attributes.form = "raises"
    <3> DEFINE told == [empty EXCEPT !.reasons = {"trace_attribute_invalid"}]
    <3>1. made = told
      BY <1>2, <2>2
    <3>2. inv(empty) /\ IsAcc(empty)
      BY <1>5, <2>2 DEF AttributesInv
    <3>3. empty.reasons = {} /\ empty.drops = 0
      BY DEF EmptyAttributes
    <3> HIDE DEF empty, made
    <3>4. /\ DOMAIN told = DOMAIN empty /\ told.kept = empty.kept /\ told.tool = empty.tool
          /\ told.drops = empty.drops /\ told.cut = empty.cut
          /\ told.reasons = {"trace_attribute_invalid"}
      BY <3>2 DEF IsAcc, CountsLosses
    <3> HIDE DEF told
    <3>5. IsAcc(told)
      BY <3>2, <3>4 DEF IsAcc, CountsLosses
    <3>6. Reported(empty, told)
      BY <3>3, <3>4, <3>5 DEF Reported
    <3>7. inv(told)
      BY <1>3, <3>2, <3>6, ReportedInv
    <3> QED  BY <3>1, <3>7
  <2>3. CASE attributes.form = "other"
    <3>1. made = LosesItem(empty, TRUE, "trace_attribute_invalid")
      BY <1>2, <2>3
    <3>2. inv(empty)
      BY <1>5, <2>3
    <3> HIDE DEF inv, empty, made
    <3> QED  BY <1>4, <3>1, <3>2
  <2>4. CASE attributes.form = "mapping"
    <3>1. made = BrokenOff(attributes.breaks, taken, "trace_attribute_invalid")
      BY <1>2, <2>4
    <3> HIDE DEF inv, taken, made
    <3>2. CASE attributes.breaks = TRUE
      <4>1. made = LosesItem(taken, TRUE, "trace_attribute_invalid")
        BY <3>1, <3>2 DEF BrokenOff
      <4> QED  BY <1>3, <1>4, <4>1
    <3>3. CASE attributes.breaks = FALSE
      BY <1>3, <3>1, <3>3 DEF BrokenOff
    <3> QED  BY <1>1, <3>2, <3>3
  <2> QED  BY <1>1, <2>1, <2>2, <2>3, <2>4
<1> QED  BY <1>1, <1>6

----------------------------------------------------------------------------
(* Events and links.                                                       *)

IsSequence(s) == \E S : s \in Seq(S)

LEMMA AppendedTo ==
  ASSUME NEW s, IsSequence(s), NEW e
  PROVE  /\ IsSequence(Append(s, e)) /\ Len(s) \in Nat /\ DOMAIN s = 1..Len(s)
         /\ Len(Append(s, e)) = Len(s) + 1 /\ DOMAIN Append(s, e) = 1..Len(s) + 1
         /\ \A i \in 1..Len(s) : Append(s, e)[i] = s[i]
         /\ Append(s, e)[Len(s) + 1] = e
<1>1. PICK S : s \in Seq(S)
  BY DEF IsSequence
<1>2. s \in Seq(S \cup {e}) /\ e \in S \cup {e}
  <2>1. Len(s) \in Nat /\ DOMAIN s = 1..Len(s) /\ s \in [1..Len(s) -> S]
    BY <1>1, LenProperties
  <2>2. s \in [1..Len(s) -> S \cup {e}]
    BY <2>1
  <2> QED  BY <2>1, <2>2, SeqDef
<1>3. Append(s, e) \in Seq(S \cup {e})
  BY <1>2, AppendProperties
<1>4. IsSequence(Append(s, e))
  BY <1>3 DEF IsSequence
<1> QED  BY <1>2, <1>4, AppendProperties

LEMMA UptoFacts ==
  ASSUME NEW S, NEW items \in Seq(S), NEW limit \in Nat
  PROVE  /\ Upto(items, limit) \in Seq(S)
         /\ Len(Upto(items, limit)) = (IF Len(items) > limit THEN limit ELSE Len(items))
         /\ (Len(items) <= limit => Upto(items, limit) = items)
<1> DEFINE last == IF Len(items) > limit THEN limit ELSE Len(items)
<1>1. Len(items) \in Nat /\ \A i \in 1..Len(items) : items[i] \in S
  BY LenProperties, ElementOfSeq
<1>2. last \in Nat /\ last <= Len(items) /\ (Len(items) <= limit => last = Len(items))
  BY <1>1
<1>3. Upto(items, limit) = SubSeq(items, 1, last)
  BY DEF Upto
<1> HIDE DEF last
<1>4. \A i \in 1..last : items[i] \in S
  BY <1>1, <1>2
<1>5. SubSeq(items, 1, last) \in Seq(S)
      /\ Len(SubSeq(items, 1, last)) = (IF 1 <= last THEN last - 1 + 1 ELSE 0)
  BY <1>2, <1>4, SubSeqProperties
<1>6. Len(SubSeq(items, 1, last)) = last
  BY <1>2, <1>5
<1>7. Len(items) <= limit => SubSeq(items, 1, last) = items
  BY <1>2, SubSeqFull
<1> QED  BY <1>3, <1>5, <1>6, <1>7 DEF last

\* Of the first n events each is mapped, with attributes that may be there, or
\* counted; where nothing is reported, all are mapped.
EventsInv(n, acc) ==
  /\ CountsLosses(acc) /\ "mapped" \in DOMAIN acc /\ IsSequence(acc.mapped)
  /\ \A i \in DOMAIN acc.mapped : ValidAttributes(acc.mapped[i], FALSE, FALSE)
  /\ acc.drops + Len(acc.mapped) >= n
  /\ (acc.reasons = {} => acc.drops = 0 /\ acc.cut = FALSE /\ Len(acc.mapped) = n)

LEMMA EventLost ==
  ASSUME NEW n \in Nat, NEW acc, EventsInv(n, acc), NEW cut \in BOOLEAN, NEW reason
  PROVE  LET new == LosesItem(acc, cut, reason)
         IN  EventsInv(n, new) /\ EventsInv(n + 1, new) /\ new.mapped = acc.mapped
<1> DEFINE new == LosesItem(acc, cut, reason)
<1>1. CountsLosses(acc) /\ acc.drops \in Nat /\ "mapped" \in DOMAIN acc \ {"drops", "cut", "reasons"}
      /\ Len(acc.mapped) \in Nat
  BY AppendedTo DEF EventsInv, CountsLosses
<1>2. /\ CountsLosses(new) /\ DOMAIN new = DOMAIN acc /\ new.drops = acc.drops + 1
      /\ new.reasons = acc.reasons \cup {reason} /\ new.mapped = acc.mapped
  BY <1>1, LosesItemFields
<1> HIDE DEF new
<1>3. acc.drops + Len(acc.mapped) >= n
  BY DEF EventsInv
<1>4. new.drops + Len(new.mapped) >= n /\ new.drops + Len(new.mapped) >= n + 1
  BY <1>1, <1>2, <1>3
<1>5. new.reasons # {}
  BY <1>2
<1>6. EventsInv(n, new) /\ EventsInv(n + 1, new)
  BY <1>1, <1>2, <1>4, <1>5 DEF EventsInv
<1> QED  BY <1>2, <1>6 DEF new

LEMMA EventMapped ==
  ASSUME NEW n \in Nat, NEW acc, EventsInv(n, acc), NEW name \in Leaf, NEW a, IsAcc(a),
         ValidAttributes(a.kept, FALSE, FALSE),
         a.reasons = {} => a.drops = 0 /\ a.cut = FALSE
  PROVE  EventsInv(n + 1, WithEvent(acc, a, SafeLeaf(name)))
<1> DEFINE s == SafeLeaf(name)
           new == WithEvent(acc, a, s)
           told == IF s.cut THEN {"trace_value_truncated"} ELSE {}
<1>0. s.cut \in BOOLEAN
  BY SafeLeafFacts DEF LeafRead
<1> HIDE DEF s
<1>1. /\ DOMAIN new = {"mapped", "drops", "cut", "reasons"}
      /\ new.mapped = Append(acc.mapped, a.kept) /\ new.drops = acc.drops + a.drops
      /\ new.cut = (acc.cut \/ a.cut \/ s.cut)
      /\ new.reasons = acc.reasons \cup a.reasons \cup told
  BY DEF WithEvent
<1> HIDE DEF new
<1>2. acc.drops \in Nat /\ a.drops \in Nat /\ acc.cut \in BOOLEAN /\ a.cut \in BOOLEAN
  BY DEF EventsInv, IsAcc, CountsLosses
<1>3. new.drops \in Nat
  BY <1>1, <1>2
<1>4. new.cut \in BOOLEAN
  BY <1>0, <1>1, <1>2
<1>5. CountsLosses(new) /\ "mapped" \in DOMAIN new
  BY <1>1, <1>3, <1>4 DEF CountsLosses
<1>6. /\ IsSequence(new.mapped) /\ Len(acc.mapped) \in Nat /\ Len(new.mapped) = Len(acc.mapped) + 1
      /\ DOMAIN acc.mapped = 1..Len(acc.mapped) /\ DOMAIN new.mapped = 1..Len(acc.mapped) + 1
      /\ \A i \in 1..Len(acc.mapped) : new.mapped[i] = acc.mapped[i]
      /\ new.mapped[Len(acc.mapped) + 1] = a.kept
  BY <1>1, AppendedTo DEF EventsInv
<1>7. ASSUME NEW i \in DOMAIN new.mapped PROVE ValidAttributes(new.mapped[i], FALSE, FALSE)
  <2>1. CASE i = Len(acc.mapped) + 1
    BY <1>6, <2>1
  <2>2. CASE i # Len(acc.mapped) + 1
    <3>1. i \in 1..Len(acc.mapped)
      BY <1>6, <2>2
    <3> QED  BY <1>6, <3>1 DEF EventsInv
  <2> QED  BY <2>1, <2>2
<1>8. new.drops + Len(new.mapped) >= n + 1
  <2>1. acc.drops + Len(acc.mapped) >= n
    BY DEF EventsInv
  <2> QED  BY <1>1, <1>2, <1>6, <2>1
<1>9. ASSUME new.reasons = {} PROVE new.drops = 0 /\ new.cut = FALSE /\ Len(new.mapped) = n + 1
  <2>1. acc.reasons = {} /\ a.reasons = {} /\ told = {}
    <3> HIDE DEF told
    <3> QED  BY <1>1, <1>9
  <2>2. s.cut = FALSE
    BY <1>0, <2>1
  <2>3. acc.drops = 0 /\ acc.cut = FALSE /\ Len(acc.mapped) = n
    BY <2>1 DEF EventsInv
  <2>4. a.drops = 0 /\ a.cut = FALSE
    BY <2>1
  <2>5. new.drops = 0
    BY <1>1, <2>3, <2>4
  <2>6. new.cut = FALSE
    BY <1>1, <2>2, <2>3, <2>4
  <2>7. Len(new.mapped) = n + 1
    BY <1>6, <2>3
  <2> QED  BY <2>5, <2>6, <2>7
<1>10. EventsInv(n + 1, new)
  BY <1>5, <1>6, <1>7, <1>8, <1>9 DEF EventsInv
<1> QED  BY <1>10 DEF new, s

LEMMA EventStep ==
  ASSUME NEW n \in Nat, NEW acc, EventsInv(n, acc), NEW event \in RawEvent
  PROVE  EventsInv(n + 1, MapEvent(acc, event))
<1> DEFINE a == SafeAttributes(event.attributes, FALSE, NoTool, {})
           items == event.attributes.items
<1>1. event.broken \in BOOLEAN /\ event.name \in Leaf /\ event.attributes \in RawAttributes
  BY DEF RawEvent
<1>2. CASE event.broken \/ event.attributes.form = "raises"
  BY <1>2, EventLost DEF MapEvent
<1>3. CASE ~(event.broken \/ event.attributes.form = "raises")
  <2>1. AttributesInv(Len(items), a, items, FALSE, NoTool, {})
    BY <1>1, SafeAttributesInv
  <2>2. MapEvent(acc, event) = WithEvent(acc, a, SafeLeaf(event.name))
    BY <1>3 DEF MapEvent
  <2> HIDE DEF a
  <2>3. IsAcc(a)
    BY <2>1 DEF AttributesInv
  <2>4. ValidAttributes(a.kept, FALSE, FALSE)
    BY <2>1 DEF AttributesInv, KeptInv, ValidAttributes
  <2>5. a.reasons = {} => a.drops = 0 /\ a.cut = FALSE
    BY <2>1 DEF AttributesInv, LossInv
  <2> QED  BY <1>1, <2>2, <2>3, <2>4, <2>5, EventMapped
<1> QED  BY <1>2, <1>3

LEMMA NoEventsInv == EventsInv(0, NoEvents)
<1>1. /\ DOMAIN NoEvents = {"mapped", "drops", "cut", "reasons"} /\ NoEvents.mapped = <<>>
      /\ NoEvents.drops = 0 /\ NoEvents.cut = FALSE /\ NoEvents.reasons = {}
  BY DEF NoEvents
<1>2. /\ IsSequence(<<>>) /\ Len(<<>>) = 0 /\ DOMAIN <<>> = {}
  <2>1. <<>> \in Seq({})
    OBVIOUS
  <2> QED  BY <2>1 DEF IsSequence
<1>3. NoEvents.drops \in Nat
  BY <1>1
<1>4. NoEvents.cut \in BOOLEAN
  BY <1>1
<1>5. CountsLosses(NoEvents) /\ "mapped" \in DOMAIN NoEvents
  BY <1>1, <1>3, <1>4 DEF CountsLosses
<1>6. NoEvents.drops + Len(NoEvents.mapped) >= 0
  BY <1>1, <1>2
<1> QED  BY <1>1, <1>2, <1>5, <1>6 DEF EventsInv

LEMMA ListedAt ==
  ASSUME NEW S, NEW events \in Seq(S)
  PROVE  \A n \in 0..Len(events) - 1 :
           ListedUpTo(n + 1, events) = MapEvent(ListedUpTo(n, events), events[n + 1])
<1>1. Len(events) \in Nat /\ DOMAIN events = 1..Len(events)
  BY LenProperties
<1> QED  BY <1>1, ListedSteps

LEMMA ListedInv ==
  ASSUME NEW events \in Seq(RawEvent)
  PROVE  EventsInv(Len(events), FoldLeft(MapEvent, NoEvents, events))
<1> DEFINE inv(n) == EventsInv(n, ListedUpTo(n, events))
           good == {n \in Nat : n <= Len(events) => inv(n)}
<1>0. Len(events) \in Nat /\ DOMAIN events = 1..Len(events)
  BY LenProperties
<1>1. \A n \in 0..Len(events) - 1 :
        ListedUpTo(n + 1, events) = MapEvent(ListedUpTo(n, events), events[n + 1])
  BY ListedAt
<1>2. inv(0)
  <2>1. ListedUpTo(0, events) = NoEvents
    BY <1>0, ListedSteps
  <2> QED  BY <2>1, NoEventsInv
<1>3. ASSUME NEW n \in Nat, n \in good PROVE n + 1 \in good
  <2>1. SUFFICES ASSUME n + 1 <= Len(events) PROVE inv(n + 1)
    OBVIOUS
  <2>2. n \in 0..Len(events) - 1 /\ n + 1 \in 1..Len(events) /\ inv(n)
    BY <1>0, <1>3, <2>1
  <2>3. events[n + 1] \in RawEvent
    BY <2>2, ElementOfSeq
  <2>4. ListedUpTo(n + 1, events) = MapEvent(ListedUpTo(n, events), events[n + 1])
    BY <1>1, <2>2
  <2>5. EventsInv(n + 1, MapEvent(ListedUpTo(n, events), events[n + 1]))
    BY <2>2, <2>3, EventStep
  <2> QED  BY <2>4, <2>5
<1>4. 0 \in good
  BY <1>2
<1> HIDE DEF good
<1>5. Nat \subseteq good
  BY <1>3, <1>4, SetInduction
<1>6. inv(Len(events))
  BY <1>0, <1>5 DEF good
<1> QED  BY <1>0, <1>6, ListedSteps

\* What is made of a source of n things: as many are counted as are not mapped,
\* if the source told how many it holds, and none is missing where nothing is
\* reported.
SourceMapped(source, made) ==
  /\ CountsLosses(made) /\ Len(made.mapped) \in Nat
  /\ (source.sized = TRUE => made.drops + Len(made.mapped) >= Len(source.items))
  /\ (made.reasons = {} => made.drops = 0 /\ Len(made.mapped) = Len(source.items))

LEMMA MapEventsFacts ==
  ASSUME NEW source \in RawSource(RawEvent)
  PROVE  LET made == MapEvents(source)
         IN  /\ SourceMapped(source, made) /\ IsSequence(made.mapped)
             /\ \A i \in DOMAIN made.mapped : ValidAttributes(made.mapped[i], FALSE, FALSE)
             /\ (made.reasons = {} => made.cut = FALSE)
<1> DEFINE made == MapEvents(source)
           items == source.items
           upto == Upto(items, MaxEvents)
           taken == FoldLeft(MapEvent, NoEvents, upto)
           over == Overflow(source, MaxEvents)
           breaks == Broken(source, MaxEvents)
           rest == WithRest(taken, over, breaks)
           fine(m) == /\ SourceMapped(source, m) /\ IsSequence(m.mapped)
                      /\ \A i \in DOMAIN m.mapped : ValidAttributes(m.mapped[i], FALSE, FALSE)
                      /\ (m.reasons = {} => m.cut = FALSE)
<1>1. /\ source.form \in {"sequence", "other", "raises"} /\ items \in Seq(RawEvent)
      /\ source.sized \in BOOLEAN /\ source.breaks \in BOOLEAN
      /\ (source.form # "sequence" => items = <<>>)
  BY DEF RawSource
<1>2. Len(items) \in Nat /\ MaxEvents \in Nat
  BY <1>1, LenProperties, MappingAssumption
<1>3. /\ upto \in Seq(RawEvent) /\ Len(upto) = (IF Len(items) > MaxEvents THEN MaxEvents ELSE Len(items))
      /\ (Len(items) <= MaxEvents => upto = items)
  BY <1>1, <1>2, UptoFacts
<1>4. EventsInv(Len(upto), taken)
  BY <1>3, ListedInv
<1>5. made = CASE source.form = "raises" -> [NoEvents EXCEPT !.reasons = {"trace_event_invalid"}]
               [] source.form = "other" -> LosesItem(NoEvents, TRUE, "trace_event_invalid")
               [] OTHER -> rest
  BY DEF MapEvents
<1>6. ASSUME NEW m, EventsInv(Len(items), m) PROVE fine(m)
  <2>1. Len(m.mapped) \in Nat
    BY <1>6, AppendedTo DEF EventsInv
  <2>2. SourceMapped(source, m)
    BY <1>6, <2>1 DEF EventsInv, SourceMapped
  <2> QED  BY <1>6, <2>2 DEF EventsInv
<1>7. source.form # "sequence" => Len(items) = 0
  BY <1>1
<1>8. CASE source.form = "raises"
  <2> DEFINE told == [NoEvents EXCEPT !.reasons = {"trace_event_invalid"}]
  <2>1. made = told
    BY <1>5, <1>8
  <2>2. /\ DOMAIN told = DOMAIN NoEvents /\ told.mapped = NoEvents.mapped
        /\ told.drops = NoEvents.drops /\ told.cut = NoEvents.cut
        /\ told.reasons = {"trace_event_invalid"}
    BY DEF NoEvents
  <2> HIDE DEF told
  <2>3. CountsLosses(told)
    BY <2>2, NoEventsInv DEF EventsInv, CountsLosses
  <2>4. EventsInv(0, told)
    BY <2>2, <2>3, NoEventsInv DEF EventsInv
  <2>5. fine(told)
    <3> HIDE DEF fine, items
    <3> QED  BY <1>6, <1>7, <1>8, <2>4
  <2> HIDE DEF made
  <2> QED  BY <2>1, <2>5 DEF made
<1>9. CASE source.form = "other"
  <2> DEFINE told == LosesItem(NoEvents, TRUE, "trace_event_invalid")
  <2>1. made = told
    BY <1>5, <1>9
  <2>2. EventsInv(0, told)
    BY NoEventsInv, EventLost
  <2> HIDE DEF told
  <2>3. fine(told)
    <3> HIDE DEF fine, items
    <3> QED  BY <1>6, <1>7, <1>9, <2>2
  <2> HIDE DEF made
  <2> QED  BY <2>1, <2>3 DEF made
<1>10. CASE source.form = "sequence"
  <2>1. made = rest
    BY <1>5, <1>10
  <2>2. CASE Len(items) <= MaxEvents
    <3>1. over = 0 /\ Len(upto) = Len(items) /\ EventsInv(Len(items), taken)
      BY <1>2, <1>3, <1>4, <2>2 DEF Overflow
    <3>2. made = BrokenOff(breaks, taken, "trace_event_invalid")
      <4> HIDE DEF made, taken, breaks, over
      <4>1. ~(over > 0)
        BY <3>1
      <4> QED  BY <2>1, <4>1 DEF WithRest
    <3> HIDE DEF made, taken, breaks
    <3>3. CASE breaks
      <4>1. made = LosesItem(taken, TRUE, "trace_event_invalid")
        BY <3>2, <3>3 DEF BrokenOff
      <4>2. EventsInv(Len(items), made)
        BY <1>2, <3>1, <4>1, EventLost
      <4>3. fine(made)
        BY <1>6, <4>2
      <4> QED  BY <4>3 DEF made
    <3>4. CASE ~breaks
      <4>1. made = taken
        BY <3>2, <3>4 DEF BrokenOff
      <4>2. EventsInv(Len(items), made)
        BY <3>1, <4>1
      <4>3. fine(made)
        BY <1>6, <4>2
      <4> QED  BY <4>3 DEF made
    <3> QED  BY <3>3, <3>4
  <2>3. CASE Len(items) > MaxEvents
    <3>1. /\ over = (IF source.sized THEN Len(items) - MaxEvents ELSE 1)
          /\ Len(upto) = MaxEvents
      BY <1>2, <1>3, <2>3 DEF Overflow
    <3>2. over \in Nat /\ over > 0 /\ (source.sized = TRUE => over = Len(items) - MaxEvents)
      <4> HIDE DEF over
      <4> QED  BY <1>1, <1>2, <2>3, <3>1
    <3>3. EventsInv(MaxEvents, taken)
      BY <1>4, <3>1
    <3>4. /\ CountsLosses(taken) /\ "mapped" \in DOMAIN taken /\ IsSequence(taken.mapped)
          /\ \A i \in DOMAIN taken.mapped : ValidAttributes(taken.mapped[i], FALSE, FALSE)
          /\ taken.drops + Len(taken.mapped) >= MaxEvents /\ taken.drops \in Nat
      BY <3>3 DEF EventsInv, CountsLosses
    <3>5. Len(taken.mapped) \in Nat
      BY <3>4, AppendedTo
    <3> DEFINE told == [taken EXCEPT !.drops = taken.drops + over, !.cut = TRUE,
                          !.reasons = taken.reasons \cup {"trace_event_limit"}]
    <3> HIDE DEF taken, over, made
    <3>6. made = told
      BY <2>1, <3>2 DEF WithRest
    <3>7. /\ DOMAIN told = DOMAIN taken /\ told.mapped = taken.mapped /\ told.cut = TRUE
          /\ told.drops = taken.drops + over
          /\ told.reasons = taken.reasons \cup {"trace_event_limit"}
      BY <3>4 DEF CountsLosses
    <3> HIDE DEF told
    <3>8. told.drops \in Nat
      BY <3>2, <3>4, <3>7
    <3>9. told.cut \in BOOLEAN
      BY <3>7
    <3>10. CountsLosses(told)
      BY <3>4, <3>7, <3>8, <3>9 DEF CountsLosses
    <3>11. source.sized = TRUE => told.drops + Len(told.mapped) >= Len(items)
      BY <1>2, <3>2, <3>4, <3>5, <3>7
    <3>12. told.reasons # {}
      BY <3>7
    <3>13. SourceMapped(source, told)
      BY <3>5, <3>7, <3>10, <3>11, <3>12 DEF SourceMapped
    <3>14. fine(told)
      BY <3>4, <3>7, <3>12, <3>13
    <3> QED  BY <3>6, <3>14 DEF made
  <2>4. Len(items) <= MaxEvents \/ Len(items) > MaxEvents
    BY <1>2
  <2> QED  BY <2>2, <2>3, <2>4
<1> QED  BY <1>1, <1>8, <1>9, <1>10

\* Of the first n links each is mapped once or counted; where nothing is
\* reported, all are mapped, in their order.
LinksInv(n, acc, links) ==
  /\ CountsLosses(acc) /\ "mapped" \in DOMAIN acc /\ acc.mapped \in Seq(STRING) /\ IsInjective(acc.mapped)
  /\ Len(acc.mapped) <= n /\ acc.drops + Len(acc.mapped) >= n
  /\ (acc.reasons = {} =>
        acc.drops = 0 /\ Len(acc.mapped) = n /\ \A i \in 1..n : acc.mapped[i] = links[i])

LEMMA LinkLost ==
  ASSUME NEW links, NEW n \in Nat, NEW acc, LinksInv(n, acc, links),
         NEW cut \in BOOLEAN, NEW reason
  PROVE  LET new == LosesItem(acc, cut, reason)
         IN  LinksInv(n, new, links) /\ LinksInv(n + 1, new, links)
<1> DEFINE new == LosesItem(acc, cut, reason)
<1>1. CountsLosses(acc) /\ acc.drops \in Nat /\ "mapped" \in DOMAIN acc \ {"drops", "cut", "reasons"}
      /\ Len(acc.mapped) \in Nat
  BY LenProperties DEF LinksInv, CountsLosses
<1>2. /\ CountsLosses(new) /\ DOMAIN new = DOMAIN acc /\ new.drops = acc.drops + 1
      /\ new.reasons = acc.reasons \cup {reason} /\ new.mapped = acc.mapped
  BY <1>1, LosesItemFields
<1> HIDE DEF new
<1>3. acc.drops + Len(acc.mapped) >= n /\ Len(acc.mapped) <= n
  BY DEF LinksInv
<1>4. /\ new.drops + Len(new.mapped) >= n /\ new.drops + Len(new.mapped) >= n + 1
      /\ Len(new.mapped) <= n /\ Len(new.mapped) <= n + 1
  BY <1>1, <1>2, <1>3
<1>5. new.reasons # {}
  BY <1>2
<1>6. LinksInv(n, new, links) /\ LinksInv(n + 1, new, links)
  BY <1>1, <1>2, <1>4, <1>5 DEF LinksInv
<1> QED  BY <1>6 DEF new

LEMMA LinkStep ==
  ASSUME NEW links \in Seq(STRING), NEW n \in 0..Len(links) - 1, NEW acc, LinksInv(n, acc, links)
  PROVE  LinksInv(n + 1, TakeLink(acc, links[n + 1]), links)
<1> DEFINE link == links[n + 1]
           new == TakeLink(acc, link)
<1>0. Len(links) \in Nat /\ n \in Nat /\ link \in STRING
  BY LenProperties, ElementOfSeq
<1> HIDE DEF link
<1>1. CASE link = "invalid"
  <2>1. new = LosesItem(acc, FALSE, "trace_link_invalid")
    BY <1>1 DEF TakeLink
  <2> QED  BY <1>0, <2>1, LinkLost DEF link
<1>2. CASE link # "invalid" /\ link \in ToSet(acc.mapped)
  <2>1. new = LosesItem(acc, FALSE, "trace_link_duplicate")
    BY <1>2 DEF TakeLink
  <2> QED  BY <1>0, <2>1, LinkLost DEF link
<1>3. CASE link # "invalid" /\ link \notin ToSet(acc.mapped)
  <2>1. new = [acc EXCEPT !.mapped = Append(acc.mapped, link)]
    BY <1>3 DEF TakeLink
  <2>2. /\ DOMAIN new = DOMAIN acc /\ new.mapped = Append(acc.mapped, link)
        /\ new.drops = acc.drops /\ new.cut = acc.cut /\ new.reasons = acc.reasons
    BY <2>1 DEF LinksInv, CountsLosses
  <2> HIDE DEF new
  <2>3. CountsLosses(new) /\ "mapped" \in DOMAIN new /\ acc.drops \in Nat
    BY <2>2 DEF LinksInv, CountsLosses
  <2> DEFINE old == acc.mapped
             now == new.mapped
  <2>4. old \in Seq(STRING) /\ now = Append(old, link) /\ Len(old) \in Nat /\ DOMAIN old = 1..Len(old)
    BY <2>2, LenProperties DEF LinksInv
  <2>5. /\ now \in Seq(STRING) /\ Len(now) = Len(old) + 1 /\ DOMAIN now = 1..Len(old) + 1
        /\ \A i \in 1..Len(old) : now[i] = old[i]
        /\ now[Len(old) + 1] = link
    <3> HIDE DEF old, now
    <3>1. IsSequence(old)
      BY <2>4 DEF IsSequence
    <3>2. now \in Seq(STRING)
      BY <1>0, <2>4, AppendProperties
    <3>3. /\ Len(now) = Len(old) + 1 /\ DOMAIN now = 1..Len(old) + 1
          /\ \A i \in 1..Len(old) : now[i] = old[i]
          /\ now[Len(old) + 1] = link
      BY <2>4, <3>1, AppendedTo
    <3> QED  BY <3>2, <3>3
  <2>6. \A i \in 1..Len(old) : old[i] # link
    BY <1>3, <2>4 DEF ToSet
  <2>7. \A i, j \in 1..Len(old) : old[i] = old[j] => i = j
    BY <2>4 DEF LinksInv, IsInjective
  <2>8. Len(old) <= n /\ acc.drops + Len(old) >= n
    BY DEF LinksInv
  <2>9. acc.reasons = {} => acc.drops = 0 /\ Len(old) = n /\ \A i \in 1..n : old[i] = links[i]
    BY DEF LinksInv
  <2> HIDE DEF old, now
  <2>10. ASSUME NEW i \in 1..Len(old) + 1, NEW j \in 1..Len(old) + 1, now[i] = now[j] PROVE i = j
    <3>1. CASE i = Len(old) + 1 /\ j # Len(old) + 1
      <4>1. j \in 1..Len(old)
        BY <2>4, <3>1
      <4> QED  BY <2>5, <2>6, <2>10, <3>1, <4>1
    <3>2. CASE i # Len(old) + 1 /\ j = Len(old) + 1
      <4>1. i \in 1..Len(old)
        BY <2>4, <3>2
      <4> QED  BY <2>5, <2>6, <2>10, <3>2, <4>1
    <3>3. CASE i # Len(old) + 1 /\ j # Len(old) + 1
      <4>1. i \in 1..Len(old) /\ j \in 1..Len(old)
        BY <2>4, <3>3
      <4> QED  BY <2>5, <2>7, <2>10, <4>1
    <3> QED  BY <3>1, <3>2, <3>3
  <2>11. IsInjective(now)
    BY <2>5, <2>10 DEF IsInjective
  <2>12. Len(now) <= n + 1 /\ new.drops + Len(now) >= n + 1
    BY <1>0, <2>2, <2>3, <2>4, <2>5, <2>8
  <2>13. ASSUME new.reasons = {}
         PROVE  new.drops = 0 /\ Len(now) = n + 1 /\ \A i \in 1..n + 1 : now[i] = links[i]
    <3>1. acc.drops = 0 /\ Len(old) = n /\ \A i \in 1..n : old[i] = links[i]
      BY <2>2, <2>9, <2>13
    <3>2. ASSUME NEW i \in 1..n + 1 PROVE now[i] = links[i]
      <4>1. CASE i = n + 1
        BY <2>5, <3>1, <4>1 DEF link
      <4>2. CASE i # n + 1
        <5>1. i \in 1..n
          BY <1>0, <4>2
        <5> QED  BY <2>5, <3>1, <5>1
      <4> QED  BY <4>1, <4>2
    <3>3. new.drops = 0 /\ Len(now) = n + 1
      BY <2>2, <2>5, <3>1
    <3> QED  BY <3>2, <3>3
  <2>14. LinksInv(n + 1, new, links)
    BY <2>3, <2>5, <2>11, <2>12, <2>13 DEF LinksInv, now
  <2> QED  BY <2>14 DEF new, link
<1> QED  BY <1>1, <1>2, <1>3

LEMMA NoLinksInv == ASSUME NEW links PROVE LinksInv(0, NoLinks, links)
<1>1. /\ DOMAIN NoLinks = {"mapped", "drops", "cut", "reasons"} /\ NoLinks.mapped = <<>>
      /\ NoLinks.drops = 0 /\ NoLinks.cut = FALSE /\ NoLinks.reasons = {}
  BY DEF NoLinks
<1>2. NoLinks.drops \in Nat
  BY <1>1
<1>3. NoLinks.cut \in BOOLEAN
  BY <1>1
<1>4. CountsLosses(NoLinks) /\ "mapped" \in DOMAIN NoLinks
  BY <1>1, <1>2, <1>3 DEF CountsLosses
<1>5. <<>> \in Seq(STRING) /\ Len(<<>>) = 0 /\ DOMAIN <<>> = {} /\ 1..0 = {}
  OBVIOUS
<1>6. IsInjective(NoLinks.mapped)
  BY <1>1, <1>5 DEF IsInjective
<1>7. Len(NoLinks.mapped) <= 0 /\ NoLinks.drops + Len(NoLinks.mapped) >= 0
  BY <1>1, <1>5
<1> QED  BY <1>1, <1>4, <1>5, <1>6, <1>7 DEF LinksInv

LEMMA LinkedAt ==
  ASSUME NEW links \in Seq(STRING)
  PROVE  \A n \in 0..Len(links) - 1 :
           LinkedUpTo(n + 1, links) = TakeLink(LinkedUpTo(n, links), links[n + 1])
<1>1. Len(links) \in Nat /\ DOMAIN links = 1..Len(links)
  BY LenProperties
<1> QED  BY <1>1, LinkedSteps

LEMMA LinkedInv ==
  ASSUME NEW links \in Seq(STRING)
  PROVE  LinksInv(Len(links), FoldLeft(TakeLink, NoLinks, links), links)
<1> DEFINE inv(n) == LinksInv(n, LinkedUpTo(n, links), links)
           good == {n \in Nat : n <= Len(links) => inv(n)}
<1>0. Len(links) \in Nat /\ DOMAIN links = 1..Len(links)
  BY LenProperties
<1>1. \A n \in 0..Len(links) - 1 :
        LinkedUpTo(n + 1, links) = TakeLink(LinkedUpTo(n, links), links[n + 1])
  BY LinkedAt
<1>2. inv(0)
  <2>1. LinkedUpTo(0, links) = NoLinks
    BY <1>0, LinkedSteps
  <2> QED  BY <2>1, NoLinksInv
<1>3. ASSUME NEW n \in Nat, n \in good PROVE n + 1 \in good
  <2>1. SUFFICES ASSUME n + 1 <= Len(links) PROVE inv(n + 1)
    OBVIOUS
  <2>2. n \in 0..Len(links) - 1 /\ inv(n)
    BY <1>0, <1>3, <2>1
  <2>3. LinkedUpTo(n + 1, links) = TakeLink(LinkedUpTo(n, links), links[n + 1])
    BY <1>1, <2>2
  <2>4. LinksInv(n + 1, TakeLink(LinkedUpTo(n, links), links[n + 1]), links)
    BY <2>2, LinkStep
  <2> QED  BY <2>3, <2>4
<1>4. 0 \in good
  BY <1>2
<1> HIDE DEF good
<1>5. Nat \subseteq good
  BY <1>3, <1>4, SetInduction
<1>6. inv(Len(links))
  BY <1>0, <1>5 DEF good
<1> QED  BY <1>0, <1>6, LinkedSteps

LEMMA MapLinksFacts ==
  ASSUME NEW source \in RawSource(STRING)
  PROVE  LET made == MapLinks(source)
         IN  /\ SourceMapped(source, made)
             /\ Len(made.mapped) <= MaxLinks /\ IsInjective(made.mapped)
             /\ (made.reasons = {} => made.mapped = source.items)
<1> DEFINE made == MapLinks(source)
           items == source.items
           upto == Upto(items, MaxLinks)
           taken == FoldLeft(TakeLink, NoLinks, upto)
           over == Overflow(source, MaxLinks)
           lossy == source.form \in {"raises", "other"} \/ Broken(source, MaxLinks)
           fine(m) == /\ SourceMapped(source, m)
                      /\ Len(m.mapped) <= MaxLinks /\ IsInjective(m.mapped)
                      /\ (m.reasons = {} => m.mapped = items)
<1>1. /\ source.form \in {"sequence", "other", "raises"} /\ items \in Seq(STRING)
      /\ source.sized \in BOOLEAN /\ source.breaks \in BOOLEAN
      /\ (source.form # "sequence" => items = <<>>)
  BY DEF RawSource
<1>2. Len(items) \in Nat /\ MaxLinks \in Nat
  BY <1>1, LenProperties, MappingAssumption
<1>3. /\ upto \in Seq(STRING) /\ Len(upto) = (IF Len(items) > MaxLinks THEN MaxLinks ELSE Len(items))
      /\ (Len(items) <= MaxLinks => upto = items)
  BY <1>1, <1>2, UptoFacts
<1>4. LinksInv(Len(upto), taken, upto)
  BY <1>3, LinkedInv
<1>5. made = IF lossy THEN LosesItem(taken, FALSE, "trace_link_invalid")
             ELSE IF over > 0
             THEN [taken EXCEPT !.drops = taken.drops + over,
                                !.reasons = taken.reasons \cup {"trace_link_limit"}]
             ELSE taken
  BY DEF MapLinks
<1>6. lossy => Len(items) <= MaxLinks
  <2>1. source.form \in {"raises", "other"} => Len(items) = 0
    BY <1>1
  <2> QED  BY <1>2, <2>1 DEF Broken
<1>7. ASSUME Len(items) <= MaxLinks, NEW m, LinksInv(Len(items), m, items) PROVE fine(m)
  <2>1. Len(m.mapped) \in Nat /\ m.mapped \in Seq(STRING)
    BY <1>7, LenProperties DEF LinksInv
  <2>2. /\ CountsLosses(m) /\ IsInjective(m.mapped) /\ Len(m.mapped) <= Len(items)
        /\ m.drops + Len(m.mapped) >= Len(items)
        /\ (m.reasons = {} => /\ m.drops = 0 /\ Len(m.mapped) = Len(items)
                              /\ \A i \in 1..Len(items) : m.mapped[i] = items[i])
    BY <1>7 DEF LinksInv
  <2>3. SourceMapped(source, m)
    BY <2>1, <2>2 DEF SourceMapped
  <2>4. Len(m.mapped) <= MaxLinks
    BY <1>2, <1>7, <2>1, <2>2
  <2>5. m.reasons = {} => m.mapped = items
    BY <1>1, <2>1, <2>2, SeqEqual
  <2> QED  BY <2>2, <2>3, <2>4, <2>5
<1>8. Len(items) <= MaxLinks => LinksInv(Len(items), taken, items)
  BY <1>3, <1>4
<1>9. CASE lossy
  <2>1. made = LosesItem(taken, FALSE, "trace_link_invalid")
    BY <1>5, <1>9
  <2>2. Len(items) <= MaxLinks
    BY <1>6, <1>9
  <2> HIDE DEF taken, made, lossy, fine
  <2>3. LinksInv(Len(items), made, items)
    BY <1>2, <1>8, <2>1, <2>2, LinkLost
  <2>4. fine(made)
    BY <1>7, <2>2, <2>3
  <2> QED  BY <2>4 DEF made, fine
<1>10. CASE ~lossy /\ Len(items) <= MaxLinks
  <2>1. over = 0
    BY <1>10 DEF Overflow
  <2> HIDE DEF taken, made, lossy, over, fine
  <2>2. made = taken
    BY <1>5, <1>10, <2>1
  <2>3. fine(made)
    BY <1>7, <1>8, <1>10, <2>2
  <2> QED  BY <2>3 DEF made, fine
<1>11. CASE ~lossy /\ Len(items) > MaxLinks
  <2>1. /\ over = (IF source.sized THEN Len(items) - MaxLinks ELSE 1)
        /\ Len(upto) = MaxLinks
    BY <1>2, <1>3, <1>11 DEF Overflow
  <2>2. over \in Nat /\ over > 0 /\ (source.sized = TRUE => over = Len(items) - MaxLinks)
    <3> HIDE DEF over
    <3> QED  BY <1>1, <1>2, <1>11, <2>1
  <2>3. LinksInv(MaxLinks, taken, upto)
    BY <1>4, <2>1
  <2> DEFINE told == [taken EXCEPT !.drops = taken.drops + over,
                                   !.reasons = taken.reasons \cup {"trace_link_limit"}]
  <2> HIDE DEF taken, over, made, lossy
  <2>4. made = told
    BY <1>5, <1>11, <2>2
  <2>5. /\ CountsLosses(taken) /\ taken.drops \in Nat /\ taken.mapped \in Seq(STRING)
        /\ IsInjective(taken.mapped) /\ Len(taken.mapped) <= MaxLinks
        /\ taken.drops + Len(taken.mapped) >= MaxLinks
    BY <2>3 DEF LinksInv, CountsLosses
  <2>6. Len(taken.mapped) \in Nat
    BY <2>5, LenProperties
  <2>7. /\ DOMAIN told = DOMAIN taken /\ told.mapped = taken.mapped /\ told.cut = taken.cut
        /\ told.drops = taken.drops + over
        /\ told.reasons = taken.reasons \cup {"trace_link_limit"}
    BY <2>3 DEF LinksInv, CountsLosses
  <2> HIDE DEF told
  <2>8. told.drops \in Nat
    BY <2>2, <2>5, <2>7
  <2>9. CountsLosses(told)
    BY <2>5, <2>7, <2>8 DEF CountsLosses
  <2>10. source.sized = TRUE => told.drops + Len(told.mapped) >= Len(items)
    BY <1>2, <2>2, <2>5, <2>6, <2>7
  <2>11. told.reasons # {}
    BY <2>7
  <2>12. SourceMapped(source, told)
    BY <2>6, <2>7, <2>9, <2>10, <2>11 DEF SourceMapped
  <2>13. fine(told)
    BY <2>5, <2>7, <2>11, <2>12
  <2> QED  BY <2>4, <2>13 DEF made
<1> QED  BY <1>2, <1>9, <1>10, <1>11

----------------------------------------------------------------------------
(* The parts of a mapped span.                                             *)

ItemsOf(s) == s.attributes.items
ToolIn(s) == IF ObservedOperation(ItemsOf(s)) = "execute_tool" THEN Unrecorded ELSE NoTool
ManagedIn(s) ==
  IF ObservedOperation(ItemsOf(s)) \in ModelOperations THEN ModelSourceKeys(ItemsOf(s)) ELSE {}
AttributesIn(s) == SafeAttributes(s.attributes, FALSE, ToolIn(s), ManagedIn(s))
ModelIn(s) == ModelContent(ItemsOf(s))
EventsIn(s) == MapEvents(s.events)
ResourceIn(s) == SafeAttributes(s.resource, TRUE, NoTool, {})
LinksIn(s) == MapLinks(s.links)
OmittedIn(s) == {d \in Direction : ManagedIn(s) # {} /\ Omitted(ModelIn(s)[d])}
UnheldIn(s) ==
  {ModelReason(ModelIn(s)[d]) :
     d \in {e \in Direction : ManagedIn(s) # {} /\ ModelIn(s)[e] # "present"}}

LEMMA MappingIsOfParts ==
  ASSUME NEW s
  PROVE  Mapping(s) = MappedSpan(s, ManagedIn(s), AttributesIn(s), ModelIn(s), EventsIn(s),
                                 ResourceIn(s), LinksIn(s))
BY DEF Mapping, ManagedIn, AttributesIn, ToolIn, ModelIn, EventsIn, ResourceIn, LinksIn, ItemsOf

\* What the mapped span reports.
ToldIn(s, m) ==
  /\ AttributesIn(s).reasons \subseteq m.reasons /\ EventsIn(s).reasons \subseteq m.reasons
  /\ ResourceIn(s).reasons \subseteq m.reasons /\ LinksIn(s).reasons \subseteq m.reasons
  /\ CoreReasons(s) \subseteq m.reasons /\ SdkReasons(s) \subseteq m.reasons
  /\ ("not_recorded" \in {AttributesIn(s).tool[f] : f \in Fields} =>
        ToolReason("not_recorded") \in m.reasons)
  /\ UnheldIn(s) \subseteq m.reasons

LEMMA MappedFields ==
  ASSUME NEW s
  PROVE  LET m == Mapping(s)
         IN  /\ m.made = TRUE
             /\ m.parent = (IF s.parent = "invalid" THEN "none" ELSE s.parent)
             /\ m.attributes = AttributesIn(s).kept /\ m.tool = AttributesIn(s).tool
             /\ m.model = (IF ManagedIn(s) = {} THEN [d \in Direction |-> "none"] ELSE ModelIn(s))
             /\ m.events = EventsIn(s).mapped /\ m.resource = ResourceIn(s).kept
             /\ m.links = LinksIn(s).mapped
             /\ m.drops = AttributesIn(s).drops + EventsIn(s).drops + ResourceIn(s).drops
                          + LinksIn(s).drops + (IF s.sdk = "some" THEN 1 ELSE 0)
                          + Cardinality(OmittedIn(s))
             /\ m.cut = (AttributesIn(s).cut \/ EventsIn(s).cut \/ ResourceIn(s).cut
                         \/ CoreCut(s) \/ ScopeCut(s))
             /\ ToldIn(s, m)
<1> DEFINE m == Mapping(s)
<1>1. m = MappedSpan(s, ManagedIn(s), AttributesIn(s), ModelIn(s), EventsIn(s), ResourceIn(s), LinksIn(s))
  BY MappingIsOfParts
<1> HIDE DEF m
<1>2. /\ m.made = TRUE
      /\ m.parent = (IF s.parent = "invalid" THEN "none" ELSE s.parent)
      /\ m.attributes = AttributesIn(s).kept /\ m.tool = AttributesIn(s).tool
      /\ m.model = (IF ManagedIn(s) = {} THEN [d \in Direction |-> "none"] ELSE ModelIn(s))
      /\ m.events = EventsIn(s).mapped /\ m.resource = ResourceIn(s).kept
      /\ m.links = LinksIn(s).mapped
  BY <1>1 DEF MappedSpan
<1>3. m.drops = AttributesIn(s).drops + EventsIn(s).drops + ResourceIn(s).drops
                + LinksIn(s).drops + (IF s.sdk = "some" THEN 1 ELSE 0)
                + Cardinality(OmittedIn(s))
  BY <1>1 DEF MappedSpan, OmittedIn
<1>4. m.cut = (AttributesIn(s).cut \/ EventsIn(s).cut \/ ResourceIn(s).cut
               \/ CoreCut(s) \/ ScopeCut(s))
  BY <1>1 DEF MappedSpan
<1> DEFINE unrecorded == IF "not_recorded" \in {AttributesIn(s).tool[f] : f \in Fields}
                         THEN {ToolReason("not_recorded")} ELSE {}
<1>5. m.reasons = AttributesIn(s).reasons \cup EventsIn(s).reasons \cup ResourceIn(s).reasons
                  \cup LinksIn(s).reasons \cup CoreReasons(s) \cup SdkReasons(s)
                  \cup unrecorded \cup UnheldIn(s)
  BY <1>1 DEF MappedSpan, UnheldIn
<1>6. unrecorded \subseteq m.reasons
  <2> HIDE DEF unrecorded
  <2> QED  BY <1>5
<1>7. ToldIn(s, m)
  <2>1. "not_recorded" \in {AttributesIn(s).tool[f] : f \in Fields} =>
          ToolReason("not_recorded") \in m.reasons
    BY <1>6
  <2> HIDE DEF unrecorded
  <2> QED  BY <1>5, <2>1 DEF ToldIn
<1> QED  BY <1>2, <1>3, <1>4, <1>7 DEF m

LEMMA SpanTypes ==
  ASSUME NEW s \in RawSpan
  PROVE  /\ s.attributes \in RawAttributes /\ s.resource \in RawAttributes
         /\ s.events \in RawSource(RawEvent) /\ s.links \in RawSource(STRING)
         /\ s.name \in Leaf /\ s.scope \in Leaf
         /\ s.parent \in {"other", "none", "itself", "invalid"}
         /\ s.sdk \in {"none", "some", "invalid"}
BY DEF RawSpan

LEMMA PartsInv ==
  ASSUME NEW s \in RawSpan
  PROVE  /\ ItemsOf(s) \in RawItems /\ s.resource.items \in RawItems
         /\ AttributesInv(Len(ItemsOf(s)), AttributesIn(s), ItemsOf(s), FALSE, ToolIn(s), ManagedIn(s))
         /\ AttributesInv(Len(s.resource.items), ResourceIn(s), s.resource.items, TRUE, NoTool, {})
         /\ SourceMapped(s.events, EventsIn(s)) /\ SourceMapped(s.links, LinksIn(s))
<1>1. ToolIn(s) \in {NoTool, Unrecorded}
  BY DEF ToolIn
<1>2. /\ ItemsOf(s) \in RawItems
      /\ AttributesInv(Len(ItemsOf(s)), AttributesIn(s), ItemsOf(s), FALSE, ToolIn(s), ManagedIn(s))
  BY <1>1, SpanTypes, SafeAttributesInv DEF AttributesIn, ItemsOf
<1>3. /\ s.resource.items \in RawItems
      /\ AttributesInv(Len(s.resource.items), ResourceIn(s), s.resource.items, TRUE, NoTool, {})
  BY SpanTypes, SafeAttributesInv DEF ResourceIn
<1>4. SourceMapped(s.events, EventsIn(s))
  BY SpanTypes, MapEventsFacts DEF EventsIn
<1>5. SourceMapped(s.links, LinksIn(s))
  BY SpanTypes, MapLinksFacts DEF LinksIn
<1> QED  BY <1>2, <1>3, <1>4, <1>5

LEMMA OmittedIsFinite ==
  ASSUME NEW s PROVE IsFiniteSet(OmittedIn(s)) /\ Cardinality(OmittedIn(s)) \in Nat
<1>1. Direction = {"input"} \cup {"output"} /\ OmittedIn(s) \subseteq Direction
  BY DEF Direction, OmittedIn
<1>2. IsFiniteSet(Direction)
  BY <1>1, FS_Singleton, FS_AddElement
<1> QED  BY <1>1, <1>2, FS_Subset, FS_CardinalityType

\* A status in a model's direction is not recorded or that of a body.
LEMMA ModelStatus ==
  ASSUME NEW s, NEW d \in Direction
  PROVE  /\ ModelIn(s)[d] \in Statuses \cup {"not_recorded"}
         /\ (SourceKey(ItemsOf(s), d) # "none" =>
               ModelIn(s)[d] = NormalizeToolContent(ValueOf(ItemsOf(s), SourceKey(ItemsOf(s), d))))
BY StatusOfBody DEF ModelIn, ModelContent

----------------------------------------------------------------------------
(* What is mapped is valid.                                                *)

MisnamesTool(items) ==
  Operation \in KeysOf(items) /\ ValueOf(items, Operation) = <<"execute_tool subclass">>

\* The operation that the mapped attributes name is the one that was observed,
\* where either is a tool's or a model's.
NamedIn(m) == IF Operation \in DOMAIN m.attributes THEN m.attributes[Operation] ELSE "none"

LEMMA OneLeaf == ASSUME NEW S, NEW v \in Seq(S), Len(v) = 1 PROVE v = <<v[1]>>
<1> DEFINE one == <<v[1]>>
<1>1. 1 \in 1..Len(v)
  OBVIOUS
<1>2. v[1] \in S
  BY <1>1, ElementOfSeq
<1>3. one \in Seq(S) /\ Len(one) = 1 /\ one[1] = v[1]
  BY <1>2
<1> HIDE DEF one
<1>4. \A k \in 1..Len(v) : v[k] = one[k]
  <2>1. SUFFICES ASSUME NEW k \in 1..1 PROVE v[k] = one[k]
    OBVIOUS
  <2>2. k = 1
    OBVIOUS
  <2> QED  BY <1>3, <2>2
<1>5. v = one
  BY <1>3, <1>4, SeqEqual
<1> QED  BY <1>5 DEF one

LEMMA OperationIsNamed ==
  ASSUME NEW s \in RawSpan, ~MisnamesTool(ItemsOf(s))
  PROVE  /\ (NamedIn(Mapping(s)) = "execute_tool" <=>
               ObservedOperation(ItemsOf(s)) = "execute_tool")
         /\ (ObservedOperation(ItemsOf(s)) \in ModelOperations =>
               NamedIn(Mapping(s)) = ObservedOperation(ItemsOf(s)))
<1> DEFINE m == Mapping(s)
           items == ItemsOf(s)
           a == AttributesIn(s)
           operation == ObservedOperation(items)
<1>1. items \in RawItems /\ KeptInv(a, items, FALSE, ToolIn(s)) /\ m.attributes = a.kept
  BY PartsInv, MappedFields DEF AttributesInv
<1>2. OperationOf(items, FALSE) = operation
  BY DEF OperationOf
<1> HIDE DEF m, a, items
<1>3. CASE Reserves(items, FALSE)
  <2>1. Operation \in DOMAIN a.kept /\ a.kept[Operation] = operation
    BY <1>1, <1>2, <1>3 DEF KeptInv
  <2>2. NamedIn(m) = operation
    BY <1>1, <2>1 DEF NamedIn
  <2> QED  BY <2>2 DEF m, items
<1>4. CASE ~Reserves(items, FALSE)
  <2>1. operation \notin ReservedOperations
    BY <1>2, <1>4 DEF Reserves
  <2>2. ASSUME NamedIn(m) = "execute_tool" PROVE FALSE
    <3>1. Operation \in DOMAIN a.kept /\ a.kept[Operation] = "execute_tool"
      BY <1>1, <2>2 DEF NamedIn
    <3>2. PICK i \in DOMAIN items :
            /\ items[i].key = Operation /\ ~IsList(items[i].value)
            /\ items[i].value[1] = "execute_tool subclass"
      BY <1>1, <1>4, <3>1 DEF KeptInv
    <3>3. Operation \in KeysOf(items) /\ ValueOf(items, Operation) = items[i].value
      BY <1>1, <3>2, ValueOfItem
    <3>4. items[i].value \in Seq(Leaf)
      BY <1>1, RawItemsFacts
    <3>5. items[i].value = <<"execute_tool subclass">>
      <4>1. Len(items[i].value) = 1
        BY <3>2 DEF IsList
      <4>2. items[i].value = <<items[i].value[1]>>
        BY <3>4, <4>1, OneLeaf
      <4> QED  BY <3>2, <4>2
    <3> QED  BY <3>3, <3>5 DEF MisnamesTool, items
  <2> QED  BY <2>1, <2>2 DEF ReservedOperations, ModelOperations, m, items
<1> QED  BY <1>3, <1>4

LEMMA MappingIsValidSpan ==
  ASSUME NEW s \in RawSpan, s.parent # "itself", ~MisnamesTool(ItemsOf(s))
  PROVE  ValidSpan(Mapping(s))
<1> DEFINE m == Mapping(s)
           items == ItemsOf(s)
           a == AttributesIn(s)
           r == ResourceIn(s)
           tool == ObservedOperation(items) = "execute_tool"
           operation == NamedIn(m)
<1>1. /\ AttributesInv(Len(items), a, items, FALSE, ToolIn(s), ManagedIn(s))
      /\ AttributesInv(Len(s.resource.items), r, s.resource.items, TRUE, NoTool, {})
  BY PartsInv
<1>2. /\ m.attributes = a.kept /\ m.tool = a.tool /\ m.resource = r.kept
      /\ m.parent = (IF s.parent = "invalid" THEN "none" ELSE s.parent)
      /\ m.model = (IF ManagedIn(s) = {} THEN [d \in Direction |-> "none"] ELSE ModelIn(s))
      /\ m.events = EventsIn(s).mapped /\ m.links = LinksIn(s).mapped
  BY MappedFields
<1>3. /\ (operation = "execute_tool" <=> tool)
      /\ (ObservedOperation(items) \in ModelOperations => operation = ObservedOperation(items))
  BY OperationIsNamed
<1> HIDE DEF m, a, r, items
<1>4. (a.tool = NoTool) <=> (ToolIn(s) = NoTool)
  <2>1. ToolInv(Len(items), a, items, FALSE, ToolIn(s), ManagedIn(s))
    BY <1>1 DEF AttributesInv
  <2>2. CASE ToldBodies(Len(items), a, items, FALSE, ManagedIn(s)) /\ ToolIn(s) = Unrecorded
    <3>1. "arguments" \in Fields
      BY TwoFields
    <3>2. Unrecorded["arguments"] = "not_recorded" /\ NoTool["arguments"] = "none"
      BY <3>1 DEF Unrecorded, NoTool
    <3>3. a.tool["arguments"] # "none"
      BY <2>2, <3>1 DEF ToldBodies, Statuses
    <3>4. a.tool # NoTool /\ Unrecorded # NoTool
      BY <3>2, <3>3
    <3> QED  BY <2>2, <3>4
  <2> QED  BY <2>1, <2>2 DEF ToolInv
<1>5. tool <=> ToolIn(s) # NoTool
  <2>1. Unrecorded # NoTool
    <3>1. Unrecorded["arguments"] = "not_recorded" /\ NoTool["arguments"] = "none"
      BY TwoFields DEF Unrecorded, NoTool
    <3> QED  BY <3>1
  <2> QED  BY <2>1 DEF ToolIn, items
<1>6. operation = "execute_tool" <=> m.tool # NoTool
  BY <1>2, <1>3, <1>4, <1>5
<1>7. m.model["input"] # "none" => operation \in ModelOperations
  <2>1. SUFFICES ASSUME m.model["input"] # "none" PROVE operation \in ModelOperations
    OBVIOUS
  <2>2. "input" \in Direction
    BY DEF Direction
  <2>3. ManagedIn(s) # {}
    BY <1>2, <2>1, <2>2
  <2>4. ObservedOperation(items) \in ModelOperations
    BY <2>3 DEF ManagedIn, items
  <2> HIDE DEF operation
  <2> QED  BY <1>3, <2>4
<1>8. m.parent # "itself"
  BY <1>2
<1>9. ValidAttributes(m.attributes, FALSE, operation = "execute_tool")
  <2>1. KeptInv(a, items, FALSE, ToolIn(s))
    BY <1>1 DEF AttributesInv
  <2> HIDE DEF operation, tool
  <2> QED  BY <1>2, <1>3, <1>5, <2>1 DEF KeptInv, ValidAttributes
<1>10. ValidAttributes(m.resource, TRUE, FALSE)
  <2>1. KeptInv(r, s.resource.items, TRUE, NoTool)
    BY <1>1 DEF AttributesInv
  <2> QED  BY <1>2, <2>1 DEF KeptInv, ValidAttributes
<1>11. \A i \in DOMAIN m.events : ValidAttributes(m.events[i], FALSE, FALSE)
  BY <1>2, SpanTypes, MapEventsFacts DEF EventsIn
<1>12. Len(m.links) <= MaxLinks /\ IsInjective(m.links)
  BY <1>2, SpanTypes, MapLinksFacts DEF LinksIn
<1>13. operation = "execute_tool" => \A f \in Fields :
         m.tool[f] \in Whole <=> ToolContentKeys[f] \in DOMAIN m.attributes
  <2>1. SUFFICES ASSUME operation = "execute_tool", NEW f \in Fields
                 PROVE  m.tool[f] \in Whole <=> ToolContentKeys[f] \in DOMAIN m.attributes
    OBVIOUS
  <2>2. ToolIn(s) # NoTool
    BY <1>3, <1>5, <2>1
  <2>3. ToldBodies(Len(items), a, items, FALSE, ManagedIn(s))
    BY <1>1, <2>2 DEF AttributesInv, ToolInv
  <2> QED  BY <1>2, <2>3 DEF ToldBodies
<1>14. ValidSpan(m)
  <2> HIDE DEF tool
  <2> QED  BY <1>6, <1>7, <1>8, <1>9, <1>10, <1>11, <1>12, <1>13 DEF ValidSpan, NamedIn
<1> QED  BY <1>14 DEF m

LEMMA MappingHasValidLosses == ASSUME NEW s \in RawSpan PROVE ValidLosses(Mapping(s))
<1> DEFINE m == Mapping(s)
           items == ItemsOf(s)
           a == AttributesIn(s)
           managed == ManagedIn(s)
<1>1. AttributesInv(Len(items), a, items, FALSE, ToolIn(s), managed)
  BY PartsInv
<1>2. /\ m.tool = a.tool /\ ToldIn(s, m)
      /\ m.model = (IF managed = {} THEN [d \in Direction |-> "none"] ELSE ModelIn(s))
      /\ m.drops = a.drops + EventsIn(s).drops + ResourceIn(s).drops
                   + LinksIn(s).drops + (IF s.sdk = "some" THEN 1 ELSE 0)
                   + Cardinality(OmittedIn(s))
  BY MappedFields
<1>3. /\ a.drops \in Nat /\ EventsIn(s).drops \in Nat /\ ResourceIn(s).drops \in Nat
      /\ LinksIn(s).drops \in Nat /\ Cardinality(OmittedIn(s)) \in Nat
  BY PartsInv, OmittedIsFinite DEF AttributesInv, SourceMapped, IsAcc, CountsLosses
<1> HIDE DEF m, a, items, managed
<1>4. ASSUME NEW f \in Fields, m.tool[f] \notin {"present", "none"}
      PROVE  ToolReason(m.tool[f]) \in m.reasons
  <2>1. CASE ToolIn(s) = NoTool /\ a.tool = NoTool
    BY <1>2, <1>4, <2>1 DEF NoTool
  <2>2. CASE ToldBodies(Len(items), a, items, FALSE, managed)
    <3>1. CASE a.tool[f] = "not_recorded"
      BY <1>2, <3>1 DEF ToldIn, a
    <3>2. CASE a.tool[f] # "not_recorded"
      <4>1. ToolReason(a.tool[f]) \in a.reasons
        BY <1>2, <1>4, <2>2, <3>2 DEF ToldBodies
      <4> QED  BY <1>2, <4>1 DEF ToldIn, a
    <3> QED  BY <3>1, <3>2
  <2> QED  BY <1>1, <2>1, <2>2 DEF AttributesInv, ToolInv
<1>5. ASSUME NEW d \in Direction, m.model[d] \notin {"present", "none"}
      PROVE  ModelReason(m.model[d]) \in m.reasons
  <2>1. managed # {} /\ m.model[d] = ModelIn(s)[d]
    BY <1>2, <1>5
  <2>2. ModelReason(ModelIn(s)[d]) \in UnheldIn(s)
    BY <1>5, <2>1 DEF UnheldIn, managed
  <2> QED  BY <1>2, <2>1, <2>2 DEF ToldIn
<1>6. Cardinality({f \in Fields : Omitted(m.tool[f])}) <= a.drops
  <2>1. CASE ToolIn(s) = NoTool /\ a.tool = NoTool
    <3>1. {f \in Fields : Omitted(m.tool[f])} = {}
      BY <1>2, <2>1 DEF NoTool, Omitted
    <3> QED  BY <1>3, <3>1, FS_EmptySet
  <2>2. CASE ToldBodies(Len(items), a, items, FALSE, managed)
    <3>1. {f \in Fields : Omitted(m.tool[f])} = OmittedBodies(a.tool)
      BY <1>2 DEF OmittedBodies
    <3>2. Cardinality(OmittedBodies(a.tool)) \in Nat
      BY TwoFields DEF OmittedBodies
    <3> QED  BY <1>3, <2>2, <3>1, <3>2 DEF ToldBodies
  <2> QED  BY <1>1, <2>1, <2>2 DEF AttributesInv, ToolInv
<1>7. {d \in Direction : Omitted(m.model[d])} = OmittedIn(s)
  <2>1. CASE managed = {}
    <3>1. \A d \in Direction : ~Omitted(m.model[d])
      BY <1>2, <2>1 DEF Omitted
    <3> QED  BY <2>1, <3>1 DEF OmittedIn, managed
  <2>2. CASE managed # {}
    BY <1>2, <2>2 DEF OmittedIn, managed
  <2> QED  BY <2>1, <2>2
<1>8. Cardinality({f \in Fields : Omitted(m.tool[f])})
      + Cardinality({d \in Direction : Omitted(m.model[d])}) <= m.drops
  <2> DEFINE told == Cardinality({f \in Fields : Omitted(m.tool[f])})
             sdk == IF s.sdk = "some" THEN 1 ELSE 0
  <2>1. told \in Nat
    BY TwoFields
  <2>2. sdk \in Nat
    OBVIOUS
  <2>3. m.drops = a.drops + EventsIn(s).drops + ResourceIn(s).drops
                  + LinksIn(s).drops + sdk + Cardinality(OmittedIn(s))
    BY <1>2
  <2>4. told <= a.drops
    BY <1>6
  <2> HIDE DEF told, sdk
  <2>5. told + Cardinality(OmittedIn(s)) <= m.drops
    BY <1>3, <2>1, <2>2, <2>3, <2>4
  <2> QED  BY <1>7, <2>5 DEF told
<1>9. ValidLosses(m)
  BY <1>4, <1>5, <1>8 DEF ValidLosses
<1> QED  BY <1>9 DEF m

----------------------------------------------------------------------------
(* What is missing is reported and counted.                                *)

\* The key of a model's messages is no attribute's and has no canonical name.
LEMMA MessageKeys ==
  ASSUME NEW items, NEW d \in Direction, SourceKey(items, d) # "none"
  PROVE  LET key == SourceKey(items, d)
         IN  /\ key \in {Native(e) : e \in Direction} \cup {Generic(e) : e \in Direction}
                        \cup {Flat(e) : e \in Direction}
             /\ ~Allowed(key, FALSE) /\ key \notin ToolBodies
             /\ \A operation \in ModelOperations : SemanticKey(key, operation) = "none"
             /\ key \in KeysOf(items) /\ key \in ModelSourceKeys(items)
<1> DEFINE key == SourceKey(items, d)
<1>1. d = "input" \/ d = "output"
  BY DEF Direction
<1>2. key \in {Native(d), Generic(d), Flat(d)} /\ key \in KeysOf(items)
  BY DEF SourceKey
<1>3. key \in ModelSourceKeys(items)
  BY DEF ModelSourceKeys
<1> HIDE DEF key
<1>4. key \in {"gen_ai.input.messages", "input.value", "llm.input_messages.0",
               "gen_ai.output.messages", "output.value", "llm.output_messages.0"}
  BY <1>1, <1>2 DEF Native, Generic, Flat
<1>5. ~Allowed(key, FALSE) /\ key \notin ToolBodies
  BY <1>4 DEF Allowed, ToolBodies, ToolMetadata, Operation, Fields, ToolContentKeys
<1>6. \A operation \in ModelOperations : SemanticKey(key, operation) = "none"
  <2>1. key \notin {KindKey, "llm.model_name"}
    BY <1>4 DEF KindKey
  <2>2. \A operation \in ModelOperations : operation # "none" /\ operation # "execute_tool"
    BY DEF ModelOperations
  <2> QED  BY <2>1, <2>2 DEF SemanticKey
<1> QED  BY <1>2, <1>3, <1>5, <1>6 DEF key

\* An item whose value is a model's messages.
LEMMA ManagedItem ==
  ASSUME NEW s \in RawSpan, NEW i \in DOMAIN ItemsOf(s), ItemsOf(s)[i].key \in ManagedIn(s)
  PROVE  /\ ManagedIn(s) = ModelSourceKeys(ItemsOf(s))
         /\ ObservedOperation(ItemsOf(s)) \in ModelOperations
         /\ \E d \in Direction : SourceKey(ItemsOf(s), d) = ItemsOf(s)[i].key
         /\ \A d \in Direction : SourceKey(ItemsOf(s), d) = ItemsOf(s)[i].key =>
              /\ SourceKey(ItemsOf(s), d) # "none"
              /\ ModelIn(s)[d] = NormalizeToolContent(ItemsOf(s)[i].value)
<1> DEFINE items == ItemsOf(s)
           key == items[i].key
<1>0. items \in RawItems
  BY PartsInv
<1>1. ObservedOperation(items) \in ModelOperations /\ ManagedIn(s) = ModelSourceKeys(items)
  BY DEF ManagedIn
<1>2. key # "none" /\ \E d \in Direction : SourceKey(items, d) = key
  BY <1>1 DEF ModelSourceKeys
<1>3. ValueOf(items, key) = items[i].value
  BY <1>0, ValueOfItem
<1> HIDE DEF items
<1>4. ASSUME NEW d \in Direction, SourceKey(items, d) = key
      PROVE  SourceKey(items, d) # "none" /\ ModelIn(s)[d] = NormalizeToolContent(items[i].value)
  <2>1. SourceKey(items, d) # "none"
    BY <1>2, <1>4
  <2>2. ModelIn(s)[d] = NormalizeToolContent(ValueOf(items, SourceKey(items, d)))
    BY <2>1, ModelStatus DEF items
  <2> QED  BY <1>3, <1>4, <2>1, <2>2
<1> QED  BY <1>1, <1>2, <1>4 DEF items

\* The items that a model's directions should hold and do not.
UnheldItems(s) ==
  {i \in 1..Len(ItemsOf(s)) :
     /\ ItemsOf(s)[i].key \in ManagedIn(s)
     /\ \A d \in Direction : SourceKey(ItemsOf(s), d) = ItemsOf(s)[i].key =>
          ModelIn(s)[d] \notin Whole}

LEMMA UnheldAreCounted ==
  ASSUME NEW s \in RawSpan
  PROVE  Cardinality(UnheldItems(s)) <= Cardinality(OmittedIn(s))
<1> DEFINE items == ItemsOf(s)
           direction(i) == CHOOSE d \in Direction : SourceKey(items, d) = items[i].key
           f == [i \in UnheldItems(s) |-> direction(i)]
<1>1. items \in RawItems /\ DOMAIN items = 1..Len(items)
  BY PartsInv, RawItemsFacts
<1>2. ASSUME NEW i \in UnheldItems(s)
      PROVE  /\ i \in DOMAIN items /\ direction(i) \in OmittedIn(s)
             /\ SourceKey(items, direction(i)) = items[i].key
  <2>1. /\ i \in DOMAIN items /\ items[i].key \in ManagedIn(s)
        /\ \A d \in Direction : SourceKey(items, d) = items[i].key => ModelIn(s)[d] \notin Whole
    BY <1>1 DEF UnheldItems
  <2>2. \E d \in Direction : SourceKey(items, d) = items[i].key
    BY <2>1, ManagedItem
  <2>3. direction(i) \in Direction /\ SourceKey(items, direction(i)) = items[i].key
    BY <2>2
  <2> DEFINE d == direction(i)
  <2> HIDE DEF d
  <2>4. d \in Direction /\ SourceKey(items, d) = items[i].key
    BY <2>3 DEF d
  <2>5. ModelIn(s)[d] = NormalizeToolContent(items[i].value) /\ ModelIn(s)[d] \notin Whole
    BY <2>1, <2>4, ManagedItem
  <2>6. ModelIn(s)[d] \in Statuses
    BY <2>5, StatusOfBody
  <2>7. Omitted(ModelIn(s)[d])
    BY <2>5, <2>6 DEF Omitted, Statuses
  <2>8. d \in OmittedIn(s)
    BY <2>1, <2>4, <2>7 DEF OmittedIn
  <2> QED  BY <2>1, <2>4, <2>8 DEF d
<1>3. f \in [UnheldItems(s) -> OmittedIn(s)]
  BY <1>2
<1>4. ASSUME NEW i \in UnheldItems(s), NEW j \in UnheldItems(s), f[i] = f[j] PROVE i = j
  <2>1. items[i].key = items[j].key
    BY <1>2, <1>4
  <2> QED  BY <1>1, <1>2, <2>1, RawItemsFacts
<1>5. f \in Injection(UnheldItems(s), OmittedIn(s))
  <2>1. DOMAIN f = UnheldItems(s)
    OBVIOUS
  <2> HIDE DEF f
  <2> QED  BY <1>3, <1>4, <2>1 DEF Injection, IsInjective
<1> QED  BY <1>5, OmittedIsFinite, FS_Injection

LEMMA NothingToldOfParts ==
  ASSUME NEW s \in RawSpan, Mapping(s).reasons = {}
  PROVE  /\ AttributesIn(s).reasons = {} /\ EventsIn(s).reasons = {} /\ ResourceIn(s).reasons = {}
         /\ LinksIn(s).reasons = {} /\ CoreReasons(s) = {} /\ s.sdk = "none"
         /\ (ManagedIn(s) # {} => \A d \in Direction : ModelIn(s)[d] = "present")
         /\ OmittedIn(s) = {}
<1>1. ToldIn(s, Mapping(s))
  BY MappedFields
<1>2. /\ AttributesIn(s).reasons = {} /\ EventsIn(s).reasons = {} /\ ResourceIn(s).reasons = {}
      /\ LinksIn(s).reasons = {} /\ CoreReasons(s) = {} /\ SdkReasons(s) = {} /\ UnheldIn(s) = {}
  BY <1>1 DEF ToldIn
<1>3. s.sdk = "none"
  BY <1>2, SpanTypes DEF SdkReasons
<1>4. ManagedIn(s) # {} => \A d \in Direction : ModelIn(s)[d] = "present"
  BY <1>2 DEF UnheldIn
<1>5. OmittedIn(s) = {}
  BY <1>4 DEF OmittedIn, Omitted, Whole
<1> QED  BY <1>2, <1>3, <1>4, <1>5

\* Nothing reported, nothing counted or cut.
LEMMA NothingToldNothingLost ==
  ASSUME NEW s \in RawSpan, Mapping(s).reasons = {}
  PROVE  /\ Mapping(s).drops = 0 /\ Mapping(s).cut = FALSE
         /\ Len(Mapping(s).events) = Len(s.events.items)
         /\ Mapping(s).links = s.links.items
         /\ s.sdk = "none" /\ s.parent # "invalid"
<1> DEFINE m == Mapping(s)
<1>1. /\ AttributesIn(s).reasons = {} /\ EventsIn(s).reasons = {} /\ ResourceIn(s).reasons = {}
      /\ LinksIn(s).reasons = {} /\ CoreReasons(s) = {} /\ s.sdk = "none" /\ OmittedIn(s) = {}
  BY NothingToldOfParts
<1>2. AttributesIn(s).drops = 0 /\ AttributesIn(s).cut = FALSE
  BY <1>1, PartsInv DEF AttributesInv, LossInv
<1>3. ResourceIn(s).drops = 0 /\ ResourceIn(s).cut = FALSE
  BY <1>1, PartsInv DEF AttributesInv, LossInv
<1>4. EventsIn(s).drops = 0 /\ Len(EventsIn(s).mapped) = Len(s.events.items)
  BY <1>1, PartsInv DEF SourceMapped
<1>5. LinksIn(s).drops = 0
  BY <1>1, PartsInv DEF SourceMapped
<1>6. EventsIn(s).cut = FALSE
  BY <1>1, SpanTypes, MapEventsFacts DEF EventsIn
<1>7. LinksIn(s).mapped = s.links.items
  BY <1>1, SpanTypes, MapLinksFacts DEF LinksIn
<1>8. CoreCut(s) = FALSE /\ ScopeCut(s) = FALSE /\ s.parent # "invalid"
  <2>1. SafeLeaf(s.name).cut \in BOOLEAN /\ SafeLeaf(s.scope).cut \in BOOLEAN
    BY SpanTypes, SafeLeafFacts DEF LeafRead
  <2>2. s.parent # "invalid"
    BY <1>1 DEF CoreReasons
  <2>3. ~CoreCut(s) /\ ~ScopeCut(s)
    BY <1>1 DEF CoreReasons
  <2>4. CoreCut(s) \in BOOLEAN /\ ScopeCut(s) \in BOOLEAN
    BY <2>1 DEF CoreCut, ScopeCut
  <2> QED  BY <2>2, <2>3, <2>4
<1>9. m.drops = AttributesIn(s).drops + EventsIn(s).drops + ResourceIn(s).drops
                + LinksIn(s).drops + (IF s.sdk = "some" THEN 1 ELSE 0) + Cardinality(OmittedIn(s))
  BY MappedFields
<1>10. m.cut = (AttributesIn(s).cut \/ EventsIn(s).cut \/ ResourceIn(s).cut
                \/ CoreCut(s) \/ ScopeCut(s))
  BY MappedFields
<1>11. m.events = EventsIn(s).mapped /\ m.links = LinksIn(s).mapped
  BY MappedFields
<1> HIDE DEF m
<1>12. m.drops = 0
  <2>1. Cardinality(OmittedIn(s)) = 0
    BY <1>1, FS_EmptySet
  <2>2. (IF s.sdk = "some" THEN 1 ELSE 0) = 0
    BY <1>1
  <2> QED  BY <1>2, <1>3, <1>4, <1>5, <1>9, <2>1, <2>2
<1>13. m.cut = FALSE
  BY <1>2, <1>3, <1>6, <1>8, <1>10
<1>14. Len(m.events) = Len(s.events.items) /\ m.links = s.links.items
  BY <1>4, <1>7, <1>11
<1> QED  BY <1>1, <1>8, <1>12, <1>13, <1>14 DEF m

\* For the span that was mapped.
LEMMA NothingToldAllKept ==
  ASSUME raw \in RawSpan, mapped = Mapping(raw), mapped.reasons = {},
         NEW i \in DOMAIN raw.attributes.items
  PROVE  LET item == raw.attributes.items[i]
         IN  IsKept(item) /\ Lossless(TakenAs(item), item.value)
<1> DEFINE items == raw.attributes.items
           item == items[i]
           v == item.value
           a == AttributesIn(raw)
<1>0. items = ItemsOf(raw) /\ items \in RawItems /\ DOMAIN items = 1..Len(items)
  BY PartsInv, RawItemsFacts DEF ItemsOf
<1>1. /\ a.reasons = {}
      /\ (ManagedIn(raw) # {} => \A d \in Direction : ModelIn(raw)[d] = "present")
  BY NothingToldOfParts
<1>2. KeptInv(a, items, FALSE, ToolIn(raw)) /\ LossInv(Len(items), a, items, FALSE, ManagedIn(raw))
  BY <1>0, PartsInv DEF AttributesInv
<1>3. /\ mapped.attributes = a.kept
      /\ mapped.model = (IF ManagedIn(raw) = {} THEN [d \in Direction |-> "none"] ELSE ModelIn(raw))
  BY MappedFields
<1>4. TakenAs(item) = KeyAt(i, items, FALSE)
  BY DEF TakenAs, KeyAt, OperationOf
<1> HIDE DEF a
<1>5. CASE item.key \notin ManagedIn(raw)
  <2> DEFINE key == KeyAt(i, items, FALSE)
  <2>1. key \in DOMAIN a.kept /\ WholeAs(key, v)
    BY <1>0, <1>1, <1>2, <1>5 DEF LossInv
  <2> HIDE DEF key
  <2>2. IsKept(item)
    BY <1>3, <1>4, <2>1 DEF IsKept, key
  <2>3. key \notin ModelSourceKeys(items)
    <3>1. SUFFICES ASSUME key \in ModelSourceKeys(items) PROVE FALSE
      OBVIOUS
    <3>2. PICK d \in Direction : key = SourceKey(items, d) /\ key # "none"
      BY <3>1 DEF ModelSourceKeys
    <3>3. ~Allowed(key, FALSE)
      BY <3>2, MessageKeys
    <3>4. Allowed(key, FALSE)
      BY <1>2, <2>1 DEF KeptInv
    <3> QED  BY <3>3, <3>4
  <2>4. Lossless(key, v)
    BY <2>1, <2>3 DEF Lossless, WholeAs, Spoilt
  <2> QED  BY <1>4, <2>2, <2>4 DEF key
<1>6. CASE item.key \in ManagedIn(raw)
  <2>1. /\ ManagedIn(raw) = ModelSourceKeys(items) /\ ObservedOperation(items) \in ModelOperations
        /\ \E d \in Direction : SourceKey(items, d) = item.key
        /\ \A d \in Direction : SourceKey(items, d) = item.key =>
             /\ SourceKey(items, d) # "none"
             /\ ModelIn(raw)[d] = NormalizeToolContent(v)
    BY <1>0, <1>6, ManagedItem
  <2>2. PICK d \in Direction : SourceKey(items, d) = item.key
    BY <2>1
  <2>3. ModelIn(raw)[d] = "present" /\ NormalizeToolContent(v) = "present" /\ mapped.model[d] = "present"
    BY <1>1, <1>3, <1>6, <2>1, <2>2
  <2>4. IsKept(item)
    BY <2>2, <2>3 DEF IsKept, Whole
  <2>5. SemanticKey(item.key, ObservedOperation(items)) = "none" /\ item.key \in ModelSourceKeys(items)
    BY <2>1, <2>2, MessageKeys
  <2>6. TakenAs(item) = item.key
    BY <2>5 DEF TakenAs, CanonicalKey
  <2>7. Lossless(TakenAs(item), v)
    BY <2>3, <2>5, <2>6 DEF Lossless
  <2> QED  BY <2>4, <2>7
<1> QED  BY <1>5, <1>6

LEMMA MissingAreCounted ==
  ASSUME raw \in RawSpan, mapped = Mapping(raw)
  PROVE  mapped.drops >=
           Cardinality({item \in ToSet(raw.attributes.items) : ~IsKept(item)})
           + (IF raw.links.sized THEN Len(raw.links.items) - Len(mapped.links) ELSE 0)
           + (IF raw.events.sized THEN Len(raw.events.items) - Len(mapped.events) ELSE 0)
<1> DEFINE items == raw.attributes.items
           a == AttributesIn(raw)
           e == EventsIn(raw)
           l == LinksIn(raw)
           managed == ManagedIn(raw)
           lost == LostAmong(Len(items), a, items, FALSE, managed)
           unheld == UnheldItems(raw)
           missing == {item \in ToSet(items) : ~IsKept(item)}
           f == [i \in lost \cup unheld |-> items[i]]
<1>0. items = ItemsOf(raw) /\ items \in RawItems /\ DOMAIN items = 1..Len(items) /\ Len(items) \in Nat
  BY PartsInv, RawItemsFacts DEF ItemsOf
<1>1. /\ mapped.attributes = a.kept /\ mapped.events = e.mapped /\ mapped.links = l.mapped
      /\ mapped.model = (IF managed = {} THEN [d \in Direction |-> "none"] ELSE ModelIn(raw))
      /\ mapped.drops = a.drops + e.drops + ResourceIn(raw).drops + l.drops
                        + (IF raw.sdk = "some" THEN 1 ELSE 0) + Cardinality(OmittedIn(raw))
  BY MappedFields
<1>2. a.drops >= Cardinality(lost)
  BY <1>0, PartsInv DEF AttributesInv, LossInv
<1>3. SourceMapped(raw.events, e) /\ SourceMapped(raw.links, l)
  BY PartsInv
<1>4. /\ a.drops \in Nat /\ e.drops \in Nat /\ ResourceIn(raw).drops \in Nat /\ l.drops \in Nat
      /\ Cardinality(OmittedIn(raw)) \in Nat
  BY PartsInv, OmittedIsFinite DEF AttributesInv, SourceMapped, IsAcc, CountsLosses
<1>5. lost \subseteq 1..Len(items) /\ unheld \subseteq 1..Len(items)
  BY <1>0 DEF LostAmong, UnheldItems
<1> HIDE DEF a, e, l, managed
<1>6. ASSUME NEW item \in missing PROVE \E i \in lost \cup unheld : items[i] = item
  <2>1. PICK i \in 1..Len(items) : items[i] = item
    BY <1>0 DEF ToSet
  <2>2. ~IsKept(items[i])
    BY <2>1
  <2>3. CASE items[i].key \notin managed
    <3>1. TakenAs(items[i]) = KeyAt(i, items, FALSE)
      BY DEF TakenAs, KeyAt, OperationOf
    <3>2. KeyAt(i, items, FALSE) \notin DOMAIN a.kept
      BY <1>1, <2>2, <3>1 DEF IsKept
    <3>3. i \in lost
      BY <2>3, <3>2 DEF LostAmong
    <3> QED  BY <2>1, <3>3
  <2>4. CASE items[i].key \in managed
    <3>1. ASSUME NEW d \in Direction, SourceKey(items, d) = items[i].key
          PROVE  ModelIn(raw)[d] \notin Whole
      <4>1. mapped.model[d] = ModelIn(raw)[d]
        BY <1>1, <2>4
      <4> QED  BY <2>2, <3>1, <4>1 DEF IsKept
    <3>2. i \in unheld
      BY <1>0, <2>4, <3>1 DEF UnheldItems, managed
    <3> QED  BY <2>1, <3>2
  <2> QED  BY <2>3, <2>4
<1>7. IsFiniteSet(lost) /\ IsFiniteSet(unheld) /\ Cardinality(lost) \in Nat /\ Cardinality(unheld) \in Nat
  <2>1. IsFiniteSet(1..Len(items))
    BY <1>0, FS_Interval
  <2> HIDE DEF lost, unheld, items
  <2> QED  BY <1>5, <2>1, FS_Subset, FS_CardinalityType
<1>8. Cardinality(missing) \in Nat /\ Cardinality(missing) <= Cardinality(lost) + Cardinality(unheld)
  <2> DEFINE all == lost \cup unheld
             taken == {items[i] : i \in all}
  <2>1. f \in Surjection(all, taken)
    BY DEF Surjection
  <2>2. missing \subseteq taken
    BY <1>6
  <2>3. IsFiniteSet(all) /\ Cardinality(all) <= Cardinality(lost) + Cardinality(unheld)
        /\ Cardinality(all) \in Nat
    <3> HIDE DEF lost, unheld
    <3>1. IsFiniteSet(lost \cap unheld)
      BY <1>7, FS_Subset
    <3>2. Cardinality(lost \cap unheld) \in Nat
      BY <3>1, FS_CardinalityType
    <3>3. IsFiniteSet(all) /\ Cardinality(all) = Cardinality(lost) + Cardinality(unheld)
                                                 - Cardinality(lost \cap unheld)
      BY <1>7, FS_Union
    <3>4. Cardinality(all) \in Nat
      BY <3>3, FS_CardinalityType
    <3> HIDE DEF all
    <3> QED  BY <1>7, <3>2, <3>3, <3>4
  <2> HIDE DEF all, taken, f, missing
  <2>4. IsFiniteSet(taken) /\ Cardinality(taken) <= Cardinality(all)
    BY <2>1, <2>3, FS_Surjection
  <2>5. IsFiniteSet(missing) /\ Cardinality(missing) <= Cardinality(taken)
    BY <2>2, <2>4, FS_Subset
  <2>6. Cardinality(missing) \in Nat /\ Cardinality(taken) \in Nat
    BY <2>4, <2>5, FS_CardinalityType
  <2> HIDE DEF lost, unheld
  <2> QED  BY <1>7, <2>3, <2>4, <2>5, <2>6
<1>9. Cardinality(unheld) <= Cardinality(OmittedIn(raw))
  BY UnheldAreCounted
<1> DEFINE ofLinks == IF raw.links.sized THEN Len(raw.links.items) - Len(mapped.links) ELSE 0
           ofEvents == IF raw.events.sized THEN Len(raw.events.items) - Len(mapped.events) ELSE 0
           sdk == IF raw.sdk = "some" THEN 1 ELSE 0
<1>10. /\ raw.links.sized \in BOOLEAN /\ raw.events.sized \in BOOLEAN
       /\ raw.links.items \in Seq(STRING) /\ raw.events.items \in Seq(RawEvent)
  BY SpanTypes DEF RawSource
<1>11. Len(raw.links.items) \in Nat /\ Len(raw.events.items) \in Nat
  BY <1>10, LenProperties
<1>12. ofLinks \in Int /\ l.drops >= ofLinks
  <2>1. Len(l.mapped) \in Nat /\ (raw.links.sized = TRUE => l.drops + Len(l.mapped) >= Len(raw.links.items))
    BY <1>3 DEF SourceMapped
  <2>2. CASE raw.links.sized = TRUE
    <3>1. ofLinks = Len(raw.links.items) - Len(l.mapped)
      BY <1>1, <2>2
    <3>2. Len(l.mapped) \in Nat /\ l.drops + Len(l.mapped) >= Len(raw.links.items)
      BY <2>1, <2>2
    <3> HIDE DEF ofLinks
    <3> DEFINE all == Len(raw.links.items)
               some == Len(l.mapped)
               drops == l.drops
    <3>3. all \in Nat /\ some \in Nat /\ drops \in Nat /\ drops + some >= all /\ ofLinks = all - some
      BY <1>4, <1>11, <3>1, <3>2
    <3> HIDE DEF all, some, drops
    <3>4. ofLinks \in Int /\ drops >= ofLinks
      BY <3>3
    <3> QED  BY <3>4 DEF drops
  <2>3. CASE raw.links.sized = FALSE
    <3>1. ofLinks = 0
      BY <2>3
    <3> HIDE DEF ofLinks
    <3> QED  BY <1>4, <3>1
  <2> QED  BY <1>10, <2>2, <2>3
<1>13. ofEvents \in Int /\ e.drops >= ofEvents
  <2>1. Len(e.mapped) \in Nat /\ (raw.events.sized = TRUE => e.drops + Len(e.mapped) >= Len(raw.events.items))
    BY <1>3 DEF SourceMapped
  <2>2. CASE raw.events.sized = TRUE
    <3>1. ofEvents = Len(raw.events.items) - Len(e.mapped)
      BY <1>1, <2>2
    <3>2. Len(e.mapped) \in Nat /\ e.drops + Len(e.mapped) >= Len(raw.events.items)
      BY <2>1, <2>2
    <3> HIDE DEF ofEvents
    <3> DEFINE all == Len(raw.events.items)
               some == Len(e.mapped)
               drops == e.drops
    <3>3. all \in Nat /\ some \in Nat /\ drops \in Nat /\ drops + some >= all /\ ofEvents = all - some
      BY <1>4, <1>11, <3>1, <3>2
    <3> HIDE DEF all, some, drops
    <3>4. ofEvents \in Int /\ drops >= ofEvents
      BY <3>3
    <3> QED  BY <3>4 DEF drops
  <2>3. CASE raw.events.sized = FALSE
    <3>1. ofEvents = 0
      BY <2>3
    <3> HIDE DEF ofEvents
    <3> QED  BY <1>4, <3>1
  <2> QED  BY <1>10, <2>2, <2>3
<1>14. sdk \in Nat
  OBVIOUS
<1>15. mapped.drops = a.drops + e.drops + ResourceIn(raw).drops + l.drops + sdk
                      + Cardinality(OmittedIn(raw))
  BY <1>1
<1> HIDE DEF ofLinks, ofEvents, sdk, missing, lost, unheld
<1>16. mapped.drops >= Cardinality(missing) + ofLinks + ofEvents
  BY <1>2, <1>4, <1>7, <1>8, <1>9, <1>12, <1>13, <1>14, <1>15
<1> QED  BY <1>16 DEF missing, ofLinks, ofEvents

----------------------------------------------------------------------------
(* The specification.                                                      *)

\* The result is that of the mapping, of a span of the right type.
MappingInv == raw \in RawSpan /\ (mapped = NotMapped \/ mapped = Mapping(raw))

LEMMA MappingInvHolds == MappingSpec => []MappingInv
<1>1. MappingInit => MappingInv
  BY MappingAssumption DEF MappingInit, MappingInv
<1>2. MappingInv /\ [MapSpan]_mappingVars => MappingInv'
  BY DEF MappingInv, MapSpan, mappingVars
<1> QED  BY <1>1, <1>2, PTL DEF MappingSpec

\* Whatever span ends, what the mapper makes of it passes the validator of its
\* artifact, but for the two inputs that the property names.
THEOREM MappedSpansAreValid == MappingSpec => []MappedIsValid
<1>1. MappingInv => MappedIsValid
  <2>1. SUFFICES ASSUME MappingInv, mapped.made, raw.parent # "itself",
                        ~MisnamesTool(raw.attributes.items)
                 PROVE  ValidSpan(mapped) /\ ValidLosses(mapped)
    BY DEF MappedIsValid, MisnamesTool
  <2>2. raw \in RawSpan /\ mapped = Mapping(raw)
    BY <2>1 DEF MappingInv, NotMapped
  <2>3. ~MisnamesTool(ItemsOf(raw))
    BY <2>1 DEF ItemsOf
  <2> QED  BY <2>1, <2>2, <2>3, MappingIsValidSpan, MappingHasValidLosses
<1> QED  BY <1>1, MappingInvHolds, PTL

\* Whatever span ends, nothing of it is missing that is not counted, and a
\* mapping that reports nothing has lost nothing.
THEOREM MappingLossesAreAdmitted == MappingSpec => []MappingAdmitsLoss
<1>1. MappingInv => MappingAdmitsLoss
  <2>1. SUFFICES ASSUME MappingInv, mapped.made PROVE MappingAdmitsLoss
    BY DEF MappingAdmitsLoss
  <2>2. raw \in RawSpan /\ mapped = Mapping(raw)
    BY <2>1 DEF MappingInv, NotMapped
  <2>3. ASSUME mapped.reasons = {}
        PROVE  /\ mapped.drops = 0 /\ ~mapped.cut
               /\ Len(mapped.events) = Len(raw.events.items)
               /\ mapped.links = raw.links.items
               /\ raw.sdk = "none" /\ raw.parent # "invalid"
    BY <2>2, <2>3, NothingToldNothingLost
  <2>4. ASSUME mapped.reasons = {}, NEW item \in ToSet(raw.attributes.items)
        PROVE  IsKept(item) /\ Lossless(TakenAs(item), item.value)
    <3>1. PICK i \in DOMAIN raw.attributes.items : item = raw.attributes.items[i]
      BY <2>4 DEF ToSet
    <3> QED  BY <2>2, <2>4, <3>1, NothingToldAllKept
  <2>5. mapped.drops >=
          Cardinality({item \in ToSet(raw.attributes.items) : ~IsKept(item)})
          + (IF raw.links.sized THEN Len(raw.links.items) - Len(mapped.links) ELSE 0)
          + (IF raw.events.sized THEN Len(raw.events.items) - Len(mapped.events) ELSE 0)
    BY <2>2, MissingAreCounted
  <2> QED  BY <2>3, <2>4, <2>5 DEF MappingAdmitsLoss
<1> QED  BY <1>1, MappingInvHolds, PTL

=============================================================================

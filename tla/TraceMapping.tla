---------------------------- MODULE TraceMapping ----------------------------
(***************************************************************************)
(* map_span: what of a finished OpenTelemetry span is kept, under which    *)
(* name, and which losses are reported (evidence/trace_mapping.py with     *)
(* trace_semantics.py, trace_tool_content.py and trace_model_content.py),  *)
(* against what the artifact's validator demands of a mapped span          *)
(* (runtime_trace_contract.py).  The mapper counts a loss where it         *)
(* happens, in four nested iterations over objects that belong to other    *)
(* people's code and may raise at every access; the validator sees the     *)
(* result alone.                                                           *)
(*                                                                         *)
(* A value is a sequence of leaves, one for a scalar, and a leaf is its    *)
(* fate: "whole" text, a "number", "long", "secret", "hidden" (sensitive   *)
(* even after redaction), "huge" (beyond the bound of a body), "unusable", *)
(* "null", or "raises"; the values of the keys that name an operation are  *)
(* themselves whole texts.                                                 *)
(***************************************************************************)
EXTENDS Integers, SequencesExt

CONSTANTS
  RawSpans,       \* the spans that may end
  MaxAttributes,  \* limits.max_attributes
  MaxEvents,      \* limits.max_events_per_span
  MaxLinks,       \* 128
  MaxList         \* 16

VARIABLES raw, mapped

mappingVars == <<raw, mapped>>

----------------------------------------------------------------------------
(* Keys, operations and values.                                            *)

Operation == "gen_ai.operation.name"
KindKey == "openinference.span.kind"
ToolContentKeys ==
  [arguments |-> "gen_ai.tool.call.arguments", result |-> "gen_ai.tool.call.result"]
Fields == DOMAIN ToolContentKeys
ToolBodies == {ToolContentKeys[f] : f \in Fields}
ToolMetadata == {"gen_ai.tool.name"}
ModelOperations == {"chat", "text_completion"}
ReservedOperations == ModelOperations \cup {"execute_tool", "invoke_agent", "invoke_workflow"}

\* attribute_key_allowed.
Allowed(key, resource) ==
  IF resource THEN key = "service.name"
  ELSE key \in {Operation, "gen_ai.request.model", "gen_ai.usage.input_tokens"}
               \cup ToolBodies \cup ToolMetadata

\* A leaf is its fate, or the whole text that names an operation.
Leaf ==
  {"whole", "number", "long", "secret", "hidden", "huge", "unusable", "null", "raises"}
  \cup ReservedOperations \cup {"embeddings", "execute_tool subclass", "TOOL", "LLM"}

\* The items that a mapping yields, under different keys.
RawItems ==
  {items \in Seq([key : STRING, value : Seq(Leaf)]) :
     \A i, j \in DOMAIN items : items[i].key = items[j].key => i = j}

\* Attributes are absent, a mapping whose iteration may break off at its end,
\* something else, or a getter that raises.
RawAttributes ==
  {a \in [form : {"absent", "mapping", "other", "raises"}, items : RawItems, breaks : BOOLEAN] :
     a.form # "mapping" => a.items = <<>>}

\* Events and links come from an iterable that knows its length or not, and may
\* break off at its end, from something else, or from a getter that raises.
RawSource(universe) ==
  {s \in [form : {"sequence", "other", "raises"}, items : Seq(universe),
          sized : BOOLEAN, breaks : BOOLEAN] :
     s.form # "sequence" => s.items = <<>>}

\* The name and the timestamp of an event may be unusable: it is broken then.
RawEvent == [broken : BOOLEAN, name : Leaf, attributes : RawAttributes]

RawSpan ==
  [readable : BOOLEAN, name : Leaf, scope : Leaf,
   parent : {"other", "none", "itself", "invalid"}, sdk : {"none", "some", "invalid"},
   attributes : RawAttributes, resource : RawAttributes,
   events : RawSource(RawEvent), links : RawSource(STRING)]

ASSUME MappingAssumption ==
  /\ RawSpans \subseteq RawSpan
  /\ {MaxAttributes, MaxEvents, MaxLinks, MaxList} \subseteq Nat \ {0}

KeysOf(items) == {items[i].key : i \in DOMAIN items}
ValueOf(items, key) == items[CHOOSE i \in DOMAIN items : items[i].key = key].value
IsList(v) == Len(v) # 1

\* observed_operation: a value whose type is a subclass of str does not count.
ObservedOperation(items) ==
  IF Operation \in KeysOf(items)
  THEN LET v == ValueOf(items, Operation)
       IN  IF ~IsList(v) /\ v[1] \in ReservedOperations \cup {"embeddings", "whole"}
           THEN v[1] ELSE "none"
  ELSE IF KindKey \in KeysOf(items)
  THEN CASE ValueOf(items, KindKey) = <<"TOOL">> -> "execute_tool"
         [] ValueOf(items, KindKey) = <<"LLM">> -> "chat"
         [] OTHER -> "none"
  ELSE "none"

\* semantic_key.
SemanticKey(key, operation) ==
  CASE operation = "none" -> "none"
    [] operation # "none" /\ key = KindKey -> Operation
    [] operation = "execute_tool" /\ key = "tool.name" -> "gen_ai.tool.name"
    [] operation = "execute_tool" /\ key = "input.value" -> ToolContentKeys.arguments
    [] operation = "execute_tool" /\ key = "output.value" -> ToolContentKeys.result
    [] operation \notin {"none", "execute_tool"} /\ key = "llm.model_name" ->
         "gen_ai.request.model"
    [] OTHER -> "none"

Reads(fate) == [kept |-> TRUE, fate |-> fate, cut |-> FALSE, drops |-> 0, reasons |-> {}]
Loses(drops, reasons) ==
  [kept |-> FALSE, fate |-> "none", cut |-> FALSE, drops |-> drops, reasons |-> reasons]

\* _safe_text and the scalar cases of _safe_value_with_drops.
SafeLeaf(leaf) ==
  CASE leaf \in {"secret", "hidden"} ->
         [Reads("redacted") EXCEPT !.cut = TRUE, !.drops = 1,
                                   !.reasons = {"trace_attribute_filtered"}]
    [] leaf \in {"long", "huge"} -> [Reads("long") EXCEPT !.cut = TRUE]
    [] leaf = "null" -> Loses(0, {})
    [] leaf \in {"unusable", "raises"} -> Loses(1, {"trace_attribute_invalid"})
    [] leaf = "execute_tool subclass" -> Reads("execute_tool")
    [] OTHER -> Reads(leaf)

\* _safe_value_with_drops: a list keeps what its children keep, and each of the
\* others is one loss, as is what a child counts and what is beyond the bound.
SafeList(v) ==
  LET beyond == Len(v) > MaxList
      read == 1 .. (IF beyond THEN MaxList ELSE Len(v))
      child == [i \in read |-> SafeLeaf(v[i])]
  IN  [kept |-> TRUE, fate |-> "list",
       cut |-> beyond \/ \E i \in read : child[i].cut,
       drops |-> (IF beyond THEN Len(v) - MaxList ELSE 0)
                 + Cardinality({i \in read : ~child[i].kept \/ child[i].drops > 0}),
       reasons |-> (IF beyond THEN {"trace_attribute_limit"} ELSE {})
                   \cup (UNION {child[i].reasons : i \in read})
                   \cup (IF \E i \in read : ~child[i].kept
                         THEN {"trace_attribute_invalid"} ELSE {})]

SafeValue(v) ==
  IF ~IsList(v) THEN SafeLeaf(v[1])
  ELSE IF "raises" \in ToSet(v) THEN Loses(1, {"trace_attribute_invalid"})
  ELSE SafeList(v)

\* normalize_tool_content, with redaction: the first that applies.
NormalizeToolContent(v) ==
  LET leaves == ToSet(v)
  IN  CASE leaves \cap {"unusable", "raises"} # {} -> "invalid"
        [] leaves \cap {"unusable", "raises"} = {} /\ "huge" \in leaves -> "size_limit"
        [] leaves \cap {"unusable", "raises", "huge"} = {} /\ "hidden" \in leaves ->
             "sensitive_content"
        [] OTHER -> IF "secret" \in leaves THEN "redacted" ELSE "present"

Suffix(status) == IF status = "sensitive_content" THEN "sensitive" ELSE status
ToolReason(status) == "trace_tool_content_" \o Suffix(status)
ModelReason(status) == "trace_model_content_" \o Suffix(status)
Whole == {"present", "redacted"}

----------------------------------------------------------------------------
(* Attributes.                                                             *)

\* tool: the status of each body, or NoTool where bodies have no place.
NoTool == [f \in Fields |-> "none"]
Unrecorded == [f \in Fields |-> "not_recorded"]

EmptyAttributes(tool) ==
  [kept |-> [k \in {} |-> "none"], drops |-> 0, cut |-> FALSE, reasons |-> {}, tool |-> tool]

Put(kept, key, fate) ==
  [k \in DOMAIN kept \cup {key} |-> IF k = key THEN fate ELSE kept[k]]

LosesItem(acc, cut, reason) ==
  [acc EXCEPT !.drops = @ + 1, !.cut = @ \/ cut, !.reasons = @ \cup {reason}]

\* An iteration over what another program holds may break off at its end.
BrokenOff(breaks, acc, reason) == IF breaks THEN LosesItem(acc, TRUE, reason) ELSE acc

\* _safe_tool_attribute.
ToolAttribute(acc, key, value) ==
  LET field == CHOOSE f \in Fields : ToolContentKeys[f] = key
      retain == Cardinality(DOMAIN acc.kept) < MaxAttributes
      status == IF retain THEN NormalizeToolContent(value) ELSE "size_limit"
      told == [acc EXCEPT !.tool[field] = status]
      reason == {ToolReason(status)}
  IN  CASE status = "present" -> [told EXCEPT !.kept = Put(@, key, "body")]
        [] status = "redacted" ->
             [told EXCEPT !.kept = Put(@, key, "body"), !.reasons = @ \cup reason]
        [] OTHER ->
             [told EXCEPT !.drops = @ + 1, !.cut = TRUE, !.reasons = @ \cup reason
                \cup IF retain THEN {} ELSE {"trace_attribute_limit"}]

WithValue(acc, key, s) ==
  IF ~s.kept
  THEN [acc EXCEPT !.drops = @ + IF s.drops > 1 THEN s.drops ELSE 1,
          !.reasons = @ \cup s.reasons \cup {"trace_attribute_invalid"}]
  ELSE [acc EXCEPT !.kept = Put(@, key, s.fate), !.drops = @ + s.drops, !.cut = @ \/ s.cut,
          !.reasons = @ \cup s.reasons \cup
            IF s.cut /\ s.reasons = {} THEN {"trace_value_truncated"} ELSE {}]

\* _safe_attribute, for an item under its canonical key.
SafeAttribute(acc, key, value, resource) ==
  IF key = "invalid" THEN LosesItem(acc, TRUE, "trace_attribute_invalid")
  ELSE IF ~Allowed(key, resource)
  THEN LosesItem(acc, FALSE, IF key = "private" THEN "trace_attribute_filtered"
                             ELSE "trace_attribute_not_allowlisted")
  ELSE IF key \in ToolBodies \cup ToolMetadata /\ acc.tool = NoTool
  THEN LosesItem(acc, FALSE, "trace_attribute_not_allowlisted")
  ELSE IF key \in ToolBodies THEN ToolAttribute(acc, key, value)
  ELSE IF Cardinality(DOMAIN acc.kept) >= MaxAttributes
  THEN LosesItem(acc, TRUE, "trace_attribute_limit")
  ELSE IF key \in ToolMetadata /\ (IsList(value) \/ value[1] \in {"number", "unusable", "null", "raises"})
  THEN LosesItem(acc, FALSE, "trace_attribute_invalid")
  ELSE WithValue(acc, key, SafeValue(value))

\* Mutant: an item takes the canonical name that another item has.
MutCanonicalKey(key, items, operation) ==
  LET canonical == SemanticKey(key, operation)
  IN  IF canonical # "none" THEN canonical ELSE key

\* _semantic_items: the key an item is taken under.
CanonicalKey(key, items, operation) ==
  LET canonical == SemanticKey(key, operation)
  IN  IF canonical # "none" /\ canonical \notin KeysOf(items) THEN canonical ELSE key

\* The operation that the keys of a span or event are read under; a resource has
\* none.
OperationOf(items, resource) == IF resource THEN "none" ELSE ObservedOperation(items)
Reserves(items, resource) == OperationOf(items, resource) \in ReservedOperations

\* The reserved operation is kept before any attribute.
FirstOf(items, resource, tool) ==
  IF Reserves(items, resource)
  THEN [EmptyAttributes(tool) EXCEPT !.kept = Put(@, Operation, OperationOf(items, resource))]
  ELSE EmptyAttributes(tool)

\* What the model's bodies manage, and the reserved operation, are not taken.
TakeItem(acc, item, items, resource, managed) ==
  LET key == CanonicalKey(item.key, items, OperationOf(items, resource))
  IN  IF item.key \in managed \/ (key = Operation /\ Reserves(items, resource)) THEN acc
      ELSE SafeAttribute(acc, key, item.value, resource)

\* _safe_attributes.
SafeAttributes(attributes, resource, tool, managed) ==
  LET items == attributes.items
      take(acc, item) == TakeItem(acc, item, items, resource, managed)
      taken == FoldLeft(take, FirstOf(items, resource, tool), items)
  IN  CASE attributes.form = "absent" -> EmptyAttributes(tool)
        [] attributes.form = "raises" ->
             [EmptyAttributes(tool) EXCEPT !.reasons = {"trace_attribute_invalid"}]
        [] attributes.form = "other" ->
             LosesItem(EmptyAttributes(tool), TRUE, "trace_attribute_invalid")
        [] OTHER -> BrokenOff(attributes.breaks, taken, "trace_attribute_invalid")

\* model_source_keys: in each direction the native messages, or a generic
\* value, or the flattened messages.
Direction == {"input", "output"}
Native(d) == IF d = "input" THEN "gen_ai.input.messages" ELSE "gen_ai.output.messages"
Generic(d) == IF d = "input" THEN "input.value" ELSE "output.value"
Flat(d) == IF d = "input" THEN "llm.input_messages.0" ELSE "llm.output_messages.0"

SourceKey(items, d) ==
  CASE Native(d) \in KeysOf(items) -> Native(d)
    [] Native(d) \notin KeysOf(items) /\ Generic(d) \in KeysOf(items) -> Generic(d)
    [] OTHER -> IF Flat(d) \in KeysOf(items) THEN Flat(d) ELSE "none"

ModelSourceKeys(items) == {SourceKey(items, d) : d \in Direction} \ {"none"}

\* map_model_content, with _source_value.
ModelContent(items) ==
  [d \in Direction |->
     IF SourceKey(items, d) = "none" THEN "not_recorded"
     ELSE NormalizeToolContent(ValueOf(items, SourceKey(items, d)))]

Omitted(status) == status \notin Whole \cup {"not_recorded", "none"}

----------------------------------------------------------------------------
(* Events, links, scope and the core of a span.                            *)

\* Mutant: the rest counts as one.
MutOverflow(source, limit) == IF Len(source.items) <= limit THEN 0 ELSE 1

\* _event_limit_drop_count: a source knows its length or not, and its iteration
\* may break off at its end.
Overflow(source, limit) ==
  IF Len(source.items) <= limit THEN 0
  ELSE IF source.sized THEN Len(source.items) - limit ELSE 1

Upto(items, limit) == SubSeq(items, 1, IF Len(items) > limit THEN limit ELSE Len(items))
Broken(source, limit) == source.breaks /\ Len(source.items) <= limit

NoEvents == [mapped |-> <<>>, drops |-> 0, cut |-> FALSE, reasons |-> {}]

\* _map_event: its name and its timestamp may be unusable, and the getter of its
\* attributes may raise; the event is lost then.
WithEvent(acc, attributes, name) ==
  [mapped |-> Append(acc.mapped, attributes.kept),
   drops |-> acc.drops + attributes.drops,
   cut |-> acc.cut \/ attributes.cut \/ name.cut,
   reasons |-> acc.reasons \cup attributes.reasons
               \cup IF name.cut THEN {"trace_value_truncated"} ELSE {}]

MapEvent(acc, event) ==
  IF event.broken \/ event.attributes.form = "raises"
  THEN LosesItem(acc, TRUE, "trace_event_invalid")
  ELSE WithEvent(acc, SafeAttributes(event.attributes, FALSE, NoTool, {}), SafeLeaf(event.name))

\* _map_events.
WithRest(acc, over, breaks) ==
  IF over > 0
  THEN [acc EXCEPT !.drops = @ + over, !.cut = TRUE, !.reasons = @ \cup {"trace_event_limit"}]
  ELSE BrokenOff(breaks, acc, "trace_event_invalid")

MapEvents(source) ==
  LET taken == FoldLeft(MapEvent, NoEvents, Upto(source.items, MaxEvents))
  IN  CASE source.form = "raises" -> [NoEvents EXCEPT !.reasons = {"trace_event_invalid"}]
        [] source.form = "other" -> LosesItem(NoEvents, TRUE, "trace_event_invalid")
        [] OTHER -> WithRest(taken, Overflow(source, MaxEvents), Broken(source, MaxEvents))

NoLinks == [mapped |-> <<>>, drops |-> 0, cut |-> FALSE, reasons |-> {}]

\* _map_links: invalid and repeated links are losses.
TakeLink(acc, link) ==
  CASE link = "invalid" -> LosesItem(acc, FALSE, "trace_link_invalid")
    [] link # "invalid" /\ link \in ToSet(acc.mapped) ->
         LosesItem(acc, FALSE, "trace_link_duplicate")
    [] OTHER -> [acc EXCEPT !.mapped = Append(@, link)]

MapLinks(source) ==
  LET taken == FoldLeft(TakeLink, NoLinks, Upto(source.items, MaxLinks))
      over == Overflow(source, MaxLinks)
  IN  IF source.form \in {"raises", "other"} \/ Broken(source, MaxLinks)
      THEN LosesItem(taken, FALSE, "trace_link_invalid")
      ELSE IF over > 0
      THEN [taken EXCEPT !.drops = @ + over, !.reasons = @ \cup {"trace_link_limit"}]
      ELSE taken

\* _span_core and _map_scope: what they cut, and what they could not read.
CoreCut(s) == SafeLeaf(s.name).cut \/ s.name = "raises"
ScopeCut(s) == SafeLeaf(s.scope).cut \/ s.scope = "raises"

CoreReasons(s) ==
  (IF s.name = "raises" THEN {"trace_value_invalid"} ELSE {})
  \cup (IF s.parent = "invalid" THEN {"trace_parent_invalid"} ELSE {})
  \cup (IF s.scope = "raises" THEN {"trace_scope_invalid"} ELSE {})
  \cup (IF CoreCut(s) \/ ScopeCut(s) THEN {"trace_value_truncated"} ELSE {})

\* _sdk_drop_count: what the SDK itself says it dropped.
SdkReasons(s) ==
  CASE s.sdk = "invalid" -> {"trace_value_invalid"}
    [] s.sdk = "some" -> {"trace_event_limit"}
    [] OTHER -> {}

----------------------------------------------------------------------------

NotMapped == [made |-> FALSE]

\* map_span: the parts of a span, put together.
MappedSpan(s, managed, attributes, model, events, resource, links) ==
  [made |-> TRUE,
   parent |-> IF s.parent = "invalid" THEN "none" ELSE s.parent,
   attributes |-> attributes.kept,
   tool |-> attributes.tool,
   model |-> IF managed = {} THEN [d \in Direction |-> "none"] ELSE model,
   events |-> events.mapped, resource |-> resource.kept, links |-> links.mapped,
   drops |-> attributes.drops + events.drops + resource.drops + links.drops
             + (IF s.sdk = "some" THEN 1 ELSE 0)
             + Cardinality({d \in Direction : managed # {} /\ Omitted(model[d])}),
   cut |-> attributes.cut \/ events.cut \/ resource.cut \/ CoreCut(s) \/ ScopeCut(s),
   reasons |->
     attributes.reasons \cup events.reasons \cup resource.reasons \cup links.reasons
     \cup CoreReasons(s) \cup SdkReasons(s)
     \cup (IF "not_recorded" \in {attributes.tool[f] : f \in Fields}
           THEN {ToolReason("not_recorded")} ELSE {})
     \cup {ModelReason(model[d]) :
             d \in {e \in Direction : managed # {} /\ model[e] # "present"}}]

Mapping(s) ==
  LET items == s.attributes.items
      operation == ObservedOperation(items)
      tool == IF operation = "execute_tool" THEN Unrecorded ELSE NoTool
      managed == IF operation \in ModelOperations THEN ModelSourceKeys(items) ELSE {}
  IN  MappedSpan(s, managed, SafeAttributes(s.attributes, FALSE, tool, managed),
                 ModelContent(items), MapEvents(s.events),
                 SafeAttributes(s.resource, TRUE, NoTool, {}), MapLinks(s.links))

MappingInit == raw \in RawSpans /\ mapped = NotMapped

\* A span whose identity or times cannot be read is refused as a whole.
MapSpan ==
  /\ ~mapped.made /\ raw.readable
  /\ mapped' = Mapping(raw)
  /\ UNCHANGED raw

MappingSpec == MappingInit /\ [][MapSpan]_mappingVars

----------------------------------------------------------------------------
(* The validator.                                                          *)

\* _attributes: the keys that may be there.
ValidAttributes(kept, resource, tool) ==
  \A k \in DOMAIN kept :
    /\ Allowed(k, resource)
    /\ k \in ToolBodies \cup ToolMetadata => tool /\ ~resource
    /\ k \in ToolMetadata => kept[k] \notin {"number", "list"}

\* _span.
ValidSpan(m) ==
  LET operation == IF Operation \in DOMAIN m.attributes THEN m.attributes[Operation] ELSE "none"
      tool == operation = "execute_tool"
  IN  /\ tool <=> m.tool # NoTool
      /\ m.model["input"] # "none" => operation \in ModelOperations
      /\ m.parent # "itself"
      /\ ValidAttributes(m.attributes, FALSE, tool)
      /\ ValidAttributes(m.resource, TRUE, FALSE)
      /\ \A i \in DOMAIN m.events : ValidAttributes(m.events[i], FALSE, FALSE)
      /\ Len(m.links) <= MaxLinks /\ IsInjective(m.links)
      /\ tool => \A f \in Fields :
           m.tool[f] \in Whole <=> ToolContentKeys[f] \in DOMAIN m.attributes

\* _validate_capture and _validate_model_losses, for a capture of this span.
ValidLosses(m) ==
  /\ \A f \in Fields : m.tool[f] \notin {"present", "none"} =>
       ToolReason(m.tool[f]) \in m.reasons
  /\ \A d \in Direction : m.model[d] \notin {"present", "none"} =>
       ModelReason(m.model[d]) \in m.reasons
  /\ Cardinality({f \in Fields : Omitted(m.tool[f])})
     + Cardinality({d \in Direction : Omitted(m.model[d])}) <= m.drops

----------------------------------------------------------------------------
(* Properties.                                                             *)

\* The statuses of a managed body; "none" where nothing is managed.
Status == {"none", "not_recorded", "present", "redacted", "sensitive_content",
           "size_limit", "invalid"}

\* Type invariant: what is mapped has its fields, its counts are numbers, its
\* bodies have a status, and its links are among those of the span.
MappingTypeOK ==
  /\ mapped.made \in BOOLEAN
  /\ mapped.made =>
       /\ mapped.parent \in {"other", "none", "itself"}
       /\ mapped.drops \in Nat /\ mapped.cut \in BOOLEAN
       /\ DOMAIN mapped.attributes \cup DOMAIN mapped.resource \subseteq STRING
       /\ mapped.tool \in [Fields -> Status] /\ mapped.model \in [Direction -> Status]
       /\ Len(mapped.events) <= MaxEvents /\ ToSet(mapped.links) \subseteq ToSet(raw.links.items)
       /\ mapped.reasons \subseteq STRING

\* What the mapper makes of any span passes the validator of its artifact, which
\* refuses the whole Evidence otherwise - but for two inputs: a span that names
\* itself as its parent, and an operation "execute_tool" in a subclass of str,
\* which is kept as the operation and not observed as one.
MappedIsValid ==
  mapped.made /\ raw.parent # "itself"
  /\ ~(Operation \in KeysOf(raw.attributes.items)
       /\ ValueOf(raw.attributes.items, Operation) = <<"execute_tool subclass">>)
  => ValidSpan(mapped) /\ ValidLosses(mapped)

\* Whether the value of an item is kept whole under its key.
Lossless(key, v) ==
  IF key \in ToolBodies \cup ModelSourceKeys(raw.attributes.items)
  THEN NormalizeToolContent(v) = "present"
  ELSE /\ Len(v) <= MaxList
       /\ ToSet(v) \cap {"secret", "hidden", "long", "huge", "unusable", "null", "raises"} = {}

\* Where an item of the span went: an attribute or a model message.
TakenAs(item) ==
  CanonicalKey(item.key, raw.attributes.items, ObservedOperation(raw.attributes.items))
IsKept(item) ==
  \/ TakenAs(item) \in DOMAIN mapped.attributes
  \/ \E d \in Direction :
       SourceKey(raw.attributes.items, d) = item.key /\ mapped.model[d] \in Whole

\* A capture that reports nothing lost has lost nothing: every attribute, event
\* and link of the span is there, whole, under its own name or its canonical one
\* or as a model message; and no less is counted as dropped than is missing.
MappingAdmitsLoss ==
  mapped.made =>
    LET items == ToSet(raw.attributes.items)
    IN  /\ mapped.reasons = {} =>
             /\ mapped.drops = 0 /\ ~mapped.cut
             /\ \A item \in items : IsKept(item) /\ Lossless(TakenAs(item), item.value)
             /\ Len(mapped.events) = Len(raw.events.items)
             /\ mapped.links = raw.links.items
             /\ raw.sdk = "none" /\ raw.parent # "invalid"
        /\ mapped.drops >= Cardinality({item \in items : ~IsKept(item)})
             + (IF raw.links.sized THEN Len(raw.links.items) - Len(mapped.links) ELSE 0)
             + (IF raw.events.sized THEN Len(raw.events.items) - Len(mapped.events) ELSE 0)

=============================================================================

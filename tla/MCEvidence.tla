----------------------------- MODULE MCEvidence -----------------------------
(* Small instances of the three recorders of EvidenceCollector, and of the  *)
(* local observation.  They share nothing while they record: RunLifecycle   *)
(* composes the windows, offsets and commits of the recorders.              *)
EXTENDS MCTraceCapture, LogTracker, FileSnapshots, LocalObservation, TraceMapping

----------------------------------------------------------------------------
(* LogTracker: one request of three files, and one that names a link and    *)
(* one file twice.                                                          *)

MCRequests == {<<"a", "b", "d">>, <<"c", "a", "a">>}

(* FileSnapshots: eight paths, the second in the first's directory.         *)

MCFolder == [p \in 1 .. 8 |-> IF p = 2 THEN 1 ELSE 0]
MCLinkTarget == [p \in 1 .. 8 |-> IF p = 4 THEN 3 ELSE 99]
MCSizeOf == 21 :> 1 @@ 22 :> 2 @@ 23 :> 3 @@ 24 :> 1

Old(kind, data) == [kind |-> kind, data |-> data, inode |-> 0, version |-> 0]
NoFiles == [p \in 1 .. 8 |-> Absent]

MCDisks ==
  {[NoFiles EXCEPT ![1] = Old("directory", 0), ![2] = Old("file", 21)],
   [NoFiles EXCEPT ![3] = Old("file", 23), ![6] = Old("directory", 0)],
   [NoFiles EXCEPT ![7] = Old("special", 0), ![8] = Old("file", 24)]}

(* LocalObservation: a root with one below it, and two where one is lost.   *)

MCPrograms == {{1, 3}, {2, 5}, {4, 5}}

\* The two sessions are alike: one behaviour stands for both orders.
EnteredInOrder == session["inner"].state = "new" \/ session["outer"].state # "new"

(* TraceMapping: spans that differ from an ordinary one in up to three      *)
(* attributes of a tool, of a model call or of neither, or in one other     *)
(* part.                                                                    *)

MCItem(key, leaf) == [key |-> key, value |-> <<leaf>>]
MCMapping(items) == [form |-> "mapping", items |-> items, breaks |-> FALSE]
MCSource(items) == [form |-> "sequence", items |-> items, sized |-> TRUE, breaks |-> FALSE]

MCToolItems ==
  {MCItem(Operation, "execute_tool"), MCItem(Operation, "execute_tool subclass"),
   MCItem(KindKey, "TOOL"), MCItem("tool.name", "whole"), MCItem("gen_ai.tool.name", "number"),
   MCItem("input.value", "unusable"), MCItem("gen_ai.tool.call.arguments", "secret"),
   MCItem("output.value", "hidden"), MCItem("gen_ai.tool.call.result", "long")}
MCModelItems ==
  {MCItem(Operation, "chat"), MCItem(KindKey, "LLM"), MCItem("llm.model_name", "whole"),
   MCItem("gen_ai.request.model", "long"), MCItem("gen_ai.input.messages", "huge"),
   MCItem("input.value", "secret"), MCItem("llm.input_messages.0", "whole"),
   MCItem("gen_ai.output.messages", "whole"), MCItem("output.value", "raises")}
MCOtherItems ==
  {MCItem(Operation, "embeddings"), MCItem("gen_ai.usage.input_tokens", "number"),
   MCItem("gen_ai.request.model", "null"), MCItem("gen_ai.tool.name", "whole"),
   [key |-> "gen_ai.request.model", value |-> <<"whole", "null", "number">>],
   [key |-> "gen_ai.usage.input_tokens", value |-> <<"whole", "long">>],
   MCItem("private", "whole"), MCItem("custom", "whole"), MCItem("invalid", "whole")}

\* The sequences of up to three items with different keys.
MCSequences(universe) ==
  {items \in UNION {[1..n -> universe] : n \in 0..3} :
     \A i, j \in DOMAIN items : i # j => items[i].key # items[j].key}

MCRawSpan ==
  [readable |-> TRUE, parent |-> "other", name |-> "whole", scope |-> "whole", sdk |-> "none",
   attributes |-> MCMapping(<<>>), resource |-> MCMapping(<<MCItem("service.name", "whole")>>),
   events |-> MCSource(<<>>), links |-> MCSource(<<"a">>)]

MCEvents ==
  {[broken |-> FALSE, name |-> "whole", attributes |-> MCMapping(<<>>)],
   [broken |-> FALSE, name |-> "long", attributes |->
      MCMapping(<<MCItem(Operation, "execute_tool"), MCItem("input.value", "whole")>>)],
   [broken |-> TRUE, name |-> "whole", attributes |-> MCMapping(<<>>)],
   [broken |-> FALSE, name |-> "whole", attributes |->
      [form |-> "raises", items |-> <<>>, breaks |-> FALSE]]}

MCSources(universe) ==
  {[form |-> "sequence", items |-> items, sized |-> sized, breaks |-> breaks] :
     items \in UNION {[1..n -> universe] : n \in 0..4}, sized, breaks \in BOOLEAN}
  \cup {[MCSource(<<>>) EXCEPT !.form = form] : form \in {"raises", "other"}}

MCAttributes ==
  {[form |-> form, items |-> <<>>, breaks |-> FALSE] : form \in {"absent", "raises", "other"}}
  \cup {[MCMapping(<<MCItem(KindKey, "TOOL"), MCItem("service.name", "long")>>) EXCEPT
           !.breaks = breaks] : breaks \in BOOLEAN}

MCRawSpans ==
  {[MCRawSpan EXCEPT !.attributes = MCMapping(items)] :
     items \in MCSequences(MCToolItems) \cup MCSequences(MCModelItems) \cup MCSequences(MCOtherItems)}
  \cup {[MCRawSpan EXCEPT !.attributes = a] : a \in MCAttributes}
  \cup {[MCRawSpan EXCEPT !.resource = a] : a \in MCAttributes}
  \cup {[MCRawSpan EXCEPT !.events = e] : e \in MCSources(MCEvents)}
  \cup {[MCRawSpan EXCEPT !.links = l] : l \in MCSources({"a", "b", "invalid"})}
  \cup {[MCRawSpan EXCEPT !.parent = p, !.name = n, !.scope = c, !.sdk = d, !.readable = r] :
          p \in {"none", "itself", "invalid"}, n, c \in {"whole", "long", "secret", "raises"},
          d \in {"none", "some", "invalid"}, r \in BOOLEAN}

----------------------------------------------------------------------------

\* Any one initial state will do for a recorder that rests.
TraceRests ==
  /\ capture.window = 0 /\ begun = <<>> /\ staged = NoStage
  /\ exporting[1].phase = "unstarted" /\ exporting[2].phase = "unstarted"
FilesRest == disk[1].kind = "directory"
MappingRests == raw = MCRawSpan
ObservationRests == life[1].phase = "unstarted"

=============================================================================

--------------------------- MODULE MCServiceCalls ---------------------------
(* Small instances of what a process does with the service apart from its   *)
(* ledger and its catalogs: how a Case is asked for, how long a call waits, *)
(* what a judgment uploads, and how a Case that was issued is saved.        *)
EXTENDS OperationPolling, JudgeUpload, CaseFiles, CaseGeneration

MCService(caps, types, model, assess, number, bytes) ==
  [caps |-> caps, types |-> types, model |-> model, assess |-> assess,
   files |-> number, bytes |-> bytes, total |-> 8]

MCServices ==
  {MCService({}, {}, FALSE, FALSE, 3, 5),
   MCService({}, {"v1", "v2"}, FALSE, TRUE, 3, 5),
   MCService({"base", "file_diff", "runtime_trace"}, {"v2", "v3"}, TRUE, TRUE, 4, 4),
   MCService(KnownCapabilities, {"v3"}, TRUE, TRUE, 5, 5),
   MCService(KnownCapabilities \cup {"novel"}, {"v3"}, TRUE, FALSE, 3, 3)}

MCStep(trace, diff, redact, lossy, messages, log) ==
  [trace |-> trace, diff |-> diff, redact |-> redact, lossy |-> lossy,
   messages |-> messages, log |-> log]

MCStepKinds ==
  {MCStep("none", "none", FALSE, FALSE, FALSE, 3),
   MCStep("none", "text", FALSE, FALSE, TRUE, 2),
   MCStep("model", "text", FALSE, FALSE, FALSE, 0),
   MCStep("redacted", "secret", FALSE, FALSE, FALSE, 0),
   MCStep("plain", "secret", TRUE, FALSE, FALSE, 0),
   MCStep("none", "text", FALSE, TRUE, FALSE, 1)}

\* Any one initial state will do for an upload that rests.
UploadRests == offer.types = {} /\ run.policy

MCGroup(id, version, available, requires) ==
  [id |-> id, version |-> version, available |-> available, requires |-> requires]

MCCoding == [id |-> "coding", version |-> 1]

MCAdvert(legacy, release, groups, limit, bridged) ==
  [legacy |-> legacy, release |-> release, groups |-> groups,
   default |-> [id |-> "base", version |-> 1], limit |-> limit, bridged |-> bridged]

MCAdverts ==
  LET base == MCGroup("base", 1, TRUE, {})
  IN  {MCAdvert(TRUE, 0, {}, 2, FALSE),
       MCAdvert(FALSE, 1, {base, MCGroup("coding", 1, TRUE, {"file_change"})}, 2, TRUE),
       MCAdvert(FALSE, 2, {base, MCGroup("coding", 1, FALSE, {}), MCGroup("coding", 2, TRUE, {})},
                3, FALSE)}

MCBaseline == {"base", "coding"}

MCCall(strategy, group, handle, number, judged, intrinsic) ==
  [strategy |-> strategy, group |-> group, handle |-> handle, steps |-> number,
   judged |-> judged, intrinsic |-> intrinsic, tools |-> {}]

MCCalls ==
  {MCCall("auto", NoGroup, TRUE, 0, TRUE, {"file_change"}),
   MCCall("auto", MCCoding, FALSE, 2, TRUE, {"file_change"}),
   MCCall("safety-baseline", NoGroup, FALSE, 3, FALSE, {"file_change"}),
   MCCall("s1", NoGroup, FALSE, 1, TRUE, {})}

MCReply(strategy, number, echoed, executed, intact) ==
  [strategy |-> strategy, steps |-> number, echoed |-> echoed, executed |-> executed,
   intact |-> intact]

MCReplies ==
  {MCReply("s1", 1, "none", "same", TRUE), MCReply("s2", 3, "same", "none", TRUE),
   MCReply("auto", 1, "other", "none", FALSE)}

\* Any one initial state will do for what rests.
GenerationRests == call.strategy = "s1" /\ advert.legacy

=============================================================================

---------------------------- MODULE JudgeUpload ----------------------------
(***************************************************************************)
(* What the official Judge Provider uploads: the configuration it reads    *)
(* from the service (providers/_official_evidence_upload.py), the Runtime  *)
(* Evidence it projects for exactly that configuration                     *)
(* (evidence/runtime_capabilities.py), the fallback for old services       *)
(* (providers/_evidence_projection.py), and the request that binds the     *)
(* bytes to a key (providers/official_judge.py).  The service may change   *)
(* its configuration at any time: between the submission of an output,     *)
(* whose redaction was negotiated, and the Judge call; and between a Judge *)
(* call whose POST was lost and the next one.                              *)
(*                                                                         *)
(* Content is a size and the facts that decide what happens to it.  The    *)
(* request record is the RequestLedger's, with one Run and one process; a  *)
(* Judge call after a Judgment is modelled there.                          *)
(***************************************************************************)
EXTENDS Integers, Sequences, FiniteSets, FiniteSetsExt

CONSTANTS
  Services,   \* configurations the service may have
  StepKinds,  \* submissions a Run may make
  CaseBytes,  \* size of the Case artifact
  MaxOutputs, MaxShifts, MaxRequests  \* bounds

\* Service: caps and types (evidence_types without raw_log), model (the Trace
\* body schema), assess (the assessment contract), files, bytes, total (limits).
\* Step: trace ("none", "plain", "model": with bodies, "redacted": with redacted
\* tool content), diff ("none", "text", "secret"), redact (its output holds a
\* secret), lossy (its file summary reports a loss), messages (public messages),
\* log (bytes of captured logs).
ASSUME UploadAssumption ==
  /\ \A c \in Services : {c.files, c.bytes, c.total} \subseteq Nat \ {0}
  /\ \A s \in StepKinds : s.log \in Nat
  /\ {CaseBytes, MaxOutputs, MaxShifts, MaxRequests} \subseteq Nat

VARIABLES offer, \* what the service advertises now
          shifts,  \* changes so far (bounded)
          run,     \* the Run: steps submitted, policy: FileTrackingConfig.upload_diff
          judge,   \* the Provider: discovery (_output_discovery), key, and the request
          posted   \* history: the uploads that went out

uploadVars == <<offer, shifts, run, judge, posted>>

Unread == [caps |-> {}, types |-> {}, model |-> FALSE, assess |-> FALSE,
           files |-> 1, bytes |-> 1, total |-> 1]   \* no configuration read yet
NoRequest == [number |-> 0, key |-> 0, body |-> <<>>, assess |-> FALSE,
              first |-> Unread, status |-> "none"]

UploadInit ==
  /\ offer \in Services /\ shifts = 0
  /\ run \in [steps : {<<>>}, policy : BOOLEAN, complete : {FALSE}]
  /\ judge = [discovery |-> Unread, key |-> 0, made |-> 0,
              request |-> NoRequest, posting |-> FALSE]
  /\ posted = {}

---------------------------------------------------------------------------
(* Negotiation.                                                            *)

KnownCapabilities ==
  {"base", "file_diff", "runtime_trace", "redaction", "file_observation_summary"}

\* _advertised_capabilities: optional tokens nobody here knows are ignored.
Advertised(c) == c.caps \cap KnownCapabilities

\* judge_upload_config: capabilities need the capability schema.
ValidConfig(c) ==
  c.caps # {} => "base" \in c.caps /\ "v3" \in c.types

\* Mutant: the capability alone decides, whatever schema carries it.
MutRedacts(c) == TRUE
\* The advertisement both redaction checks ask for.
Redacts(c) == "v3" \in c.types /\ "redaction" \in Advertised(c)

\* The schema of the typed upload, the newest the service takes.
Schema(c) == CASE "v3" \in c.types -> "v3"
               [] "v2" \in c.types -> "v2"
               [] "v1" \in c.types -> "v1"
               [] OTHER -> "legacy"

Traced(steps) == \E i \in DOMAIN steps : steps[i].trace # "none"
Messages(steps) == \E i \in DOMAIN steps : steps[i].messages

\* May file_observation_summary go out.
Summarized(c) == Schema(c) = "v3" /\ "file_observation_summary" \in Advertised(c)

\* Refusals before anything is built: _require_output_redaction,
\* _validate_file_diff_support, the Trace and schema checks of
\* _runtime_evidence_parts, and _negotiate_file_summary.
Inexpressible(steps, policy, c) ==
  \/ ~Redacts(c) /\ \E i \in DOMAIN steps : steps[i].redact
  \/ policy /\ Advertised(c) # {} /\ "file_diff" \notin Advertised(c)
  \/ Traced(steps) /\ "runtime_trace" \notin Advertised(c)
  \/ (policy \/ Traced(steps)) /\ "v3" \notin c.types
  \/ ~Summarized(c) /\ \E i \in DOMAIN steps : steps[i].lossy

\* negotiate_assessment with the Provider's "auto"; a replay keeps the sealed
\* choice.  Public messages need the contract.
Assesses(c) == c.assess
Unassessable(steps, detailed) == Messages(steps) /\ ~detailed

---------------------------------------------------------------------------
(* One typed part.                                                         *)

\* What the projection of a step asks the service to understand, and what it
\* says about the content it leaves out.
Redactions(s, policy, c) ==
  LET marked == {k \in {"artifact_snapshot", "agent_response_claim"} :
                   \/ k = "artifact_snapshot" /\ s.trace = "redacted" /\ "redaction" \in Advertised(c)
                   \/ k = "agent_response_claim" /\ s.redact}
  IN IF marked # {} /\ policy /\ s.diff = "secret"
     THEN marked \cup {"file_change"} ELSE marked

Uses(s, policy, c) ==
  {"base"}
    \cup {k \in {"file_diff"} : policy}
    \cup {k \in {"runtime_trace"} : s.trace # "none"}
    \cup {k \in {"redaction"} : Redactions(s, policy, c) # {}}
    \cup {k \in {"file_observation_summary"} : Summarized(c)}

\* dropped_attributes_events and the reason that go with missing bodies
\* (_omit_unnegotiated_model_content, _omit_optional_model_body).
ModelLost(s, kept) == IF s.trace = "model" /\ ~kept THEN 1 ELSE 0

\* _project_trace_redaction without the capability: the placeholders go too,
\* counted.
ToolLost(s, c) == IF s.trace = "redacted" /\ "redaction" \notin Advertised(c) THEN 1 ELSE 0

ModelBytes == 2
DiffBytes == 1

\* Envelope size: the fixed part grows with each optional part.
PartBytes(s, model, text) ==
  1 + (IF s.trace # "none" THEN 1 ELSE 0) + (IF model THEN ModelBytes ELSE 0)
    + (IF text THEN DiffBytes ELSE 0)

\* project_runtime_evidence_capabilities and _fit_capability_envelope: a diff
\* is text, or a reason; over the limit model bodies go first, then diffs, each
\* with its reason; what is left may still be too large.
CapabilityPart(s, policy, c) ==
  LET offered == s.trace = "model" /\ c.model
      written == policy /\ s.diff = "text"
      model == offered /\ PartBytes(s, TRUE, written) <= c.bytes
      text == written /\ PartBytes(s, model, TRUE) <= c.bytes
  IN [schema |-> "v3", uses |-> Uses(s, policy, c), model |-> model,
      diff |-> CASE ~policy \/ s.diff = "none" -> "none"
                 [] text -> "text"
                 [] s.diff = "secret" -> "sensitive_content"
                 [] OTHER -> "size_limit",
      redactions |-> Redactions(s, policy, c), summary |-> Summarized(c),
      lost |-> ModelLost(s, model) + ToolLost(s, c), bytes |-> PartBytes(s, model, text)]

\* project_runtime_evidence_v2, and version 1 as it was captured.
PlainPart(s, c) ==
  [schema |-> Schema(c), uses |-> {}, model |-> FALSE, diff |-> "none",
   redactions |-> {}, summary |-> FALSE, lost |-> 0, bytes |-> PartBytes(s, FALSE, FALSE)]

\* The assessment part of a step with public messages (append_assessment_parts).
MessagePart == [schema |-> "messages", uses |-> {}, model |-> FALSE, diff |-> "none",
                redactions |-> {}, summary |-> FALSE, lost |-> 0, bytes |-> 1]

---------------------------------------------------------------------------
(* The fallback for services without typed Evidence.                       *)

Clamped(n, high) == IF n < 0 THEN 0 ELSE IF n > high THEN high ELSE n
SumTo(f, n) == MapThenSumSet(LAMBDA i : f[i], 1..n)

\* Mutant: logs are cut from the first step on.
MutKeptLog(steps, i, room) ==
  Clamped(room - SumTo([j \in DOMAIN steps |-> IF j > i THEN steps[j].log ELSE 0], Len(steps)), steps[i].log)
\* _truncate_log_content: from the last step back, a log is cut to the longest
\* prefix with which the whole document fits, and no log before it is touched
\* once it does.
KeptLog(steps, i, room) ==
  Clamped(room - SumTo([j \in DOMAIN steps |-> steps[j].log], i - 1), steps[i].log)

\* project_run_evidence and _legacy_upload: one document, each step with a fixed
\* part of one byte.
LegacyPart(steps, c) ==
  LET room == Min({c.bytes, c.total}) - Len(steps)
      kept == [i \in DOMAIN steps |-> KeptLog(steps, i, room)]
      cut == {i \in DOMAIN steps : kept[i] < steps[i].log}
  IN [schema |-> "legacy", uses |-> {}, model |-> FALSE, diff |-> "none",
      redactions |-> {}, summary |-> FALSE, lost |-> Cardinality(cut),
      bytes |-> Len(steps) + SumTo(kept, Len(steps)), kept |-> kept,
      dropped |-> SumTo([i \in DOMAIN steps |-> steps[i].log - kept[i]], Len(steps))]

---------------------------------------------------------------------------
(* The whole upload.                                                       *)

EvidenceParts(steps, policy, c) ==
  CASE Schema(c) = "legacy" -> <<LegacyPart(steps, c)>>
    [] Schema(c) = "v3" -> [i \in DOMAIN steps |-> CapabilityPart(steps[i], policy, c)]
    [] OTHER -> [i \in DOMAIN steps |-> PlainPart(steps[i], c)]

AssessmentParts(steps, detailed) ==
  LET with == {i \in DOMAIN steps : steps[i].messages /\ detailed}
  IN [i \in 1..Cardinality(with) |-> MessagePart]

\* The parts of _prepare_upload, the Case aside.
Body(steps, policy, c, detailed) ==
  EvidenceParts(steps, policy, c) \o AssessmentParts(steps, detailed)

BodyBytes(body) == SumTo([i \in DOMAIN body |-> body[i].bytes], Len(body))

\* The limits of _typed_upload, append_assessment_parts and _prepare_upload for
\* a custom Case: the Case counts as a file, and its bytes with the Evidence
\* when there is an assessment.
TooLarge(body, c, detailed) ==
  \/ Len(body) + 1 > c.files
  \/ CaseBytes > c.bytes
  \/ \E i \in DOMAIN body : body[i].bytes > c.bytes
  \/ BodyBytes(body) + (IF detailed THEN CaseBytes ELSE 0) > c.total

Refuses(steps, policy, c, detailed) ==
  \/ ~ValidConfig(c)
  \/ Inexpressible(steps, policy, c)
  \/ Unassessable(steps, detailed)
  \/ TooLarge(Body(steps, policy, c, detailed), c, detailed)

---------------------------------------------------------------------------
(* Actions.                                                                *)

\* The service is upgraded or rolled back.
Shift(c) ==
  /\ shifts < MaxShifts /\ c # offer
  /\ offer' = c /\ shifts' = shifts + 1
  /\ UNCHANGED <<run, judge, posted>>

\* Run.submit with _prepare_agent_output: an output to redact is accepted only
\* when the last configuration read (or, before any, the current one) takes
\* redaction markers; otherwise the submission raises and may be made again.
Submit(s) ==
  /\ ~run.complete
  /\ Len(run.steps) < MaxOutputs
  /\ LET config == IF judge.discovery # Unread THEN judge.discovery ELSE offer
         \* a malformed configuration is refused and not kept
         read == s.redact /\ ValidConfig(config)
     IN /\ judge' = IF read THEN [judge EXCEPT !.discovery = config] ELSE judge
        /\ run' = IF s.redact => read /\ Redacts(config)
                  THEN [run EXCEPT !.steps = Append(@, s)] ELSE run
  /\ UNCHANGED <<offer, shifts, posted>>

\* The last submission completes the Run.
CompleteRun ==
  /\ ~run.complete /\ run.steps # <<>>
  /\ run' = [run EXCEPT !.complete = TRUE]
  /\ UNCHANGED <<offer, shifts, judge, posted>>

\* A Judge call that reads the configuration and raises before any request.
JudgeRefused(detailed) ==
  /\ Refuses(run.steps, run.policy, offer, detailed)
  /\ judge' = [judge EXCEPT !.discovery = IF ValidConfig(offer) THEN offer ELSE @]
  /\ UNCHANGED <<offer, shifts, run, posted>>

\* A Judge call that finds no active request: fresh configuration, the Run's key
\* or a new one, and the record before the POST.
JudgeFirst ==
  /\ run.complete /\ ~judge.posting
  /\ judge.request.status \in {"none", "failed"}
  /\ judge.made < MaxRequests
  /\ LET again == judge.made > 0   \* _assessment_contracts keeps the first choice
         detailed == IF again THEN judge.request.assess ELSE Assesses(offer)
         key == IF judge.key = 0 THEN judge.made + 1 ELSE judge.key
     IN \/ JudgeRefused(detailed)
        \/ /\ ~Refuses(run.steps, run.policy, offer, detailed)
           /\ judge' = [judge EXCEPT
                !.discovery = offer, !.key = key, !.made = @ + 1, !.posting = TRUE,
                !.request = [number |-> judge.made + 1, key |-> key, assess |-> detailed,
                             body |-> Body(run.steps, run.policy, offer, detailed),
                             first |-> IF again THEN judge.request.first ELSE offer,
                             status |-> "prepared"]]
           /\ UNCHANGED <<offer, shifts, run, posted>>

\* Mutant: the upload of a pending request is not compared with the record.
MutSameBytes(request, body) == TRUE
\* request_sha256 of the new upload against the pending record's.
SameBytes(request, body) == body = request.body

\* A Judge call that finds a request nobody answered (the POST was lost): the
\* upload is built again, for the configuration of today and the sealed
\* assessment choice, and goes out only if it is the same.
JudgeAgain ==
  /\ judge.request.status = "prepared" /\ ~judge.posting
  /\ LET detailed == judge.request.assess
         body == Body(run.steps, run.policy, offer, detailed)
     IN \/ JudgeRefused(detailed)
        \/ /\ ~Refuses(run.steps, run.policy, offer, detailed)
           /\ judge' = [judge EXCEPT !.discovery = offer,
                          !.posting = SameBytes(judge.request, body),
                          !.request.body = IF SameBytes(judge.request, body) THEN body ELSE @]
           /\ UNCHANGED <<offer, shifts, run, posted>>

\* The POST: it may reach the service or not, and the answer may be lost.
PostUpload ==
  /\ judge.posting
  /\ posted' = posted \cup {[number |-> judge.request.number, key |-> judge.request.key,
                             assess |-> judge.request.assess, first |-> judge.request.first,
                             config |-> judge.discovery, body |-> judge.request.body]}
  /\ \E status \in {"prepared", "bound"} :
       judge' = [judge EXCEPT !.posting = FALSE, !.request.status = status]
  /\ UNCHANGED <<offer, shifts, run>>

\* The operation ends, in this call or in one that resumed it; only a retryable
\* failure retires the key (_retire_failed_attempt).
EndOperation ==
  /\ judge.request.status = "bound"
  /\ \/ judge' = [judge EXCEPT !.request.status = "succeeded"]
     \/ \E retryable \in BOOLEAN :
          judge' = [judge EXCEPT !.request.status = "failed",
                                 !.key = IF retryable THEN 0 ELSE @]
  /\ UNCHANGED <<offer, shifts, run, posted>>

UploadNext ==
  \/ \E c \in Services : Shift(c)
  \/ \E s \in StepKinds : Submit(s)
  \/ CompleteRun \/ JudgeFirst \/ JudgeAgain \/ PostUpload \/ EndOperation

UploadSpec == UploadInit /\ [][UploadNext]_uploadVars

---------------------------------------------------------------------------
(* Properties.                                                             *)

UploadTypeOK ==
  /\ offer \in Services /\ shifts \in 0..MaxShifts
  /\ run.steps \in UNION {[1..n -> StepKinds] : n \in 0..MaxOutputs}
  /\ run.policy \in BOOLEAN /\ run.complete \in BOOLEAN
  /\ judge.discovery \in Services \cup {Unread}
  /\ judge.key \in 0..MaxRequests /\ judge.made \in 0..MaxRequests
  /\ judge.request.status \in {"none", "prepared", "bound", "succeeded", "failed"}

\* What a service that takes version 3 without naming capabilities understands.
Understood(c) == IF Advertised(c) = {} THEN {"base", "file_diff"} ELSE Advertised(c)

\* However the service changed since the outputs were submitted and the request
\* was sealed, an upload says nothing that the configuration read by its own
\* Judge call does not take: no schema, capability, Trace body, redaction marker
\* or summary of another time, and no more files and bytes than it allows.
\* Only the assessment contract is as old as the
\* request.
OnlyNegotiated ==
  /\ \A p \in posted :
       /\ Len(p.body) + 1 <= p.config.files
       /\ \A i \in DOMAIN p.body : p.body[i].bytes <= p.config.bytes
       /\ BodyBytes(p.body) <= p.config.total
  /\ \A p \in posted : \A i \in DOMAIN p.body :
       LET part == p.body[i]
       IN /\ part.schema \in p.config.types \cup {"legacy", "messages"}
          /\ part.uses \subseteq Understood(p.config)
          /\ part.model => p.config.model
          /\ part.redactions # {} => Redacts(p.config) /\ "redaction" \in part.uses
          /\ part.summary <=> "file_observation_summary" \in part.uses
          /\ p.assess => p.first.assess

\* One request is one upload: its key and its bytes are the same in every POST,
\* lost answers, changed services and repeated Judge calls included.
RequestBindsBytes ==
  \A p, q \in posted : p.number = q.number => p.body = q.body /\ p.key = q.key

\* What the Run captured and an upload leaves out is admitted in it: missing
\* Trace bodies and placeholders are counted, a missing diff has its reason, a
\* redacted output its marker, a lossy file summary is never left behind, and
\* the bytes cut from logs are the bytes missing, taken from the last steps.
LossIsAdmitted ==
  \A p \in posted : \A i \in DOMAIN p.body \cap DOMAIN run.steps :
    LET part == p.body[i]
        s == run.steps[i]
    IN /\ part.schema = "v3" =>
            /\ s.trace = "model" /\ ~part.model => part.lost > 0
            /\ s.trace = "redacted" => part.lost > 0 \/ "artifact_snapshot" \in part.redactions
            /\ run.policy /\ s.diff # "none" => part.diff # "none"
            /\ s.redact => "agent_response_claim" \in part.redactions
       /\ part.schema # "messages" /\ s.lossy => part.summary
       /\ part.schema = "legacy" =>
            /\ part.dropped = SumTo([j \in DOMAIN run.steps |-> run.steps[j].log], Len(run.steps))
                              + Len(run.steps) - part.bytes
            /\ \A j, k \in DOMAIN run.steps :
                 j < k /\ part.kept[j] < run.steps[j].log => part.kept[k] = 0

=============================================================================

---------------------------- MODULE MCComponents ----------------------------
(* The components that share no state while they work, side by side for     *)
(* TLC: a behaviour exercises one of them, the others rest in an initial    *)
(* state.  Each has a variable tuple, an Init and a Next of its own.        *)
EXTENDS MCEvidence, MCServiceCalls

VARIABLE part  \* the component of this behaviour

vars ==
  <<part, traceVars, logVars, fileVars, observationVars, pollingVars, uploadVars,
    caseVars, mappingVars, generationVars>>

Parts ==
  {"trace", "logs", "files", "observation", "mapping", "polling", "upload", "saves", "generation"}

Init ==
  /\ part \in Parts
  /\ TraceInit /\ (part # "trace" => TraceRests)
  /\ FileInit /\ (part # "files" => FilesRest)
  /\ ObservationInit /\ (part # "observation" => ObservationRests)
  /\ UploadInit /\ (part # "upload" => UploadRests)
  /\ GenerationInit /\ (part # "generation" => GenerationRests)
  /\ MappingInit /\ (part # "mapping" => MappingRests)
  /\ LogInit /\ PollingInit /\ CaseInit

Next ==
  /\ UNCHANGED part
  /\ \/ /\ part = "trace" /\ TraceNext
        /\ UNCHANGED <<logVars, fileVars, observationVars, pollingVars, uploadVars, caseVars, mappingVars, generationVars>>
     \/ /\ part = "logs" /\ LogNext
        /\ UNCHANGED <<traceVars, fileVars, observationVars, pollingVars, uploadVars, caseVars, mappingVars, generationVars>>
     \/ /\ part = "files" /\ FileNext
        /\ UNCHANGED <<traceVars, logVars, observationVars, pollingVars, uploadVars, caseVars, mappingVars, generationVars>>
     \/ /\ part = "observation" /\ ObservationNext /\ EnteredInOrder'
        /\ UNCHANGED <<traceVars, logVars, fileVars, pollingVars, uploadVars, caseVars, mappingVars, generationVars>>
     \/ /\ part = "polling" /\ PollingNext
        /\ UNCHANGED <<traceVars, logVars, fileVars, observationVars, uploadVars, caseVars, mappingVars, generationVars>>
     \/ /\ part = "upload" /\ UploadNext
        /\ UNCHANGED <<traceVars, logVars, fileVars, observationVars, pollingVars, caseVars, mappingVars, generationVars>>
     \/ /\ part = "saves" /\ CaseNext
        /\ UNCHANGED <<traceVars, logVars, fileVars, observationVars, pollingVars, uploadVars, mappingVars, generationVars>>
     \/ /\ part = "generation" /\ GenerationNext
        /\ UNCHANGED <<traceVars, logVars, fileVars, observationVars, pollingVars, uploadVars, caseVars, mappingVars>>
     \/ /\ part = "mapping" /\ MapSpan
        /\ UNCHANGED <<traceVars, logVars, fileVars, observationVars, pollingVars, uploadVars, caseVars, generationVars>>

Spec == Init /\ [][Next]_vars

\* Every field of the component that works has its type (the others are as
\* they are in one of its own initial states).
TypeOK ==
  CASE part = "trace" -> TraceTypeOK
    [] part = "logs" -> LogTypeOK
    [] part = "files" -> FileTypeOK
    [] part = "observation" -> ObservationTypeOK
    [] part = "polling" -> PollingTypeOK
    [] part = "upload" -> UploadTypeOK
    [] part = "saves" -> CaseTypeOK
    [] part = "generation" -> GenerationTypeOK
    [] part = "mapping" -> MappingTypeOK

=============================================================================

---------------------------- MODULE CaseGeneration ----------------------------
(***************************************************************************)
(* create_run with the official Case Provider, from the caller's inputs to *)
(* a Case (api.py, providers/official_case.py,                             *)
(* repository/strategy_groups.py): a group is resolved from the service's  *)
(* catalog, Evidence capabilities from its entitlements, and both become   *)
(* part of the paid request, together with the state of the repository.    *)
(* The same call, made again after an interruption, goes through all of    *)
(* this again: it finds the request it made before only if it computes the *)
(* same payload, or names it by a case_request_id.  Another process may    *)
(* finish the request from its record (kuma requests resume).              *)
(*                                                                         *)
(* The ledger is abstract here: RequestLedger models its transactions,     *)
(* keys and concurrent callers.  The catalog may come from the cache that  *)
(* CatalogCache models, so an earlier one may be served again.             *)
(***************************************************************************)
EXTENDS Naturals, Sequences, FiniteSets

CONSTANTS
  Calls,        \* what create_run may be called with
  Adverts,      \* what the service may advertise
  Replies,      \* the Cases that the service may return
  Baseline,     \* the ids of the Basic Safety groups, seven
  DefaultSteps, \* DEFAULT_CASE_MAX_STEPS
  MaxAsked,     \* bound: records
  MaxChanges    \* bound: changes of the service or the repository

ASSUME GenerationAssumption ==
  /\ DefaultSteps \in Nat \ {0} /\ {MaxAsked, MaxChanges} \subseteq Nat
  /\ \A c \in Calls : c.steps \in Nat
  /\ \A a \in Adverts : a.limit \in 1..DefaultSteps
  /\ \A r \in Replies : r.steps \in Nat

VARIABLES
  call,    \* the inputs of the logical call, the same at every repetition
  attempt, \* the repetition that is under way
  asked,   \* the request records, each with the service's operation of its key
  advert,  \* what the service advertises now
  tree,    \* the state of the repository: its fingerprint
  changes  \* changes of advert and tree so far

generationVars == <<call, attempt, asked, advert, tree, changes>>

----------------------------------------------------------------------------
(* Strategy Groups.                                                        *)

NoGroup == [id |-> "none", version |-> 0]
NoSelection == [group |-> NoGroup, source |-> "none", release |-> 0]

Coordinate(g) == [id |-> g.id, version |-> g.version]

\* validate_strategy_group_catalog: the default is available to every Run.
ValidCatalog(a) ==
  /\ \A g, h \in a.groups : Coordinate(g) = Coordinate(h) => g = h
  /\ \E g \in a.groups : Coordinate(g) = a.default /\ g.available /\ g.requires = {}

\* available_evidence_capabilities.
Capable(c) == c.intrinsic \cup c.tools

\* resolve_strategy_group, for the group of this coordinate.
ResolveGroup(a, c, coordinate, source) ==
  {[group |-> coordinate, source |-> source, release |-> a.release] : g \in
     {h \in a.groups : Coordinate(h) = coordinate /\ h.available /\ h.requires \subseteq Capable(c)}}

\* _resolve_safety_baseline: every id has one available version and every
\* capability is there, then one of them is sampled.
SafetyBaseline(a, c) ==
  LET offered == {g \in a.groups : g.id \in Baseline /\ g.available}
  IN  IF /\ \A id \in Baseline : Cardinality({g \in offered : g.id = id}) = 1
         /\ \A g \in offered : g.requires \subseteq Capable(c)
      THEN UNION {ResolveGroup(a, c, Coordinate(g), "user") : g \in offered}
      ELSE {}

\* _resolve_official_strategy_group: the selections that may come of it, none
\* when it raises.
OfficialGroup(a, c) ==
  LET explicit == c.group # NoGroup
      baseline == c.strategy = "safety-baseline"
  IN  CASE a.legacy -> IF explicit \/ baseline THEN {} ELSE {NoSelection}
        [] ~a.legacy /\ ~ValidCatalog(a) -> {}
        [] ~a.legacy /\ ValidCatalog(a) /\ explicit -> ResolveGroup(a, c, c.group, "user")
        [] ~a.legacy /\ ValidCatalog(a) /\ ~explicit /\ baseline -> SafetyBaseline(a, c)
        [] OTHER -> IF c.strategy = "auto" THEN ResolveGroup(a, c, a.default, "general") ELSE {}

----------------------------------------------------------------------------
(* The request.                                                            *)

\* The effective max_steps of the Case context.
StepsOf(c) == IF c.steps = 0 THEN DefaultSteps ELSE c.steps

\* _safe_case_payload: what the request's digest is taken of.
Payload(c, selection, capabilities, fingerprint) ==
  [strategy |-> IF c.strategy = "safety-baseline" THEN "auto" ELSE c.strategy,
   group |-> selection,
   steps |-> IF c.steps = DefaultSteps THEN 0 ELSE c.steps,
   capabilities |-> capabilities,
   tree |-> fingerprint]

\* Mutant: the record keeps the default limit where the caller named a lower one.
MutValidation(c, payload) ==
  [tree |-> payload.tree, max |-> DefaultSteps, strategy |-> payload.strategy,
   group |-> payload.group]

\* case_validation of _case_operation_store: what a result is checked against
\* by a process that only has the record.
Validation(c, payload) ==
  [tree |-> payload.tree, max |-> StepsOf(c), strategy |-> payload.strategy,
   group |-> payload.group]

\* _selected_strategy.
SelectedStrategy(r, v) ==
  /\ r.strategy # "auto"
  /\ v.group = NoSelection /\ v.strategy # "auto" => r.strategy = v.strategy

\* _validate_response_strategy_group and _executed_strategy_group: what the
\* answer says of groups, if anything, is what was asked for.
GroupAgrees(r, v) ==
  /\ r.echoed # "none" => v.group # NoSelection /\ r.echoed = "same"
  /\ v.group # NoSelection => r.executed \in {"none", "same"}

\* _normalized_case; intact: the ids, the fingerprint and the signature agree, it
\* is public and its original is valid.
NormalizedCase(r, v) ==
  r.intact /\ SelectedStrategy(r, v) /\ GroupAgrees(r, v) /\ r.steps \in 1..v.max

\* Mutant: a terminal record of a handle is passed over like any other.
MutMatchingRecords(payload, validation) ==
  {i \in DOMAIN asked : asked[i].payload = payload /\ asked[i].status = "active"}

\* _find_matching: the record of the handle in any state, if it is also of this
\* context, or an active record of this payload.
MatchingRecords(payload, validation) ==
  {i \in DOMAIN asked :
     /\ asked[i].payload = payload
     /\ IF call.handle THEN asked[i].validation = validation ELSE asked[i].status = "active"}

\* _explicit_case_record: the handle is bound to another request.
HandleTaken(payload, validation) ==
  call.handle /\ asked # <<>> /\ MatchingRecords(payload, validation) = {}

----------------------------------------------------------------------------
(* create_run.                                                             *)

Unasked ==
  [payload |-> [strategy |-> "auto", group |-> NoSelection, steps |-> 0,
                capabilities |-> {}, tree |-> 0],
   validation |-> [tree |-> 0, max |-> 0, strategy |-> "auto", group |-> NoSelection]]

NotTrying ==
  [pc |-> "idle", selection |-> NoSelection, capabilities |-> {}, limit |-> 0,
   request |-> Unasked, record |-> 0]

GenerationInit ==
  /\ call \in Calls /\ advert \in Adverts
  /\ attempt = [now |-> NotTrying, catalogs |-> {}]
  /\ asked = <<>> /\ tree = 0 /\ changes = 0

Go(step) == attempt' = [attempt EXCEPT !.now = step]
GiveUp == Go(NotTrying)

\* Catalogs that are still cached may be served instead of the current one.
SelectGroup ==
  /\ attempt.now.pc = "idle"
  /\ \E a \in {advert} \cup attempt.catalogs :
       \E selection \in OfficialGroup(a, call) :
         attempt' = [now |-> [NotTrying EXCEPT !.pc = "selected", !.selection = selection],
                     catalogs |-> attempt.catalogs \cup {a}]
  /\ UNCHANGED <<call, asked, advert, tree, changes>>

\* _adapted_providers: the capabilities of this configuration, where an official
\* Judge follows and the service speaks the framework.
Negotiate ==
  /\ attempt.now.pc = "selected"
  /\ LET asks == call.judged /\ call.intrinsic # {}
     IN  Go([attempt.now EXCEPT
               !.pc = "negotiated",
               !.capabilities = IF asks /\ advert.bridged THEN call.intrinsic ELSE {},
               !.limit = IF asks THEN advert.limit ELSE 0])
  /\ UNCHANGED <<call, asked, advert, tree, changes>>

\* _validate_requested_max_steps: a new request is not made past the limit; a
\* limit that was not read before is read now.
WithinStepLimit(limit) ==
  call.steps # 0 => call.steps <= IF limit # 0 THEN limit ELSE advert.limit

\* collect_repo_meta, generate_case and the start of _run_operation.
Prepare ==
  /\ attempt.now.pc = "negotiated"
  /\ LET payload == Payload(call, attempt.now.selection, attempt.now.capabilities, tree)
         validation == Validation(call, payload)
     IN  IF \/ HandleTaken(payload, validation)
            \/ MatchingRecords(payload, validation) = {} /\ ~WithinStepLimit(attempt.now.limit)
         THEN GiveUp
         ELSE Go([attempt.now EXCEPT !.pc = "prepared",
                    !.request = [payload |-> payload, validation |-> validation]])
  /\ UNCHANGED <<call, asked, advert, tree, changes>>

NoReply ==
  [strategy |-> "none", steps |-> 0, echoed |-> "none", executed |-> "none", intact |-> FALSE]

NewRecord(request) ==
  [payload |-> request.payload, validation |-> request.validation, status |-> "active",
   known |-> FALSE, remote |-> "none", reply |-> NoReply]

\* load_or_create; several active records of one payload are a conflict.
FindOrCreate ==
  /\ attempt.now.pc = "prepared"
  /\ LET found == MatchingRecords(attempt.now.request.payload, attempt.now.request.validation)
     IN  \/ /\ \E i \in found :
                 /\ found = {i}
                 /\ Go([attempt.now EXCEPT !.record = i,
                          !.pc = IF asked[i].known THEN "polling" ELSE "starting"])
            /\ UNCHANGED asked
         \/ /\ found = {} /\ Len(asked) < MaxAsked
            /\ asked' = Append(asked, NewRecord(attempt.now.request))
            /\ Go([attempt.now EXCEPT !.record = Len(asked'), !.pc = "starting"])
  /\ UNCHANGED <<call, advert, tree, changes>>

\* The POST reaches the service, which opens one operation for its key, and the
\* answer comes back or is lost.
StartOperation ==
  /\ attempt.now.pc = "starting"
  /\ LET i == attempt.now.record
         opened == [asked EXCEPT ![i].remote = IF @ = "none" THEN "open" ELSE @]
     IN  \/ /\ asked' = [opened EXCEPT ![i].known = TRUE]
            /\ Go([attempt.now EXCEPT !.pc = "polling"])
         \/ asked' = opened /\ GiveUp
  /\ UNCHANGED <<call, advert, tree, changes>>

IsFinished(i) == asked[i].remote \in {"done", "failed"}

\* What a terminal answer makes of a record: a failure is final, a Case counts
\* when it is accepted.
Settled(record, validation) ==
  IF record.remote = "failed" THEN [record EXCEPT !.status = "failed"]
  ELSE IF NormalizedCase(record.reply, validation)
  THEN [record EXCEPT !.status = "succeeded"] ELSE record

\* accept_result, and the end of the operation in the ledger.
AcceptResult ==
  /\ attempt.now.pc = "polling" /\ IsFinished(attempt.now.record)
  /\ asked' = [asked EXCEPT ![attempt.now.record] =
                 Settled(@, attempt.now.request.validation)]
  /\ GiveUp
  /\ UNCHANGED <<call, advert, tree, changes>>

\* Any exception, a time-out or the end of the process; with it its cache.
Abandon ==
  /\ attempt.now.pc # "idle"
  /\ \E kept \in {{}, attempt.catalogs} : attempt' = [now |-> NotTrying, catalogs |-> kept]
  /\ UNCHANGED <<call, asked, advert, tree, changes>>

----------------------------------------------------------------------------
(* Another process, the service, the repository.                           *)

\* resume_request: the operation is looked up by the record's id, then polled.
RecoverOperation(i) ==
  /\ asked[i].status = "active" /\ ~asked[i].known /\ asked[i].remote # "none"
  /\ asked' = [asked EXCEPT ![i].known = TRUE]
  /\ UNCHANGED <<call, attempt, advert, tree, changes>>

\* _accept_recovered_result, against the validation of the record.
AcceptRecovered(i) ==
  /\ asked[i].status = "active" /\ asked[i].known /\ IsFinished(i)
  /\ asked' = [asked EXCEPT ![i] = Settled(@, asked[i].validation)]
  /\ UNCHANGED <<call, attempt, advert, tree, changes>>

Generate(i) ==
  /\ asked[i].remote = "open"
  /\ \/ asked' = [asked EXCEPT ![i].remote = "failed"]
     \/ \E r \in Replies :
          asked' = [asked EXCEPT ![i].remote = "done", ![i].reply = r]
  /\ UNCHANGED <<call, attempt, advert, tree, changes>>

Readvertise ==
  /\ changes < MaxChanges /\ changes' = changes + 1
  /\ advert' \in Adverts \ {advert}
  /\ UNCHANGED <<call, attempt, asked, tree>>

EditRepository ==
  /\ changes < MaxChanges /\ changes' = changes + 1
  /\ tree' = tree + 1
  /\ UNCHANGED <<call, attempt, asked, advert>>

GenerationNext ==
  \/ SelectGroup \/ Negotiate \/ Prepare \/ FindOrCreate \/ StartOperation
  \/ AcceptResult \/ Abandon
  \/ \E i \in DOMAIN asked : RecoverOperation(i) \/ AcceptRecovered(i) \/ Generate(i)
  \/ Readvertise \/ EditRepository

GenerationSpec == GenerationInit /\ [][GenerationNext]_generationVars

----------------------------------------------------------------------------
(* Properties.                                                             *)

\* Every field has its type.
GenerationTypeOK ==
  /\ call \in Calls /\ advert \in Adverts /\ attempt.catalogs \subseteq Adverts
  /\ attempt.now.pc \in {"idle", "selected", "negotiated", "prepared", "starting", "polling"}
  /\ attempt.now.record \in 0..Len(asked) /\ attempt.now.limit \in 0..DefaultSteps
  /\ Len(asked) <= MaxAsked /\ {tree, changes} \subseteq 0..MaxChanges
  /\ \A i \in DOMAIN asked :
       /\ asked[i].status \in {"active", "succeeded", "failed"} /\ asked[i].known \in BOOLEAN
       /\ asked[i].remote \in {"none", "open", "done", "failed"}
       /\ asked[i].reply \in Replies \cup {NoReply}

\* The operations that are paid for and whose end no record tells.
Unsettled == {i \in DOMAIN asked : asked[i].remote # "none" /\ asked[i].status = "active"}

\* A call that is repeated, whatever was lost of it before, does not buy a
\* second Case: never under a case_request_id, and otherwise only when it asks
\* for something else - because it samples its group, the service changed what
\* it advertises, or the repository changed.
RepeatBuysOnce ==
  /\ call.handle => Cardinality({i \in DOMAIN asked : asked[i].remote # "none"}) <= 1
  /\ \A i, j \in Unsettled : i # j => asked[i].payload # asked[j].payload
  /\ changes = 0 /\ call.strategy # "safety-baseline" => Cardinality(Unsettled) <= 1

\* A record succeeded only with a Case of what the caller asked for, whether the
\* call itself or another process took it: no more steps, the strategy that was
\* named, and no other group than the one that was selected from a catalog the
\* service has advertised.
AcceptedIsRequested ==
  \A i \in DOMAIN asked :
    asked[i].status = "succeeded" =>
      LET r == asked[i].reply
          selection == asked[i].payload.group
      IN  /\ r.intact /\ r.steps \in 1..StepsOf(call)
          /\ selection # NoSelection => "other" \notin {r.echoed, r.executed}
          /\ selection = NoSelection =>
               r.strategy # "auto" /\ call.strategy \in {"auto", r.strategy}
          /\ call.group # NoGroup => selection.group = call.group
          /\ call.strategy = "safety-baseline" /\ call.group = NoGroup =>
               selection.group.id \in Baseline

=============================================================================

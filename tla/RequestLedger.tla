--------------------------- MODULE RequestLedger ---------------------------
(***************************************************************************)
(* The addressable request ledger (.kuma/requests): how official Case and  *)
(* Judge calls persist an identity before the first POST, bind the paid    *)
(* operation the Backend accepted, poll it, and record its end; and how    *)
(* another process (kuma requests resume) picks the same record up.        *)
(*                                                                         *)
(* Every ledger transaction runs under one process lock and one OS lock    *)
(* (locked_ledger), so it is one step here.  Everything between two        *)
(* transactions -- HTTP, validation, sleeping -- is a separate step, and   *)
(* other processes interleave there.                                       *)
(*                                                                         *)
(* Abstractions: queued and running are one status, "active"; only the     *)
(* presence of an error code is kept; created_at/updated_at serve only to  *)
(* compare a snapshot with the record, so a snapshot carries "fresh" --    *)
(* nobody wrote the record since it was taken (distinct writes are taken   *)
(* to have distinct timestamps and the clock not to run backwards).  One   *)
(* Backend and one credential: records of others never match.              *)
(***************************************************************************)
EXTENDS Naturals, FiniteSets

CONSTANTS
  Caller,     \* processes that make high-level Case and Judge calls
  Resumer,    \* processes that run resume_request
  Request,    \* logical requests: [kind, subject, body]
  RecordId,   \* client_request_id values, the explicit handles among them
  Key,        \* idempotency keys
  Op,         \* Backend operation ids
  None,       \* JSON null, Python None
  MaxRecords, \* MAX_RECORDS: the directory-entry limit
  MaxFaults,  \* bound on lost responses, failed calls and crashes
  Concurrent, \* may calls of different processes overlap
  Expiry      \* may the Backend forget finished operations

Proc == Caller \union Resumer

\* "legacy": a Case selected by its payload; "explicit": a Case selected by
\* the caller's case_request_id; "judgment": a Judge request of one Run.
Kinds == {"legacy", "explicit", "judgment"}

Handles == {q.subject : q \in {r \in Request : r.kind = "explicit"}}
Runs    == {q.subject : q \in {r \in Request : r.kind = "judgment"}}
Bodies  == {q.body : q \in Request}

ASSUME RequestAssumption ==
  /\ \A q \in Request :
       /\ q.kind \in Kinds
       /\ q = [kind |-> q.kind, subject |-> q.subject, body |-> q.body]
  /\ Handles \subseteq RecordId

ASSUME NoneAssumption ==
  None \notin Request \union RecordId \union Key \union Op \union Caller \union Resumer

ASSUME BoundAssumption ==
  /\ MaxRecords \in Nat
  /\ MaxFaults \in Nat
  /\ Concurrent \in BOOLEAN
  /\ Expiry \in BOOLEAN

VARIABLES
  ledger,   \* the record files, by client_request_id
  reports,  \* .kuma/reports/<run_id>.json: the operation it was made from
  backend,  \* the operations the service has accepted
  proc,     \* each process: its call, its store's selection, its snapshot
  cache,    \* OfficialJudgeProvider._idempotency_keys of each caller, by Run
  faults    \* faults so far

vars == <<ledger, reports, backend, proc, cache, faults>>

----------------------------------------------------------------------------
(* Records, operations, processes.                                         *)

RecordStatus == {"absent", "prepared", "active", "succeeded", "failed"}
Terminal == {"succeeded", "failed"}

Record ==
  [req: Request \union {None}, key: Key \union {None}, op: Op \union {None},
   status: RecordStatus, error: BOOLEAN, locator: BOOLEAN]

NoRecord ==
  [req |-> None, key |-> None, op |-> None,
   status |-> "absent", error |-> FALSE, locator |-> FALSE]

\* "failed" is final, "retryable" a failure flagged retryable, "gone" an
\* operation the service answers operation_not_found for.
OpStatus == {"absent", "active", "succeeded", "failed", "retryable", "gone"}

Operation ==
  [key: Key \union {None}, by: RecordId \union {None},
   req: Request \union {None}, status: OpStatus]

NoOperation == [key |-> None, by |-> None, req |-> None, status |-> "absent"]

Steps ==
  {"idle", "load", "lookup", "attach", "open", "post", "bind", "poll", "apply", "mark"}

\* mode "get" is a call whose start callback returns {}: it must never POST.
\* asks is the id that a recovery lookup is made for, pin the record that the
\* store has selected.
\* key is the candidate of the key_factory until "open", the record's after.
Process ==
  [pc: Steps, mode: {"post", "get"}, req: Request \union {None},
   asks: RecordId \union {None}, pin: RecordId \union {None},
   key: Key \union {None}, op: Op \union {None}, fresh: BOOLEAN, reply: OpStatus]

Idle ==
  [pc |-> "idle", mode |-> "post", req |-> None, asks |-> None, pin |-> None,
   key |-> None, op |-> None, fresh |-> FALSE, reply |-> "absent"]

TypeOK ==
  /\ ledger \in [RecordId -> Record]
  /\ reports \in [Runs -> Op \union {None}]
  /\ backend \in [Op -> Operation]
  /\ proc \in [Proc -> Process]
  /\ cache \in [Caller -> [Runs -> Key \union {None}]]
  /\ faults \in 0..MaxFaults

Init ==
  /\ ledger = [c \in RecordId |-> NoRecord]
  /\ reports = [r \in Runs |-> None]
  /\ backend = [o \in Op |-> NoOperation]
  /\ proc = [p \in Proc |-> Idle]
  /\ cache = [p \in Caller |-> [r \in Runs |-> None]]
  /\ faults = 0

----------------------------------------------------------------------------
(* Reading the ledger.                                                     *)

OnDisk == {c \in RecordId : ledger[c].status # "absent"}

\* validate_stored: an error code if and only if failed, an operation id
\* unless prepared.  read_record raises request_state_invalid otherwise.
Readable(r) ==
  /\ (r.status = "failed") = r.error
  /\ r.status \in {"absent", "prepared"} \/ r.op # None

AllReadable == \A c \in OnDisk : Readable(ledger[c])

\* A successful Judgment of the same Run.
Retained(q, r) ==
  /\ q.kind = "judgment"
  /\ r.req.kind = "judgment"
  /\ r.req.subject = q.subject
  /\ r.status = "succeeded"

\* Mutant: a lookup that forgets records whose operation id is still unknown.
MutMatchingBoundOnly(q) ==
  {c \in OnDisk : /\ ledger[c].req = q
                  /\ ledger[c].op # None
                  /\ ledger[c].status \notin Terminal \/ Retained(q, ledger[c])}

\* _find_matching for payload-selected requests: the active records of the
\* same request bytes, and a retained Judgment.
Matching(q) ==
  {c \in OnDisk : /\ ledger[c].req = q
                  /\ ledger[c].status \notin Terminal \/ Retained(q, ledger[c])}

\* The Run already has a Judgment of other Evidence.
JudgedOtherwise(q) ==
  \E c \in OnDisk : ledger[c].req # q /\ Retained(q, ledger[c])

\* The record a store selects for q, and when selecting raises instead.
Selected(q) ==
  IF q.kind = "explicit" THEN {q.subject} \intersect OnDisk ELSE Matching(q)

\* Mutant: a prepared record of an explicit handle is refused.
MutSelectionFails(q) ==
  IF q.kind = "explicit"
  THEN q.subject \in OnDisk /\ ledger[q.subject].op = None
  ELSE ~AllReadable

SelectionFails(q) ==
  IF q.kind = "explicit"
  THEN q.subject \in OnDisk /\ (ledger[q.subject].req # q \/ ~Readable(ledger[q.subject]))
  ELSE ~AllReadable \/ JudgedOtherwise(q) \/ Cardinality(Matching(q)) > 1

\* require_record_capacity
Full == Cardinality(OnDisk) >= MaxRecords

FreshIds(q) ==
  IF q.kind = "explicit" THEN {q.subject} ELSE RecordId \ (OnDisk \union Handles)

KeysInUse ==
  {ledger[c].key : c \in RecordId} \union {backend[o].key : o \in Op}
    \union {proc[p].key : p \in Proc} \union {cache[p][r] : p \in Caller, r \in Runs}

FreshKeys == Key \ KeysInUse

----------------------------------------------------------------------------
(* Writing the ledger.                                                     *)

Goto(p, me) == proc' = [proc EXCEPT ![p] = me]

\* One atomic replacement of record c by p, which continues as me.
Write(p, c, r, me) ==
  /\ ledger' = [ledger EXCEPT ![c] = r]
  /\ proc' = [x \in Proc |->
                IF x = p THEN me
                ELSE [proc[x] EXCEPT !.fresh = @ /\ proc[x].pin # c]]

\* Mutant: no comparison of the snapshot with the record.
MutCommits(p) == Readable(ledger[proc[p].pin])

\* The snapshot still equals the record, and the record can be read.
Commits(p) == proc[p].fresh /\ Readable(ledger[proc[p].pin])

\* _transition and _terminal: commit after the optimistic comparison, or end
\* the call with operation_state_conflict.
Transition(p, r, me) ==
  IF Commits(p) THEN Write(p, proc[p].pin, r, me)
  ELSE Goto(p, Idle) /\ UNCHANGED ledger

----------------------------------------------------------------------------
(* Starting a call.                                                        *)

MayStart(p) ==
  /\ proc[p].pc = "idle"
  /\ Concurrent \/ \A x \in Proc : proc[x].pc = "idle"

Starting(q, c, k, m, at) ==
  [Idle EXCEPT !.pc = at, !.mode = m, !.req = q, !.pin = c, !.key = k]

\* OfficialCaseProvider._run_operation: a store for the payload, a new key
\* per new record.
CallCase(p, q) ==
  /\ MayStart(p)
  /\ q.kind \in {"legacy", "explicit"}
  /\ Goto(p, Starting(q, None, None, "post", "open"))
  /\ UNCHANGED <<ledger, reports, backend, cache, faults>>

\* find_active_request(include_succeeded): read without the ledger lock.
JudgmentsOf(q) ==
  {c \in OnDisk : /\ ledger[c].req.kind = "judgment"
                  /\ ledger[c].req.subject = q.subject
                  /\ ledger[c].status # "failed"}

\* The key of a Run with no record: the Provider's cached one, or a new one.
CandidateKeys(p, run) ==
  IF cache[p][run] # None THEN {cache[p][run]} ELSE FreshKeys

\* A Judge call that finds no record of its Run.
CallJudgeFirst(p, q) ==
  /\ MayStart(p)
  /\ q.kind = "judgment"
  /\ AllReadable
  /\ JudgmentsOf(q) = {}
  /\ \E k \in CandidateKeys(p, q.subject) :
       /\ cache' = [cache EXCEPT ![p][q.subject] = k]
       /\ Goto(p, Starting(q, None, k, "post", "open"))
  /\ UNCHANGED <<ledger, reports, backend, faults>>

\* A Judge call that finds its Run's operation running: poll it, whatever
\* the Evidence (_resume_judgment).
CallJudgeResume(p, q) ==
  /\ MayStart(p)
  /\ q.kind = "judgment"
  /\ AllReadable
  /\ \E c \in RecordId :
       /\ JudgmentsOf(q) = {c}
       /\ ledger[c].op # None
       /\ ledger[c].status # "succeeded"
       /\ Goto(p, Starting(ledger[c].req, c, ledger[c].key, "get", "open"))
  /\ UNCHANGED <<ledger, reports, backend, cache, faults>>

\* A Judge call that finds its request prepared or succeeded: the rebuilt
\* bytes must have the recorded hash (_submit_judgment).
CallJudgeAgain(p, q) ==
  /\ MayStart(p)
  /\ q.kind = "judgment"
  /\ AllReadable
  /\ \E c \in RecordId :
       /\ JudgmentsOf(q) = {c}
       /\ ledger[c].op = None \/ ledger[c].status = "succeeded"
       /\ ledger[c].req = q
       /\ Goto(p, Starting(q, c, ledger[c].key, "post", "open"))
  /\ UNCHANGED <<ledger, reports, backend, cache, faults>>

\* resume_request reads the record of the id it was given, without the ledger
\* lock; a terminal one is returned as it is.
Resume(p, c) ==
  /\ MayStart(p)
  /\ c \in OnDisk
  /\ Readable(ledger[c])
  /\ ledger[c].status \notin Terminal
  /\ Goto(p, [Starting(ledger[c].req, c, ledger[c].key, "get", "load") EXCEPT !.asks = c])
  /\ UNCHANGED <<ledger, reports, backend, cache, faults>>

----------------------------------------------------------------------------
(* Recovery lookup of a lost POST response (_recover_operation).           *)

\* store.load, under the ledger lock: the store selects the record of the same
\* request that is unsettled now, which need not be the one that was read; the
\* lookup that follows, if any, still asks for the id of that one.
LoadStore(p) ==
  LET me == proc[p]
  IN /\ me.pc = "load"
     /\ IF SelectionFails(me.req) \/ Selected(me.req) = {} THEN Goto(p, Idle)
        ELSE \E s \in Selected(me.req) :
               Goto(p, IF ledger[s].op = None THEN [me EXCEPT !.pc = "lookup", !.pin = s]
                       ELSE [me EXCEPT !.pc = "open", !.pin = s, !.asks = None])
     /\ UNCHANGED <<ledger, reports, backend, cache, faults>>

\* GET /sdk/requests/<id>/: the operation started under that id, or
\* request_not_started.
Lookup(p) ==
  LET me == proc[p]
  IN /\ me.pc = "lookup"
     /\ LET found == {o \in Op : backend[o].by = me.asks /\ backend[o].status # "gone"}
        IN IF found = {} THEN Goto(p, Idle)
           ELSE \E o \in found :
                  Goto(p, [me EXCEPT !.pc = "attach", !.op = o, !.asks = None])
     /\ UNCHANGED <<ledger, reports, backend, cache, faults>>

\* attach_recovered_operation: bound to the record as it is now, without
\* comparing it with what the lookup was made for.
Attach(p) ==
  LET me == proc[p]
      r  == ledger[me.pin]
  IN /\ me.pc = "attach"
     /\ IF Readable(r) /\ r.op \in {None, me.op}
        THEN Write(p, me.pin, [r EXCEPT !.op = me.op, !.status = "active"],
                   [me EXCEPT !.pc = "open"])
        ELSE Goto(p, Idle) /\ UNCHANGED ledger
     /\ UNCHANGED <<reports, backend, cache, faults>>

----------------------------------------------------------------------------
(* await_operation.                                                        *)

\* Where a call goes from a record it selected or created: poll a known
\* operation, POST, or fail on the empty start response.
Continue(me, c, key, op) ==
  IF op = None /\ me.mode = "get" THEN Idle
  ELSE [me EXCEPT !.pc = IF op = None THEN "post" ELSE "poll",
                  !.pin = c, !.key = key, !.op = op, !.fresh = TRUE]

\* Mutant: a retry of a prepared request under the caller's own new key.
MutAdoptedKey(p, c) ==
  IF ledger[c].op = None /\ FreshKeys # {} THEN CHOOSE k \in FreshKeys : TRUE
  ELSE ledger[c].key

\* The idempotency key of a selected record is the recorded one.
AdoptedKey(p, c) == ledger[c].key

\* load_or_create raises: unreadable or conflicting records, or no capacity.
OpenRefused(p) ==
  LET q == proc[p].req
  IN /\ proc[p].pc = "open"
     /\ SelectionFails(q) \/ (Selected(q) = {} /\ Full)
     /\ Goto(p, Idle)
     /\ UNCHANGED <<ledger, reports, backend, cache, faults>>

\* load_or_create reuses the selected record.
OpenExisting(p) ==
  LET me == proc[p]
  IN /\ me.pc = "open"
     /\ ~SelectionFails(me.req)
     /\ \E c \in Selected(me.req) : Goto(p, Continue(me, c, AdoptedKey(p, c), ledger[c].op))
     /\ UNCHANGED <<ledger, reports, backend, cache, faults>>

\* load_or_create persists a prepared record before the first POST.
OpenNew(p) ==
  LET me == proc[p]
  IN /\ me.pc = "open"
     /\ ~SelectionFails(me.req)
     /\ Selected(me.req) = {}
     /\ ~Full
     /\ \E c \in FreshIds(me.req), k \in IF me.key # None THEN {me.key} ELSE FreshKeys :
          Write(p, c,
                [NoRecord EXCEPT !.req = me.req, !.key = k, !.status = "prepared"],
                Continue(me, c, k, None))
     /\ UNCHANGED <<reports, backend, cache, faults>>

\* The operations the service may answer a POST with: the one it accepted
\* for that key, else a new one.
Accepting(k) ==
  IF \E o \in Op : backend[o].key = k
  THEN {o \in Op : backend[o].key = k}
  ELSE {o \in Op : backend[o].status = "absent"}

\* One POST attempt reaches the service.  A lost response leaves the call at
\* "post": BackendClient._send repeats it with the same key and bytes.
Post(p) ==
  LET me == proc[p]
  IN /\ me.pc = "post"
     /\ \E o \in Accepting(me.key), lost \in BOOLEAN :
          /\ faults + (IF lost THEN 1 ELSE 0) <= MaxFaults
          /\ backend' = IF backend[o].status # "absent" THEN backend
                        ELSE [backend EXCEPT ![o] = [key |-> me.key, by |-> me.pin,
                                                     req |-> me.req, status |-> "active"]]
          /\ IF lost THEN faults' = faults + 1 /\ UNCHANGED proc
             ELSE Goto(p, [me EXCEPT !.pc = "bind", !.op = o]) /\ UNCHANGED faults
     /\ UNCHANGED <<ledger, reports, cache>>

\* set_operation_id
Bind(p) ==
  LET me == proc[p]
  IN /\ me.pc = "bind"
     /\ Transition(p, [ledger[me.pin] EXCEPT !.op = me.op, !.status = "active"],
                   [me EXCEPT !.pc = "poll"])
     /\ UNCHANGED <<reports, backend, cache, faults>>

\* GET /sdk/v2/operations/<id>/
Poll(p) ==
  LET me == proc[p]
  IN /\ me.pc = "poll"
     /\ Goto(p, [me EXCEPT !.pc = "apply", !.reply = backend[me.op].status])
     /\ UNCHANGED <<ledger, reports, backend, cache, faults>>

\* _record_active_status; then the loop sleeps and polls again.
NoteActive(p) ==
  LET me == proc[p]
  IN /\ me.pc = "apply"
     /\ me.reply = "active"
     /\ Transition(p, [ledger[me.pin] EXCEPT !.status = "active"],
                   [me EXCEPT !.pc = "poll", !.reply = "absent"])
     /\ UNCHANGED <<reports, backend, cache, faults>>

\* Mutant: the service's own word for the failure is stored.
MutFailedVerbatim(r) == [r EXCEPT !.status = "retryable", !.error = TRUE]

\* mark_failed: the public code is stored, the report locator is not kept.
FailedRecord(r) == [r EXCEPT !.status = "failed", !.error = TRUE, !.locator = FALSE]

\* _record_failure.  Only a failed poll of a Judge call, never a missing
\* operation, retires the Provider's key, and only after the record is
\* written (_retire_failed_attempt).
NoteFailed(p) ==
  LET me == proc[p]
  IN /\ me.pc = "apply"
     /\ me.reply \in {"failed", "retryable", "gone"}
     /\ Transition(p, FailedRecord(ledger[me.pin]), Idle)
     /\ cache' = IF /\ me.reply = "retryable"
                    /\ me.req.kind = "judgment"
                    /\ p \in Caller
                    /\ Commits(p)
                 THEN [cache EXCEPT ![p][me.req.subject] = None]
                 ELSE cache
     /\ UNCHANGED <<reports, backend, faults>>

\* accept_result of a Judge call: the normalized report is saved in a ledger
\* transaction of its own, before the success is recorded.
SaveReport(p) ==
  LET me == proc[p]
  IN /\ me.pc = "apply"
     /\ me.reply = "succeeded"
     /\ me.req.kind = "judgment"
     /\ IF Readable(ledger[me.pin]) /\ (p \in Caller => ~SelectionFails(me.req))
        THEN /\ reports' = [reports EXCEPT ![me.req.subject] = me.op]
             /\ Goto(p, [me EXCEPT !.pc = "mark"])
        ELSE Goto(p, Idle) /\ UNCHANGED reports
     /\ UNCHANGED <<ledger, backend, cache, faults>>

\* Mutant: a Judgment is marked without waiting for its report.
MutAccepted(me) == me.reply = "succeeded" /\ me.pc \in {"apply", "mark"}

\* A succeeded reply whose result was accepted: a Case's in memory, a
\* Judgment's once its report is on disk.
Accepted(me) ==
  /\ me.reply = "succeeded"
  /\ me.pc = IF me.req.kind = "judgment" THEN "mark" ELSE "apply"

\* mark_succeeded; the error pair of the record is cleared by _terminal.
NoteSucceeded(p) ==
  LET me == proc[p]
  IN /\ Accepted(me)
     /\ Transition(p, [ledger[me.pin] EXCEPT !.status = "succeeded", !.error = FALSE,
                                             !.locator = (me.req.kind = "judgment")], Idle)
     /\ UNCHANGED <<reports, backend, cache, faults>>

----------------------------------------------------------------------------
(* Faults and the service.                                                 *)

\* The call raises: wait timeout, transport or validation error, failed
\* ledger write, interrupt.  Local state stays as it was last written.
Fail(p) ==
  /\ proc[p].pc # "idle"
  /\ faults < MaxFaults
  /\ Goto(p, Idle)
  /\ faults' = faults + 1
  /\ UNCHANGED <<ledger, reports, backend, cache>>

\* The caller's process dies and restarts: its Provider's memory is lost.
Crash(p) ==
  /\ faults < MaxFaults
  /\ Goto(p, Idle)
  /\ cache' = [cache EXCEPT ![p] = [r \in Runs |-> None]]
  /\ faults' = faults + 1
  /\ UNCHANGED <<ledger, reports, backend>>

Finish(o) ==
  /\ backend[o].status = "active"
  /\ \E s \in {"succeeded", "failed", "retryable"} :
       backend' = [backend EXCEPT ![o].status = s]
  /\ UNCHANGED <<ledger, reports, proc, cache, faults>>

\* The service stops serving a finished operation (operation_not_found); its
\* idempotency key stays spent.
Expire(o) ==
  /\ Expiry
  /\ backend[o].status \in {"succeeded", "failed", "retryable"}
  /\ backend' = [backend EXCEPT ![o].status = "gone"]
  /\ UNCHANGED <<ledger, reports, proc, cache, faults>>

----------------------------------------------------------------------------

\* What a process inside a call does next.
Advance(p) ==
  \/ LoadStore(p)
  \/ Lookup(p)
  \/ Attach(p)
  \/ OpenRefused(p)
  \/ OpenExisting(p)
  \/ OpenNew(p)
  \/ Post(p)
  \/ Bind(p)
  \/ Poll(p)
  \/ NoteActive(p)
  \/ NoteFailed(p)
  \/ SaveReport(p)
  \/ NoteSucceeded(p)

Next ==
  \/ \E p \in Caller, q \in Request :
       \/ CallCase(p, q)
       \/ CallJudgeFirst(p, q)
       \/ CallJudgeResume(p, q)
       \/ CallJudgeAgain(p, q)
  \/ \E p \in Resumer, c \in RecordId : Resume(p, c)
  \/ \E p \in Proc : Advance(p)
  \/ \E p \in Proc : Fail(p)
  \/ \E p \in Caller : Crash(p)
  \/ \E o \in Op : Finish(o)
  \/ \E o \in Op : Expire(o)

Spec == Init /\ [][Next]_vars

\* A process inside a call keeps running (await_operation has no step that
\* waits for another client), and the service ends what it accepted.
LiveSpec ==
  /\ Spec
  /\ \A p \in Proc : WF_vars(Advance(p))
  /\ \A o \in Op : WF_vars(Finish(o))

----------------------------------------------------------------------------
(* Properties.                                                             *)

\* Two requests that must not both be paid for: the same legacy payload, the
\* same explicit handle, the same Run.
Rival(q1, q2) ==
  /\ q1.kind = q2.kind
  /\ q1 = q2 \/ (q1.kind # "legacy" /\ q1.subject = q2.subject)

\* The ledger has recorded how the operation ended.
Settled(o) == \E c \in OnDisk : ledger[c].op = o /\ ledger[c].status \in Terminal

\* Lost responses, crashes, repeated and overlapping calls never buy a second
\* operation for a request while the first is unsettled, and never a second
\* one for an explicit handle (load_or_create, _find_matching, Post).
NoDoublePurchase ==
  \A o1, o2 \in Op :
    ( /\ o1 # o2
      /\ backend[o1].status # "absent"
      /\ backend[o2].status # "absent"
      /\ Rival(backend[o1].req, backend[o2].req) )
    => /\ backend[o1].req.kind # "explicit"
       /\ Settled(o1) \/ Settled(o2)

\* The service holds at most one operation per client_request_id: the
\* recovery lookup of that id is unambiguous.
OneOperationPerRequestId ==
  \A o1, o2 \in Op :
    backend[o1].by # None /\ backend[o1].by = backend[o2].by => o1 = o2

\* A record is bound to the operation its own idempotency key started, whether
\* by the POST response or by the recovery lookup -- as long as no resume
\* overlaps another call.  resume_request asks for the record it has read, but
\* attaches the answer to the one the store selects (LoadStore, Lookup): when
\* the former settles and a new call persists the latter in between, the answer
\* is another key's operation.
BoundToOwnOperation ==
  \A c \in RecordId :
    ledger[c].op # None => backend[ledger[c].op].key = ledger[c].key

\* At most one record of a payload-selected request is unsettled.
OneActiveRecord ==
  \A c1, c2 \in OnDisk :
    ( /\ ledger[c1].req = ledger[c2].req
      /\ ledger[c1].status \notin Terminal
      /\ ledger[c2].status \notin Terminal )
    => c1 = c2

\* The scan of _find_matching never fails because of what the ledger itself
\* wrote: every record file passes validate_stored, and no request has two
\* unsettled records ("conflicting active records").  Either would make every
\* later payload-selected call fail.
ScanNeverFails == AllReadable /\ OneActiveRecord

\* A Judgment recorded as succeeded has its report on disk, made from the very
\* operation the record is bound to (_accept_judgment before _record_success).
ReportBeforeSuccess ==
  \A c \in OnDisk :
    ledger[c].req.kind = "judgment" /\ ledger[c].status = "succeeded"
    => reports[ledger[c].req.subject] = ledger[c].op

\* A terminal record stays as it ended (docs: "Terminal records remain").
TerminalKept ==
  [][\A c \in RecordId :
       ledger[c].status \in Terminal => ledger'[c].status = ledger[c].status]_vars

\* A successful Judge is immutable for its Run (_find_matching's docstring).
SuccessfulJudgeImmutable ==
  [][\A c \in RecordId :
       ledger[c].status = "succeeded" /\ ledger[c].req.kind = "judgment"
       => ledger'[c] = ledger[c]]_vars

\* A key is only sent again under the client_request_id it was first sent
\* under (docs: "Retries preserve that ID, idempotency key and body").
RetryKeepsRequestId ==
  \A p \in Proc, o \in Op :
    proc[p].pc = "post" /\ backend[o].key = proc[p].key => backend[o].by = proc[p].pin

\* A request that is taken up again and again is settled in the end, unless
\* the ledger has reached its record limit: no sequence of conflicts, lost
\* responses and crashes wedges its record.
RequestSettles ==
  \A q \in Request :
    []<>(\E p \in Proc : proc[p].req = q)
    => <>(Full \/ \E c \in OnDisk : ledger[c].req = q /\ ledger[c].status \in Terminal)

=============================================================================

# Verification of KUMA

TLA+ models of the parts of KUMA (`src/src/kuma`) whose correctness depends on
the order in which several actors take steps, TLC runs on small instances, and
proofs for all instances checked by TLAPS. Paths below are relative to
`src/src/kuma/` unless they start with `src/`.

## The system

A user's program creates a `Run` (`api.create_run`), alternates `get_input()`
and `submit()` while its agent works on a repository, and ends with a Judge.
Around that sit the pieces below.

| Component | State it keeps | Operations | Hard part | Correct when |
|---|---|---|---|---|
| Request ledger (`transport/_request_store.py`, `_request_contract.py`, `_request_files.py`, `_request_query.py`) | one JSON record per `client_request_id` under `.kuma/requests`, reports under `.kuma/reports` | `load_or_create`, `set_operation_id`, `set_status`, `mark_*`, `save_public_report`, `attach_recovered_operation`, reads | several processes; every transaction is locked, what lies between two is not; snapshots are compared before a write | a request is paid for once; a record is bound to the operation of its own key; terminal records stay; every record can be read |
| Operation coordinator (`transport/operations.py`) | nothing of its own: a store, a deadline; without a ledger a pending file (`PendingOperationStore`) | `await_operation` | lost replies, timeouts, a reply applied to a record that moved; every remaining time is stale when it is used | a call ends, with the record saying how; no sleep is negative or passes the deadline by more than the process was late; the intervals a reply named are kept; an open operation is found again |
| Request recovery (`requests.py`) | none | `resume_request` with its recovery lookup, list, show | runs in another process than the caller | it never POSTs; it binds only what was started under that id (which it does not under overlap, finding 2) |
| Official Judge provider (`providers/official_judge.py`, `_official_evidence_upload.py`, `_official_assessment.py`, `_evidence_projection.py`, `evidence/runtime_capabilities.py`) | `_idempotency_keys`, per-Run locks, the configuration it discovered | first Judge, resume, resubmit, accept; projection, negotiation and sealing of an upload | key reuse across retries, report before success; a service that changes its configuration | one Judge operation per Run until it settled; an upload says what its service takes, and admits what it leaves out |
| Official Case provider (`providers/official_case.py`, `repository/strategy_groups.py`) | none | group selection, Evidence negotiation, `_run_operation`, validation of the Case | as above, selected by payload or by an explicit handle | one operation per handle, ever; a repeated call finds its request; a Case is what was asked for |
| Backend transport (`transport/backend.py`, `http.py`) | an HTTP client | `_send` with repetitions, operation GETs | lost responses | repeats carry the same key and bytes |
| Run (`run.py`) | `_state`, `_history`, the current Input, a re-entrant mutex | `get_input`, `submit`, `judge`, `cancel`, reads | failures and interrupts between the parts of a submit; user code called under the mutex | the public state machine; one Submission per Input; Evidence moves with the history |
| Creation (`api.py`) | none | `create_run` and its rollback | fails after the lease was taken | gives back what it took |
| Lease and workspace (`runtime.py`) | an OS file lock for the container, a directory per Run | acquire, create, close | several processes; removal fails | at most one executing Run; the lease is released whatever fails |
| Evidence collector (`evidence/tracking/evidence.py`) | the step it is in, committed log offsets, budgets | `begin_step`, `prepare`, commit/abort, `cancel_step`, `finish_run` | two-phase: nothing moves unless the submit commits | offsets agree with the history |
| Trace capture (`evidence/trace.py`, `otel.py`) | the active step window, its buckets, span registrations; one object per TracerProvider, so shared by the Runs of a process | `begin_step`, `prepare_step`, `on_start`, `on_end`, commit/abort, `cancel_step`, `finish_run` | spans start and end on any thread, also after the window closed; a flush calls user exporters | telemetry belongs to the Input whose window was open |
| Log tracker (`evidence/tracking/logs.py`) | offsets per file, limits | prepare, commit, abort | rotation, truncation, growth during a read | each appended byte is Evidence once |
| Snapshots and diffs (`evidence/tracking/snapshot.py`, `diff.py`, `evidence/runtime_files.py`) | the baseline of a step | scan, compare, filter, summarise | files change during a scan; four filters, one after the other | the diff explains the difference; the summary accounts for every fact and is true when it says complete |
| Strategy catalog cache (`transport/catalog_cache.py`) | an LRU table of entries and a table of flights, per process | `read_strategy_catalog`, with or without refresh | threads between start, answer and publication of overlapping fetches | fetches are shared; a refresh is seen by whoever calls later; no older answer replaces a newer one; waiters are woken |
| Local observation (`observation.py`, `evidence/observation_*.py`) | opt-in sessions, the innermost one per execution context, a bounded buffer each, one processor per TracerProvider | enter, exit, `on_start`, `on_end` | sessions nest, and exit while spans of other threads end | a span counts in the session it started in, once; the export passes the validation of its upload |
| Trace mapping (`evidence/trace_mapping.py`, `trace_semantics.py`, `trace_*_content.py`) | none | `map_span` | nested iterations over objects that may raise, each counting losses | the result passes the validator; no loss goes unreported |
| Case files (`repository/case_artifact_io.py`, `_case_file_directory.py`, `observation_io.py`) | the file it writes | `save_case`, `LocalObservation.save` | concurrent savers, foreign programs, failures and deaths between system calls | a file is whole or absent; nobody else's file is taken |
| Evidence contracts, provider contracts, repository inspection, configuration, CLI, shared values | none | pure functions, validation, file formats | none that is concurrent | input/output relation |

How they interact: `create_run` takes the lease, creates the workspace, asks
the Case provider (through coordinator, ledger and transport) and returns a
Run. `get_input` opens a step of the Evidence collector, which opens a window
of the Trace capture. `submit` validates the output, prepares Evidence
(snapshot, logs, Trace: flush and freeze), appends the Submission to the
history, commits the Evidence, and at the end of the Case closes the runtime
and calls the Judge provider, again through coordinator and ledger. `cancel`
undoes the step and closes the runtime. Another process may meanwhile run
`kuma requests resume` on the same ledger, or try to create a Run of its own.

## Modules

| Module | What it is |
|---|---|
| `RequestLedger` | ledger, coordinator, recovery, and the identity part of the two official providers and of the transport |
| `MCRequestLedger` | its small instances |
| `RequestLedgerProofs` | its three inductive invariants and theorems |
| `RunProtocol` | what a Run promises: the public state machine, one executing Run |
| `RunLifecycle` | create_run, Run, lease, workspace, Evidence steps, the Trace window; implements `RunProtocol` |
| `MCRunLifecycle` | its small instances |
| `MCProcess` | the Runs and the catalog cache of one process, side by side |
| `RunLifecycleProofs` | its inductive invariants, lease, history and window theorems, and that it implements `RunProtocol` |
| `CatalogCache` | the cache of strategy catalogs |
| `CatalogCacheProofs` | its inductive invariant, sharing, refresh and freshness theorems |
| `SpanContent` | what a captured span weighs, which one gives way, and what the validator of a capture demands |
| `TraceCapture` | spans and log records of a process, collected, sampled, staged and charged |
| `MCTraceCapture` | its small instances |
| `LogTracker` | offsets, limits, truncation and rotation of the logs of a Run |
| `FileFacts` | comparison of two Snapshots, privacy filters, facts, summary and budget of the envelope |
| `FileSnapshots` | the scans that make the Snapshots, while programs write |
| `LocalObservation` | observation sessions, their routing and exports |
| `TraceMapping` | `map_span` against the validator of its artifact |
| `OperationPolling`, `OperationPollingProofs` | one wait on one operation against one deadline; its theorems |
| `JudgeUpload` | what a judgment uploads, to a service that changes |
| `CaseGeneration` | how a Case is asked for, paid once, and accepted |
| `CaseFiles` | how a document becomes a file |
| `DataLemmas` | induction over finite sets, sums over them, their first elements |
| `TraceProofs` | the inductive invariants of `TraceCapture`, `LocalObservation` and `TraceMapping`, and their theorems |
| `EvidenceProofs` | the inductive invariants of `LogTracker` and `FileSnapshots`, and their theorems |
| `ServiceProofs` | theorems on `CaseFiles`, `CaseGeneration` and `JudgeUpload` |
| `MCEvidence`, `MCServiceCalls`, `MCComponents` | small instances of the twelve modules above, side by side |

### RequestLedger

State: `ledger` (record files: request, key, operation, status, whether an
error code and a report locator are there), `reports`, `backend` (the
service's operations), `proc` (where each process is in a call, the store's
selection `pin`, its key, and its snapshot), `cache`
(`OfficialJudgeProvider._idempotency_keys`), `faults`.

Every transaction under `locked_ledger` is one action; HTTP and sleeping are
steps of their own, so other processes interleave exactly where the code lets
them. `CallCase`, `CallJudgeFirst`, `CallJudgeResume`, `CallJudgeAgain` and
`Resume` start a call; `LoadStore` is the rest of what a resume looks at before
it asks: `resume_request` reads a record without the lock (`Resume`, the record
is `asks`), and then selects one under the lock (`store.load()`, the record is
`pin`), so a record may settle and another appear between the two; `OpenRefused`, `OpenExisting`, `OpenNew` are
`load_or_create`; `Post` is one attempt of `_send`, which a lost response
leaves where it is; `Bind`, `NoteActive`, `NoteFailed`, `NoteSucceeded` are the
guarded writes (`_transition`, `_terminal`); `Lookup` and `Attach` are the
recovery, which asks for the operation of `asks` and binds it to `pin`; `SaveReport` is the Judge's `accept_result`; `Fail` ends a call
wherever it is; `Crash` also loses the Provider's memory; `Finish` and
`Expire` are the service.

Abstractions, and why they keep what the properties tell apart:

- *Snapshots.* `_transition` compares the whole record with the snapshot. A
  snapshot here carries `fresh`: nobody wrote the record since. That takes two
  writes to have different timestamps; the clock is a listed hazard.
- `queued` and `running` are one status, which only changes what is displayed.
- An error code is present or not; a record's other fields never change.
- One Backend and one credential: records of others never match a request.
- `stage_public_result` fills a Case id in memory and writes nothing that a
  later transaction reads; it is part of accepting a result.
- The process-local `PendingOperationStore` and Judge batches are left out.
- Fresh keys and ids are new: UUID collisions are not modelled.

### RunLifecycle

State: `run` (for each Run: the method in progress as `pc`, `_state`, the
current Input, the collector's step, the committed log offsets, how the Trace
part was staged), `history`, `lease`, `workspaces`, `capture` (one per process:
active window and buckets), `faults`.

A method holds its Run's mutex, so a Run has at most one in progress. The steps
of a submit are `Submit` (validation), `Prepare`, `Snapshot` (the window is
frozen), `Record` (history), `CommitEvidence`, `Advance`, `FinishRuntime`;
`Refuse` and `RecordFails` are the paths that abort, `Interrupt` and
`InterruptFinish` what a KeyboardInterrupt or SystemExit leaves when it hits
between two of them, `Exit` the end of a process. `CancelInside` is user code
that calls `cancel()` while a method of the same Run waits for it: `Callbacks`
says where such code exists (an output value, a span exporter in the flush, a
custom Judge).

Abstractions: all Cases have `Steps` Inputs; contents of Inputs, outputs and
Evidence are left out; log offsets are counted, not listed; every Run has a
Trace capture and a Judge. `pc = "abandoned"` is a Run that an interrupt left
in a state where every method raises or returns; only the process's exit gives
its lease back. The public state `submitting` can be seen by a caller only in
that case; the refinement takes it as `input_delivered` without its Submission.

### CatalogCache

State: `caller` (where each thread is in `read_strategy_catalog`, its flight,
the answer it fetched), `flights` (all that were ever started, numbered in the
order of their registration), `registered` (`_FLIGHTS`), `entries` and `rank`
(`_ENTRIES` and its order), `fresh` (entries within `_TTL`), `service` (the
version of the catalog the service has for each namespace).

The first locked section is `Hit`, `Start` or `Join`; `Read` is the network;
`Publish` is the second locked section, of a value, a legacy value or an
exception, fenced or not; `Wake` and `Timeout` are `_await_flight`; `Expire` is
the clock, at any time, and `Change` the service.

Abstractions: a catalog is its version; a namespace stands for base URL and
credential digest; custom transports bypass the module. Flights that are over
stay in `flights`, where the code drops them, so that properties can speak of
what was cached before.

### SpanContent, TraceCapture, LocalObservation, TraceMapping

A span passes through three pieces. `TraceMapping` says what is kept of it:
`mapped` is what `map_span` makes of the input `raw`, computed in the order of
the code, with a leaf of a value represented by its fate (kept, too long,
secret, raising, ...) and the four nested iterations as folds that count what
they lose. The validator of the artifact (`ValidSpan`, `ValidLosses`) sees the
result alone.

`TraceCapture` says when it is kept. State: `capture` (the active window and
its bucket, registrations, committed bytes of the Run), `exporting` and
`logging` (where the export of each span and log record is), `staged`, and the
histories `begun` and `charged`. `RegisterSpan` is `on_start`;
`ExportRegisteredSpan` or `ExportSpan` and then `RetainSpan` are the two locked
sections of `on_end`, with the mapping between them; `BeginStep`,
`PrepareStep`, `CommitStep`, `AbortStep`, `CancelStep` and `FinishRun` are the
Run's thread. Sampling keeps the spans of highest priority and those whose
children are kept; a bucket that is too large loses model bodies first.

`LocalObservation` is the opt-in recorder with the same content and other
scheduling: `Spawn` copies a context, `Enter` and `ExitSession` move its
innermost session, `StartSpan` registers, `EndSpan` finds the sessions and
`RouteEnd` tells one of them. `Shrunk` and `Trimmed` are the loops of `add` and
`finish`: functions of the buffer that reduce it until it fits.

Abstractions: a span has a size, perhaps a model body, a parent and a priority;
in the two recorders the mapping is one number of lost fields. The flush of the
SDK's processors does nothing here; what a flush may call is in `RunLifecycle`.

### LogTracker, FileSnapshots, FileFacts

`LogTracker`: `files` (each log with its current life: a truncation or a
replacement starts a new one), `states` (committed offsets), `reading` (a
preparation in progress, path by path), `delivered` (history of committed
segments). `InspectPath` opens, checks and reads one file, the writers step
between two; `CommitLogs` and `AbortLogs` end the preparation.

`FileSnapshots`: `disk`, `scan` (a walk in progress), `baseline`, `prepared`,
`step`. `OpenDirectory`, `LookAtChild`, `ReadChild`, `CloseDirectory` are a scan;
programs create, modify, delete and rename between any two of them.
`PrepareFiles` compares, filters and summarises with the operators of
`FileFacts`, in the order of `EvidenceCollector._prepare`; `AbortFiles` keeps
the baseline for the retried submit.

Abstractions: a path is its place in the sorted order, a byte its place in a
life of its file; a character is two bytes, so that cutting one in half can be
seen; contents are a few values with a size, some binary, some secret.

### OperationPolling

`wait` (where `await_operation` is, with the attempts, the interval, the final
poll, the hint and the computed delay it holds), `pending` (the pending file),
`clock`, `keys`, and the history `owed`: what the service asked, what is open
there, and the time the process lost. `Started`, `Active`, `Terminal` and
`ServiceRefuses` are one HTTP attempt and what is made of its answer, over the
classification of failures of `transport/backend.py`. A sleep takes several
steps, one for each read of the clock: `Nap` is the check that time is left,
`Measure` reads what remains and computes the delay, `Backoff` and `NapHint`
compute theirs through `retry_delay`, and `Sleep` is `time.sleep`. `Lag` lets
time pass between any two of them, so what remains may be zero or less when it
is read, and is stale when it is slept. `ForgetKey` is the deadline and
`Interrupt` the end of a call anywhere.

What the code keeps as a floor, and what it does not. The interval a reply named
is kept before the second and every later poll, that of the 202 too; the first
poll goes out at once (`operations.py:669-677`, and so says
`docs/operation-polling.md:4`), and the one final poll comes before its interval
is over. When an answer names no interval, the poller's own grows to 8 s at most,
also from a longer one that was named before (`Expected`). A `Retry-After` is
heeded with a retryable 503 `api_key_service_unavailable` and with nothing else
(`backend.py:1470-1475`). `PacingHolds` states exactly this.

### JudgeUpload, CaseGeneration

`JudgeUpload`: `offer` (what the service advertises, changed by `Shift` at any
time), `run` (the submitted steps, each by the facts that decide what is
uploaded of it), `judge` (cached discovery, key, request record), `posted`. A
Judge call reads the configuration, refuses what it cannot express, projects
and cuts the steps, and seals bytes under a key; `JudgeAgain` rebuilds them
and compares (`SameBytes`).

`CaseGeneration`: `call` (the caller's inputs), `advert` (catalog and
entitlements), `tree` (the repository), `attempt` (the call in progress),
`asked` (the records with the service's side of each). `SelectGroup`,
`Negotiate`, `Prepare`, `FindOrCreate`, `StartOperation`, `AcceptResult` are the
call; `Abandon` interrupts it anywhere, and the same call starts again;
`RecoverOperation` and `AcceptRecovered` are another process. The ledger is
abstract: one that refuses, selects and validates as `RequestLedger` does.

### CaseFiles

One saver is a sequence of system calls: pin the directory, create the
temporary sibling, write, check, link, identify, check again, clean up. `Touch`
and `Swap` are foreign programs, `Die` ends a process between any two; every
call may fail. `FileName`s are destinations, and each saver has a temporary name
of its own.

### MCComponents, MCProcess

These components share nothing while they work, so TLC need not interleave
them: the variable `part` picks the one that a behaviour exercises, and the
others rest in an initial state. `RunLifecycle` is where the recorders meet.
`MCProcess` puts the Runs and the catalog cache side by side in the same way, each
with its own fairness.

## Runs

| Run | Instance | What it asks, and what it shows |
|---|---|---|
| `ledger_callers` | two callers, a Case payload and a Judge, 2 records, 2 operations, 1 fault, overlapping calls | no second purchase (`NoDoublePurchase`), no unreadable and no second active record (`ScanNeverFails`), no terminal record changes (`TerminalKept`) |
| `ledger_resume` | a caller and a resumer taking turns, an explicit Case, a Judge and a Judge of other Evidence, 3 faults, expiry | the recovery lookup is unambiguous, records are bound to their own operation (`BoundToOwnOperation`, which needs the turns: `ledger_rebound`), and a success has its report (139 930 states) |
| `ledger_settles` | two callers, a payload Case and an explicit one, 1 fault, fairness | a request taken up again and again settles unless the ledger is full |
| `ledger_attach` | caller and resumer overlapping | violation, finding 1 |
| `ledger_rebound` | caller and resumer overlapping | violation, finding 2 |
| `ledger_ghost` | caller and resumer overlapping | violation, finding 3 |
| `ledger_expiry` | a Judge and expiring operations | violation, finding 4 |
| `process` | the Runs: two of one process, two Inputs, 3 faults, cancel() from output callbacks. The catalogs: three threads, two namespaces, a table for one entry, two flights, one change of the catalog per namespace | Runs: lease, history, Evidence and windows stay consistent (`LeaseFollowsRun`, `EvidenceFollowsHistory`, `WindowsInUse`), every step is one of `RunProtocol`, and the lease is given up (`LeaseFreed`). Catalogs: fetches are shared (`SingleFlight`), refreshes are seen (`RefreshSeen`), the table never goes back to an older catalog (`ServedVersionsGrow`), waiters are released (186 401 states) |
| `components` | nine small instances, see below | the properties of the modules from `SpanContent` to `CaseFiles`, below (789 219 states) |
| `run_reentrant` | one Run, a Judge that cancels it | violation, finding 5 |
| `run_window` | two Runs of one process, no fault | violation, finding 6 |
| `trace_inflight` | two related spans, one window | violation, finding 7 |

What `components` shows, with the instance of each part:

| Part | Instance | Properties |
|---|---|---|
| trace | workloads of three spans or records, room for two, two windows, 4 bytes | every span and record is retained, on its way or counted as dropped (`Accounted`); limits of step and Run hold (`WithinBudget`); a span is counted once over all windows and aborts (`ChargedOnce`); what is staged passes the validation of its upload unless an export is under way (`StagedIsValid`, cf. finding 7) |
| logs | three files and a link, files of up to four bytes, a request that names one twice, two lives of a rotated file | each byte is delivered once and none is skipped, no character is cut, and "complete" means read to the end (`BytesDeliveredOnce`) |
| files | eight paths, three initial trees, two writes of programs anywhere in two scans | the changes turn the baseline into the final Snapshot (`ChangesExplain`); the summary accounts for every fact, and a complete one is true (`SummaryIsTrue`) |
| observation | two sessions, two contexts, three programs of two spans, room for one open and one kept | exports are valid and fit (`ObservationValid`); a session counts exactly its own spans (`ObservedOnce`) |
| mapping | spans with up to three attributes of a tool, a model call or neither, or one odd part | the result passes the validator (`MappedIsValid`); a capture that reports no loss lost nothing, and no loss is undercounted (`MappingAdmitsLoss`) |
| polling | budget of ten units, one retry, two keys | no sleep is negative, a call outlives its budget only by the time its process lost, and no late answer is taken (`DeadlineHolds`); intervals and heeded delays are kept and nothing spins (`PacingHolds`); an open operation is in the pending file (`OpenIsPending`) |
| upload | five configurations with two changes, up to two of six kinds of steps | nothing is sent that the configuration does not take (`OnlyNegotiated`); one request is one upload (`RequestBindsBytes`); what is left out is admitted (`LossIsAdmitted`) |
| saves | two savers of one name, two directories, two foreign acts | files are whole (`FilesAreWhole`), others' files stay (`OthersAreKept`) |
| generation | four calls, three catalogs, two records, one change | a repeated call buys once (`RepeatBuysOnce`); an accepted Case is what was asked for (`AcceptedIsRequested`) |

Exceptions are named in the properties: a truncation hidden by growth
(`hidden`), an export under way (`in_flight`), a span that is its own parent or
names its operation in a subclass of `str`, a name that a foreign program took
around a link (`replaced`), a sampled group.

Bounds. The ledger's conflicts are between two actors and two records of one
request: two processes, two operations and one spare key each reach every
pair of overlapping transactions, and one fault (a lost response, a failed
call or a crash) already separates any two transactions. Three faults with
turns reach a lost response, a crash and a failed recovery in one history.
`Key` has one key per possible new record plus those that callers cache. Two
Inputs distinguish the first, a middle commit and the last; two Runs of one
process are the least that share a Trace capture and compete for the lease;
three faults allow a refused submit, an interrupt and an exit together. Runs
of different processes share only the lease and compete for it in the same
way. `Symmetry` permutes keys and operations, in runs without liveness only.
In the cache, three threads are an owner, one that refreshes over it and one
that joins either; two flights are the one that is superseded and the one that
supersedes it; two namespaces in a table for one make every insertion evict.
In `components`, limits are small enough that each is reached (two spans of
three, three entries of eight, five bytes of an envelope) and large enough for
one thing to be kept while another is dropped; two windows, two lives of a log
and two scans are the least in which something can be counted twice; a budget of
ten units holds a full interval, a clipped one and the final poll, with a delay
on either side of each; two configurations and two keys separate what was
negotiated from what is sent. What is proved for all sizes is listed under
Proofs. Deadlock is not checked there, since every part ends.
Deadlock is not checked in the Run instances, since every Run ends, nor with the
cache, where threads stop once `MaxFlights` is reached and nothing is cached; it is in
the ledger's, where some call can always start.

Fairness. `RequestLedger!LiveSpec`: weak fairness of `Advance(p)`, since a call
that has begun waits for no other client (deadlines end it by `Fail`, which is
not fair and bounded), and of `Finish(o)`, since the service ends what it
accepted; callers are never required to call, so `RequestSettles` assumes that
the request is taken up infinitely often. `RunLifecycle!Fairness`: weak
fairness of `Proceed(r)`, the rest of a method that was called, and of
`Call(r)`: the caller of an unfinished Run goes on with it or cancels it.
Without the latter a Run simply keeps the lease, as documented.
`CatalogCache!CacheFairness`: weak fairness of an owner's `Read` and `Publish`, since the
transport's requests time out, and of `Wake`; `Timeout` is not fair, so
`WaitersReleased` says that the outcome itself arrives. `MCProcess!ProcessSpec` takes
both: the part that rests has no step to be fair to.

## Findings

1. `ledger_attach` (`transport/_request_store.py:255`): the recovery lookup
   writes `running` over whatever the record has become. A record that failed
   meanwhile becomes active with its error code still there, which
   `validate_stored` refuses, so every later scan of the ledger fails.
2. `ledger_rebound` (`requests.py:166`): `resume_request` reads a record without
   the lock, selects one under it, asks the service for the operation of the
   first, and attaches the answer to the second. If the first settled meanwhile
   and another call saved a new record of the same request, that record is bound
   to an operation which its own key did not start, although
   `docs/architecture.md:123` says that the call recovers "that ID's accepted
   operation".
3. `ledger_ghost` (`transport/_request_store.py:132`): `resume_request` goes
   through `load_or_create`. If its record settled since it was loaded, a new
   record with the spent key is written, and the next call sends that key under
   another `client_request_id`.
4. `ledger_expiry` (`transport/operations.py:689`): judging again after the
   service forgot the operation turns the retained success into a failure,
   although the ledger calls it immutable.
5. `run_reentrant` (`run.py:1051`): the state after a Judge is assigned whatever
   it has become, so a custom Judge that calls `cancel()` leaves a cancelled Run
   completed. A span exporter that cancels in the flush of a submit has the
   same effect; `RunLifecycle` has that step too (`"flush" \in Callbacks`).
6. `run_window` (`evidence/trace.py:1000`): `cancel_step` discards whatever
   window is active. Cancelling a completed Run discards the window of the Run
   that executes now in the same process.

7. `trace_inflight` (`evidence/trace.py:497`): an export that was counted and is
   still being mapped when `prepare_step` freezes the window is neither retained
   nor counted as dropped. The capture says complete with fewer spans than it
   observed, although `docs/architecture.md:436` says any loss forbids that, and
   its own validation (`runtime_trace_contract.py:283`) refuses the artifact.

Smaller disagreements that came up while modelling, not turned into runs:

- `docs/runtime-evidence.md:187` says that unknown files outside a completed scan
  are never guessed. A scan that ended early yields `deleted` facts for what it
  did not reach, under the status partial.
- `docs/sdk-guide.md:618` says that repeating the same generation call does not
  create a new charged generation. A `safety-baseline` call without a group
  samples one each time (`strategy_groups.py:576`): repeated without a
  `case_request_id` it usually asks for another Case, and with one it is refused
  as `operation_state_conflict` although its inputs are the same.
- `_send` lets a raw `ConnectionResetError` or another `OSError` out of the
  reading of a body (`transport/backend.py:178-230`), where its docstring
  promises typed errors. The wait ends; the pending file keeps the operation.
- The cap on tracked log files counts a path twice that is committed and staged
  (`logs.py:320`), contrary to the comment at `logs.py:289`.
- `_omit_sensitive_file_diffs` does nothing when `upload_diff` is off, and
  `_truncate_trace_spans` is not reached by the official upload.
- A span that names itself as its parent, or an operation in a subclass of
  `str`, is mapped to what the validator refuses.
- The clean-up of a save unlinks a destination that a foreign program replaced
  between the link and its check (`case_artifact_io.py:148`).

## Proofs

All theorems hold for every value of the constants that the named assumptions
allow (`RequestAssumption`: requests are records of the three kinds, explicit
handles are record ids; `NoneAssumption`: null is no value; `BoundAssumption`,
`StepsAssumption`, `HomeAssumption`, `OptionAssumption`, `CaseAssumption`,
`FactsAssumption`, `ScanAssumption`, `SpanContentAssumption`,
`LogLimitsAssumption` and their like: types, limits that are positive;
`PollingAssumption`: the reserve is no longer than the shortest poll, and every
poll guidance, `Retry-After` and cap is at least its minimum, as the parsers and
constants of the code have it). A theorem that needs more says so in its ASSUME,
and each such hypothesis is one without which a run or an instance shows the
property violated.

*RequestLedgerProofs, first invariant.* `IInv` holds whatever overlaps: a record keeps
its key once it is on disk (`RecordsIdentified`), every operation was accepted
under a record which still has its key (`OperationsRecorded`), the service has one
operation per key, a process that may POST, bind or poll holds the key of its
record (`CallSound`), and no record is bound to an operation that was not accepted
(`BoundToAccepted`). So one id has one operation (`RecoveryUnambiguous`). It does
not say whose operation a record is bound to. The lemmas `GotoKeeps` and `WriteKeeps` do the work once for steps that only
move a process and for steps that write one record.

*RequestLedgerProofs, second invariant.* The other promises of the ledger fail in
some interleavings, so their theorems name the ones they exclude, and the
invariant `LInv` carries each hypothesis only in the conjuncts that need it.

| Theorem | Hypothesis | Without it |
|---|---|---|
| `KeysBindOperations` (`BoundToOwnOperation`) | `NoOverlap`: no resume overlaps a call | `ledger_rebound` |
| `ScanSafe` (`ScanNeverFails`) | `NoOverlap` | `ledger_attach` |
| `TerminalRecordsKept`, `SuccessImmutable` | `NoOverlap`, operations do not expire | `ledger_attach`, `ledger_expiry` |
| `SuccessHasReport` (`ReportBeforeSuccess`) | `Quiet`: calls take turns, or overlap with no resume, one request per Run and no expiry | overlapping callers with expiry violate it in 21 steps |
| `NothingBoughtTwice` (`NoDoublePurchase`) | `Orderly`: calls take turns, or overlap with no resume and one request per Run | overlapping callers of two Evidences of one Run violate it in 7 steps |

`LInv` says of a record that what it tells of its operation is what the service
answered (`RecordsFit`, `Earned`); of a call, that its reply and its snapshot are
of its own record, and that a fresh snapshot knows how far the record got
(`SnapshotFits`); of all calls, that no second one is at work while they take
turns (`TurnsTaken`); and of the records, that one of a request is active and
that Judgments of a Run exclude each other (`OneActiveRecord`,
`JudgmentsExclusive`).

*RequestLedgerProofs, third invariant.* That a record is bound to the operation of its
own key (`BoundToOwnOperation`) is false when a resume overlaps another call
(`ledger_rebound`), so `KeysBindOperations` assumes `NoOverlap`: there is no resume,
or calls take turns. `KInv` adds what a resume knows when calls take turns
(`CallsOwn`): the record it has read is the one that it selects, not settled, and
the operation it attaches was started under that record's id. The second invariant
supplies the rest: that nothing else is under way meanwhile (`TurnsTaken`), that one
record of a request is active, and whose reply a bind has.

*RunLifecycleProofs.* Where a method is determines which states its Run can be
in (`PhaseOf`), also after interrupts and after a cancel from within; the
history ends before the current Input, or with it between append and commit
(`HistoryOf`); and a Run that executes holds the lease while one that ended
has given it up (`LeaseOf`). `StepKeeps`, `QuietStepKeeps` and `CloseKeeps` treat
steps of one Run, steps that leave history and lease alone, and steps that give
the lease up. From the invariant follow `ExecutingHoldsLease` (if no span
exporter cancels) and `EndedReleasesLease`, together `LeaseFollows`, and
`HistoryAgrees`. A second invariant, `WInv`, relates the Trace capture of a
process to its Runs: an open window is of a Run that is at that Input and may
still collect for it (`WindowFits`), while a submit stages Evidence the bucket of
its window is gone if anyone cancelled the step (`BucketOf`), and prepared
Evidence does not outlive the method that prepared it (`StagedOf`). `WindowsServeInputs` follows. It says nothing of whose
spans are collected: that is finding 6.

`RunImplementsProtocol`: a step of one Run changes the mapped variables at that
Run only; inner steps leave them alone; the others are the public operation of
the same name. `create_run` waits for the running Run because of the lease
invariant. The hypothesis `Callbacks \subseteq {"output"}` is needed: finding 5 is
its counterexample.

*CatalogCacheProofs.* None of the three safety properties is inductive. The
invariant adds that the registered flight of a namespace is its latest one and
that nothing is cached while it flies (`RegisteredLatest`), that an open flight
which is not registered has a later refresh (`SupersededByRefresh`), that an
entry is no older than any refresh (`EntriesSeeRefresh`), that a flight has one
owner, and that the answer held by the registered flight's owner is at least as
new as all that was cached (`NewerThanCached`): nothing can be cached between
its registration and its publication. `CruiseInvariant` treats the steps that
start and end no flight; `StartFlights` and `PublishFlights` the other two.
`FlightsAreShared`, `RefreshIsSeen` and `TableNeverGoesBack` follow. The
assumption is that the namespaces are finitely many (`BoundAssumption`), which
the LRU order needs.

*OperationPollingProofs.* `PacingHolds` speaks of the moment a request is sent,
so the invariant carries each floor through the steps before it: while the
deadline is ahead, a `Retry-After` is at most the pending hint away (`AuthFloor`)
and an interval at most the pending interval (`PollFloor`, except for the first
and the final poll); a delay that was computed reaches the floor it is for, or
the deadline (`Reaches`), however late the clock was read; the interval never falls
below what the service may expect (`Paced`); and a wait was cut short only for the
final poll (`CutOnce`). `DeadlineHolds` is inductive: a computed delay is never
negative and ends at the deadline at the latest unless it is 0, and what passes
beyond that is counted as lost. `RetryDelayBounds` and `PollDelayBounds` say what the
two sleeping policies return, also of a remaining time that is negative; each action
then has a lemma of its own. `DeadlineAlwaysHolds`, `PacingAlwaysHolds` and
`OpenAlwaysPending` follow.

*DataLemmas.* The models of Evidence sum, fold and cut sets of data, and the
library's induction theorems, which take an operator as parameter, are of no use
to the provers. `FiniteInduction` replaces them: strict inclusion of finite sets is
well-founded, so a *set* of good subsets that is not everything has a smallest
subset outside. From it follow what `SumOver` (the meaning of `MapThenSumSet`)
does when a set grows, splits or shrinks, that a finite set of naturals has a
least element, and how many elements a prefix in some order has (`FirstOnes`).

*TraceProofs.* Two halves. The data half says what sampling, omission of bodies,
closing a topology and cutting at the limits do to a set of spans
(`OmittingFacts`, `RetainingFacts`, `ClosedFacts`, `FittingFacts`): how many are
left, that they weigh no more than before, and that each loss is counted.
`PreparedFacts` puts them together along `prepare_step`. The other half is `TInv`:
`WindowInv` (the window's bucket, registrations and records belong to it),
`ExportsInv` and `BegunInv` (how far the export of each span and record is),
`ChargeInv` (a span is charged only once it is past its counting), `BucketInv`
(what a bucket counted is what it holds, what is being mapped into it, and what
it dropped: `Tally`) and `StageInv` (what is staged is `Sound`). Every locked
section has one lemma. `NothingDisappears`, `RunWithinBudget`, `SpanChargedOnce` and
`PreparedIsValid` follow, the last with the exception of finding 7.

The same module proves `LocalObservation`. Its two loops are recursive functions on
buffers, so first such a function is shown to exist and to be the loop
(`LoopExists`): every round makes the buffer lighter (`Weight` counts spans and
bodies), the buffers of each weight are treated in a well-founded order, and what
a round preserves the loop preserves (`LoopFacts`). `OInv` says of a session that is
not closed that its pending spans are some of those that started in it, and that
its buffer has counted the others and holds only such (`Counts`); and of an export
that it is valid, within its limits and counts them all (`Delivers`).
`ExportsAreValid` and `SpansObservedOnce` follow. For the counter that stops at
999 999 999 the proof needs that a session keeps fewer spans than that.

Last in that module is `TraceMapping`, one step whose result is four folds over
foreign data. `MappingInv` says that the span is of the type `RawSpan` and that
`mapped`, once made, is its `Mapping`; the rest is about the folds. A fold over a
sequence is shown to be the last of a sequence of accumulators, one for each
prefix (`IsTaking`), so that induction runs over the number of items taken.
`AttributesInv` says of the first n attributes that the keys kept are allowed and
that a reserved operation is under its name (`KeptInv`), that a body of a tool is recorded as whole
exactly if it is kept (`ToolInv`), and that an item that is not kept has been
counted and, like one that is not whole, given a reason (`LossInv`). That different
items take different names is the point of `CanonicalKey`: an item takes its
canonical key only if no other item has it, and then only one source key can.
`EventsInv` and `LinksInv` do the same for events and links. `MappedSpansAreValid`
and `MappingLossesAreAdmitted` follow. The assumption is that the spans are
`RawSpan`s: sequences of any length, of items under different keys, with the leaves
that the module names.

*EvidenceProofs.* For logs, a position of a file is kept three times: in the
segments that were delivered, in the tracker's state, and in a preparation that
may still be aborted. `LInv` says that each is a position of the present life of
the file or of an earlier one, at the end of a whole character (`KnownOf`), that
the state is where the last segment ended (`Reached`), and that the preparation
goes on from the state (`Follows`); truncations and rotations then start a life
in which nothing was delivered, and `BytesOnce` follows. The comparison of
Snapshots is pure data: `PairsUnique` (a path is in one rename at most) makes the
four kinds of change disjoint, `ComparedExplains` is the statement for any two
Snapshots, and the steps only have to keep the two that were compared
(`ComparisonExplains`).

That a complete file summary is true (`SummaryAlwaysTrue`) takes the walk of the disk
itself. `FInv` says of a scan without an error that what programs left alone is
recorded as it is (`RecordedAsIs`), and that nothing that was there all the time is
passed by (`NothingPassed`): each directory above it, and it, is recorded, about to
be looked at, in a directory still to be opened, or below one that is not recorded
itself. When nothing is left to open, the least of the unrecorded paths above a node
would have an unrecorded directory, which is less: so there is none
(`CoveredAtEnd`). A finished scan is `Reliable`, two such Snapshots tell of a path what
became of it (`ToldIsReal`), and the filters and cuts are counted by an injection of
the facts into the changes (`ComponentFacts`, `FittedFacts`, `EvidenceFacts`). The
assumptions it rests on are that a directory sorts before its children, that what is
below an excluded directory is excluded, and that the disk begins as a tree. The
proof corrected the property: a file that a program replaced by one that is equal,
modification time and mode included, is unchanged for the comparison, inode or not;
and it made it stronger: links and paths in a directory that was written need no
exception.

*ServiceProofs.* For saved files, where a save is determines which of its names
exist, in which directory, and how much of its document is written; a destination
that denotes a saver's file denotes a whole one, whoever moved the directory.
`SavesAreWhole` and `SavesKeepOthers` follow. Proving the latter corrected the
property: with three savers, a clean-up misled by a foreign program may remove the
file of a call that succeeded, and mislead the next (the exception is now of any
call to that destination).

For Cases, `GInv` says that every record, and the attempt in progress, holds a
payload the call may ask for and the matching form that goes with it, that a
payload has one active record and a handle one record at all (`OnePerPayload`),
and that as long as neither the service nor the repository changed all of them
hold what would be asked for now (`Present`). A repetition then finds the record
of the first attempt: `RepeatsAreShared`; and `AcceptedCasesMatch` follows from what
is checked against the record before it succeeds.

For uploads, `UInv` says that a request is of a complete Run, and that its body is
what the configuration its Judge call has read permits (`Serves`). That is shown of
the projection, part by part (`BodyParts`), with sums over the steps (`SumSplits`,
`SumGrows`) where bytes or losses are counted. `UploadsAreNegotiated`,
`RequestsBindBytes` and `LossesAreAdmitted` follow.

Only model-checked: liveness (`RequestSettles`, `LeaseFreed`, `WaitersReleased`), which
needs ENABLED; the bound of the catalog table; and the types of `MCComponents` as a
whole, which only puts components side by side for TLC (the type of each is proved,
but for `FileTypeOK` and `MappingTypeOK`).

## Not modelled

- Repository inspection (metadata, privacy patterns, agent profiles, tool
  capabilities, JSON schemas), configuration, updates, CLI and shared values:
  sequential, pure or plain input/output. What a secret looks like is a list of
  regular expressions; the models take it as a property of a text.
- Wire formats: headers, multipart encoding, JSON envelopes and their parsing.
- The wall clock stepping back between two writes of a record
  (`_request_contract.py:293`).
- An interrupt between the registration of a flight and the try block
  (`catalog_cache.py:155`): threads other than the main one have none there.
- The cap of tracked Runs of one Judge provider (`official_judge.py:482`).
- Path, link and permission checks of the workspace (`runtime.py`), and Windows
  variants of files and locks. A power loss: `CaseFiles` crashes processes only.
- Limits a group advertises (`max_steps`, `supported_difficulties`) are parsed
  by the client and not enforced; only the service does.

## Plan

Done: all modules above, and a theorem for every safety property of the components.
Left, in order of value: a refinement of `CaseGeneration`'s abstract ledger by `RequestLedger`;
the clock of the ledger's records.

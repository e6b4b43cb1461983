---------------------------- MODULE RunLifecycle ----------------------------
(***************************************************************************)
(* The life of Runs: create_run acquires the container's active-Run lease  *)
(* and a workspace, get_input opens an Evidence step, submit stages and    *)
(* commits it with the history, the end of the execution releases lease    *)
(* and workspace, a Judge may follow, cancel ends it all.  Runs of one     *)
(* process share one Trace capture (the one attached to the global         *)
(* TracerProvider), Runs of all processes share the lease.                 *)
(*                                                                         *)
(* A method holds its Run's mutex throughout, so at most one method of a   *)
(* Run is in progress: pc says where.  Steps of different Runs interleave, *)
(* an exception or interrupt may end a method between two steps, and user  *)
(* code that the method calls while holding the (re-entrant) mutex -- a    *)
(* span exporter during a flush, a custom Judge -- may call cancel().      *)
(*                                                                         *)
(* Abstractions: every Case has the same number of Inputs; the content of  *)
(* Inputs, outputs and Evidence is left out; the log offsets of a step are *)
(* counted, not listed; every Run has a Trace capture and a Judge.         *)
(***************************************************************************)
EXTENDS Naturals, Sequences

CONSTANTS
  Run,
  Process,
  Home,          \* the process of each Run
  Steps,         \* Inputs of a Case
  None,
  StopOnFailure, \* on_failure = "stop"
  JudgeEnabled,  \* the last Submission invokes the Judge
  Callbacks,     \* where user code may call cancel(): "output", "flush", "judge"
  MaxFaults      \* bound on failed calls, interrupts and process exits

ASSUME StepsAssumption == Steps \in Nat \ {0}
ASSUME HomeAssumption == Home \in [Run -> Process]
ASSUME NoneAssumption == None \notin Run
ASSUME OptionAssumption ==
  /\ StopOnFailure \in BOOLEAN
  /\ JudgeEnabled \in BOOLEAN
  /\ Callbacks \subseteq {"output", "flush", "judge"}
  /\ MaxFaults \in Nat

VARIABLES
  run,        \* each Run: its method in progress, its fields
  history,    \* Run._history: the Inputs with a committed Submission
  lease,      \* the Run whose ContainerRunLock holds the OS lock
  workspaces, \* Runs with a temporary directory on disk
  capture,    \* each process's TraceEvidenceCapture
  faults

vars == <<run, history, lease, workspaces, capture, faults>>

----------------------------------------------------------------------------
(* State.                                                                  *)

\* Run._state; "none" until create_run returns, "exited" with the process.
States ==
  {"none", "ready", "input_delivered", "submitting", "completed", "judging",
   "report_ready", "cancelled", "failed", "exited"}

\* "absent": not created yet.  "gone": creation failed.  "abandoned": an
\* interrupt left a state in which every method raises or returns at once.
PCs ==
  {"absent", "opening", "generating", "rollback", "gone", "abandoned", "idle",
   "beginning", "output", "flushing", "staged", "recording", "advancing",
   "finishing", "judging", "cancelling"}

\* The association of one Run step.
Window == [run: Run, input: 1..Steps]

NoWindow == [run |-> None, input |-> 0]

\* begun is EvidenceCollector._input_id, staged says how the Trace part of a
\* PreparedEvidence was prepared: a snapshot of the step's window, or failed.
RunRecord ==
  [pc: PCs, state: States, index: 0..Steps, begun: 0..Steps, offsets: 0..Steps,
   staged: {"no", "window", "failed"}, stopped: BOOLEAN]

NewRun ==
  [pc |-> "absent", state |-> "none", index |-> 0, begun |-> 0, offsets |-> 0,
   staged |-> "no", stopped |-> FALSE]

Capture == [active: Window \union {NoWindow}, buckets: SUBSET Window]

TypeOK ==
  /\ run \in [Run -> RunRecord]
  /\ history \in [Run -> Seq(1..Steps)]
  /\ lease \in Run \union {None}
  /\ workspaces \subseteq Run
  /\ capture \in [Process -> Capture]
  /\ faults \in 0..MaxFaults

Init ==
  /\ run = [r \in Run |-> NewRun]
  /\ history = [r \in Run |-> <<>>]
  /\ lease = None
  /\ workspaces = {}
  /\ capture = [p \in Process |-> [active |-> NoWindow, buckets |-> {}]]
  /\ faults = 0

----------------------------------------------------------------------------
(* Helpers.                                                                *)

At(r, pc) == run[r].pc = pc

Step(r, me) == run' = [run EXCEPT ![r] = me]

Goto(r, pc) == Step(r, [run[r] EXCEPT !.pc = pc])

Fault == faults < MaxFaults /\ faults' = faults + 1

\* The window of the Input r is at.
MyWindow(r) == [run |-> r, input |-> run[r].index + 1]

TraceOf(r) == capture[Home[r]]

Trace(r, c) == capture' = [capture EXCEPT ![Home[r]] = c]

\* _discard_locked
Discarded(c, w) ==
  [active |-> IF c.active = w THEN NoWindow ELSE c.active, buckets |-> c.buckets \ {w}]

\* TraceEvidenceCapture.cancel_step: whatever window is active.
CancelStep(c) == Discarded(c, c.active)

\* TraceEvidenceCapture.finish_run
FinishRun(c, r) == IF c.active.run = r THEN Discarded(c, c.active) ELSE c

\* Mutant: the lock is released whoever holds it.
MutLeaseAfter(r) == None

\* ContainerRunLock.release: the handle of this Run only.
LeaseAfter(r) == IF lease = r THEN None ELSE lease

\* Mutant: the lock is only released once the directory is removed.
MutClose(r, removed) ==
  /\ lease' = IF removed THEN LeaseAfter(r) ELSE lease
  /\ workspaces' = IF removed THEN workspaces \ {r} ELSE workspaces
  /\ IF removed THEN UNCHANGED faults ELSE Fault

\* RuntimeSession.close: the lock is released even if the directory cannot
\* be removed.
Close(r, removed) ==
  /\ lease' = LeaseAfter(r)
  /\ workspaces' = IF removed THEN workspaces \ {r} ELSE workspaces
  /\ IF removed THEN UNCHANGED faults ELSE Fault

----------------------------------------------------------------------------
(* create_run.                                                             *)

\* ContainerRunLock.acquire: RunAlreadyActiveError while another holds it.
CreateRun(r) ==
  /\ At(r, "absent")
  /\ lease = None
  /\ lease' = r
  /\ Goto(r, "opening")
  /\ UNCHANGED <<history, workspaces, capture, faults>>

CreateWorkspace(r) ==
  /\ At(r, "opening")
  /\ workspaces' = workspaces \union {r}
  /\ Goto(r, "generating")
  /\ UNCHANGED <<history, lease, capture, faults>>

\* RuntimeWorkspace.create fails, or is interrupted: the lock is released.
WorkspaceFails(r) ==
  /\ At(r, "opening")
  /\ lease' = LeaseAfter(r)
  /\ Goto(r, "gone")
  /\ Fault
  /\ UNCHANGED <<history, workspaces, capture>>

GenerateCase(r) ==
  /\ At(r, "generating")
  /\ Step(r, [run[r] EXCEPT !.pc = "idle", !.state = "ready"])
  /\ UNCHANGED <<history, lease, workspaces, capture, faults>>

GenerationFails(r) ==
  /\ At(r, "generating")
  /\ Goto(r, "rollback")
  /\ Fault
  /\ UNCHANGED <<history, lease, workspaces, capture>>

Rollback(r) ==
  /\ At(r, "rollback")
  /\ \E removed \in BOOLEAN : Close(r, removed)
  /\ Goto(r, "gone")
  /\ UNCHANGED <<history, capture>>

----------------------------------------------------------------------------
(* get_input.                                                              *)

\* TraceEvidenceCapture.begin_step: an active window is discarded and the
\* call raises, which the collector turns into a warning.
Opened(c, w) ==
  IF c.active # NoWindow THEN Discarded(c, c.active)
  ELSE [active |-> w, buckets |-> c.buckets \union {w}]

\* Mutant: one more Input than the Case has.
MutMore(me) == me.index <= Steps

\* Inputs are left.
More(me) == me.index < Steps

\* EvidenceCollector.begin_step; begun already after an interrupted call.
BeginStep(r) ==
  LET me == run[r]
  IN /\ me.pc = "idle"
     /\ me.state = "ready"
     /\ More(me)
     /\ me.begun \in {0, me.index + 1}
     /\ Step(r, [me EXCEPT !.pc = "beginning", !.begun = me.index + 1])
     /\ IF me.begun = 0 THEN Trace(r, Opened(TraceOf(r), MyWindow(r))) ELSE UNCHANGED capture
     /\ UNCHANGED <<history, lease, workspaces, faults>>

\* After the baseline snapshot.
Deliver(r) ==
  /\ At(r, "beginning")
  /\ Step(r, [run[r] EXCEPT !.pc = "idle", !.state = "input_delivered"])
  /\ UNCHANGED <<history, lease, workspaces, capture, faults>>

----------------------------------------------------------------------------
(* submit.                                                                 *)

\* _submission_input; _validated_output may flush the Tracer while at
\* "output".
Submit(r) ==
  /\ At(r, "idle")
  /\ run[r].state = "input_delivered"
  /\ Goto(r, "output")
  /\ UNCHANGED <<history, lease, workspaces, capture, faults>>

\* Mutant: the log offsets move when the Evidence is prepared.
MutPrepared(me, how) == [me EXCEPT !.pc = "staged", !.staged = how, !.offsets = me.index + 1]

\* The PreparedEvidence of a step: nothing is committed yet.
Prepared(me, how) == [me EXCEPT !.pc = "staged", !.staged = how]

\* prepare_step raised: whatever window is active is cancelled, and the step
\* goes on without Trace.
TraceFails(r) ==
  /\ Trace(r, CancelStep(TraceOf(r)))
  /\ Step(r, Prepared(run[r], "failed"))

\* EvidenceCollector.prepare up to the flush of prepare_step.  A Run whose
\* step was cancelled meanwhile raises InputProtocolError.
Prepare(r) ==
  LET me == run[r]
  IN /\ me.pc = "output"
     /\ IF me.begun # me.index + 1
        THEN Goto(r, "idle") /\ UNCHANGED capture
        ELSE IF TraceOf(r).active = MyWindow(r)
        THEN Goto(r, "flushing") /\ UNCHANGED capture
        ELSE TraceFails(r)
     /\ UNCHANGED <<history, lease, workspaces, faults>>

\* _snapshot closes the window; its bucket is gone if it was cancelled.
Snapshot(r) ==
  LET c == TraceOf(r)
      w == MyWindow(r)
  IN /\ At(r, "flushing")
     /\ IF w \in c.buckets
        THEN /\ Trace(r, [c EXCEPT !.active = IF @ = w THEN NoWindow ELSE @])
             /\ Step(r, Prepared(run[r], "window"))
        ELSE TraceFails(r)
     /\ UNCHANGED <<history, lease, workspaces, faults>>

\* PreparedTraceEvidence.abort restores the window for a retry, unless it is
\* gone or another one is active.
Reopened(r) ==
  LET c == TraceOf(r)
  IN IF /\ run[r].staged = "window"
        /\ MyWindow(r) \in c.buckets
        /\ c.active = NoWindow
     THEN [c EXCEPT !.active = MyWindow(r)]
     ELSE c

\* Invalid output before Evidence is prepared, or refused Evidence after it
\* (_enforce_sensitive, runtime actors, _submission): aborted, the Input
\* stays delivered.
Refuse(r) ==
  /\ run[r].pc \in {"output", "staged"}
  /\ Trace(r, Reopened(r))
  /\ Step(r, [run[r] EXCEPT !.pc = "idle", !.staged = "no"])
  /\ Fault
  /\ UNCHANGED <<history, lease, workspaces>>

\* _record_submission up to the history append.
Record(r) ==
  /\ At(r, "staged")
  /\ history' = [history EXCEPT ![r] = Append(@, run[r].index + 1)]
  /\ Step(r, [run[r] EXCEPT !.pc = "recording", !.state = "submitting"])
  /\ UNCHANGED <<lease, workspaces, capture, faults>>

\* The append itself fails.
RecordFails(r) ==
  /\ At(r, "staged")
  /\ Trace(r, Reopened(r))
  /\ Step(r, [run[r] EXCEPT !.pc = "idle", !.state = "input_delivered", !.staged = "no"])
  /\ Fault
  /\ UNCHANGED <<history, lease, workspaces>>

\* PreparedEvidence.commit, then the current Input is given up.
CommitEvidence(r) ==
  LET me == run[r]
      c  == TraceOf(r)
  IN /\ me.pc = "recording"
     /\ Trace(r, IF me.staged = "window" THEN [c EXCEPT !.buckets = @ \ {MyWindow(r)}] ELSE c)
     /\ Step(r, [me EXCEPT !.pc = "advancing", !.index = @ + 1, !.begun = 0,
                           !.offsets = me.index + 1, !.staged = "no"])
     /\ UNCHANGED <<history, lease, workspaces, faults>>

\* _advance_after_submission
Advanced(me, failed) ==
  IF failed /\ StopOnFailure
  THEN [me EXCEPT !.pc = "finishing", !.state = "completed", !.stopped = TRUE]
  ELSE IF More(me) THEN [me EXCEPT !.pc = "idle", !.state = "ready"]
  ELSE [me EXCEPT !.pc = "finishing", !.state = "completed"]

Advance(r) ==
  /\ At(r, "advancing")
  /\ \E failed \in BOOLEAN : Step(r, Advanced(run[r], failed))
  /\ UNCHANGED <<history, lease, workspaces, capture, faults>>

\* _finish_runtime, and the Judge of the last Submission unless it was
\* submitted with wait=False, which raises here.
FinishRuntime(r) ==
  LET me == run[r]
  IN /\ me.pc = "finishing"
     /\ Trace(r, FinishRun(TraceOf(r), r))
     /\ \E removed, wait \in BOOLEAN :
          /\ Close(r, removed)
          /\ Step(r, IF ~removed THEN [me EXCEPT !.pc = "idle", !.state = "failed"]
                     ELSE IF JudgeEnabled /\ ~me.stopped /\ wait
                     THEN [me EXCEPT !.pc = "judging", !.state = "judging"]
                     ELSE [me EXCEPT !.pc = "idle"])
     /\ UNCHANGED history

----------------------------------------------------------------------------
(* judge.                                                                  *)

Judge(r) ==
  /\ At(r, "idle")
  /\ run[r].state = "completed"
  /\ Step(r, [run[r] EXCEPT !.pc = "judging", !.state = "judging"])
  /\ UNCHANGED <<history, lease, workspaces, capture, faults>>

\* A report, or any exception, interrupts included: the state is assigned
\* whatever it has become meanwhile.
JudgeEnds(r) ==
  /\ At(r, "judging")
  /\ \E s \in {"report_ready", "completed"} :
       Step(r, [run[r] EXCEPT !.pc = "idle", !.state = s])
  /\ UNCHANGED <<history, lease, workspaces, capture, faults>>

----------------------------------------------------------------------------
(* cancel.                                                                 *)

\* Mutant: a failed Run can be cancelled.
MutCancellable == {"ready", "input_delivered", "completed", "judging", "failed"}

\* The states cancel() accepts; it returns at once when there is nothing left
\* to cancel and raises otherwise.
Cancellable == {"ready", "input_delivered", "completed", "judging"}

Cancel(r) ==
  /\ At(r, "idle")
  /\ run[r].state \in Cancellable
  /\ Step(r, [run[r] EXCEPT !.pc = "cancelling", !.state = "cancelled"])
  /\ UNCHANGED <<history, lease, workspaces, capture, faults>>

\* Mutant: cancel leaves the Trace window to the next step.
MutCancelled(c, r) == c

\* EvidenceCollector.cancel_step: the capture's active step, then the Run.
Cancelled(c, r) == FinishRun(CancelStep(c), r)

\* EvidenceCollector.cancel_step and RuntimeSession.close.
CloseCancelled(r) ==
  /\ At(r, "cancelling")
  /\ Trace(r, Cancelled(TraceOf(r), r))
  /\ \E removed \in BOOLEAN : Close(r, removed)
  /\ Step(r, [run[r] EXCEPT !.pc = "idle", !.begun = 0])
  /\ UNCHANGED history

\* cancel() by user code that a method of the same Run is calling.
CancelInside(r) ==
  LET me == run[r]
  IN /\ \/ me.pc = "output" /\ "output" \in Callbacks
        \/ me.pc = "flushing" /\ "flush" \in Callbacks
        \/ me.pc = "judging" /\ "judge" \in Callbacks
     /\ me.state \in Cancellable
     /\ Step(r, [me EXCEPT !.state = "cancelled", !.begun = 0])
     /\ Trace(r, Cancelled(TraceOf(r), r))
     /\ Close(r, TRUE)
     /\ UNCHANGED history

----------------------------------------------------------------------------
(* Interrupts (KeyboardInterrupt, SystemExit) and process exit.            *)

\* Where no handler restores anything.  After the history append the Run is
\* left "submitting", in the middle of cancel() it is already "cancelled".
Interrupt(r) ==
  LET me == run[r]
  IN /\ \/ /\ me.pc \in {"beginning", "output", "flushing", "staged"}
           /\ Step(r, [me EXCEPT !.pc = "idle", !.staged = "no"])
        \/ /\ me.pc \in {"recording", "advancing", "cancelling", "rollback"}
           /\ Step(r, [me EXCEPT !.pc = "abandoned", !.staged = "no"])
     /\ Fault
     /\ UNCHANGED <<history, lease, workspaces, capture>>

\* Within _finish_runtime before the close: the Run is failed.
InterruptFinish(r) ==
  /\ At(r, "finishing")
  /\ Step(r, [run[r] EXCEPT !.pc = "abandoned", !.state = "failed"])
  /\ Fault
  /\ UNCHANGED <<history, lease, workspaces, capture>>

\* The OS releases the lock, memory is lost, directories stay.
Exit(p) ==
  /\ \E r \in Run : Home[r] = p /\ run[r].pc \notin {"absent", "gone"}
  /\ run' = [r \in Run |->
               IF Home[r] = p /\ run[r].pc # "absent"
               THEN [run[r] EXCEPT !.pc = "gone", !.state = "exited", !.staged = "no"]
               ELSE run[r]]
  /\ history' = [r \in Run |-> IF Home[r] = p THEN <<>> ELSE history[r]]
  /\ lease' = IF lease # None /\ Home[lease] = p THEN None ELSE lease
  /\ capture' = [capture EXCEPT ![p] = [active |-> NoWindow, buckets |-> {}]]
  /\ Fault
  /\ UNCHANGED workspaces

----------------------------------------------------------------------------

\* What follows without a decision of the caller once a method was called.
Proceed(r) ==
  \/ CreateWorkspace(r)
  \/ GenerateCase(r)
  \/ Rollback(r)
  \/ Deliver(r)
  \/ Prepare(r)
  \/ Snapshot(r)
  \/ Record(r)
  \/ CommitEvidence(r)
  \/ Advance(r)
  \/ FinishRuntime(r)
  \/ JudgeEnds(r)
  \/ CloseCancelled(r)

\* What the caller of an unfinished Run decides.
Call(r) ==
  \/ BeginStep(r)
  \/ Submit(r)
  \/ Cancel(r)

Fails(r) ==
  \/ WorkspaceFails(r)
  \/ GenerationFails(r)
  \/ Refuse(r)
  \/ RecordFails(r)
  \/ Interrupt(r)
  \/ InterruptFinish(r)

Next ==
  \/ \E r \in Run :
       \/ CreateRun(r)
       \/ Proceed(r)
       \/ Call(r)
       \/ Judge(r)
       \/ CancelInside(r)
       \/ Fails(r)
  \/ \E p \in Process : Exit(p)

Spec == Init /\ [][Next]_vars

\* A method that was called runs to its end, and the caller of a Run either
\* goes on with it or cancels it.
Fairness ==
  \A r \in Run : WF_vars(Proceed(r)) /\ WF_vars(Call(r))

----------------------------------------------------------------------------
(* Properties.                                                             *)

Executing == {"ready", "input_delivered", "submitting"}

\* A Run that can still deliver or commit an Input holds the lease, so at
\* most one Run of the container does.
LeaseHeld == \A r \in Run : run[r].state \in Executing => lease = r

\* A method call that ended has released the lease of a Run that ended, also
\* when its directory could not be removed (_finish_runtime, cancel).
LeaseReleased ==
  \A r \in Run :
    run[r].pc \in {"idle", "judging", "gone"} /\ run[r].state \notin Executing
    => lease # r

\* The lease follows the Runs: it is neither lost under a Run that executes nor
\* kept by one that ended.
LeaseFollowsRun == LeaseHeld /\ LeaseReleased

\* Between two submits the log offsets, the Input position and the history
\* agree: an Input is committed once, in order, and Evidence moves with it.
EvidenceFollowsHistory ==
  \A r \in Run :
    run[r].state \notin {"submitting", "exited"} =>
      /\ history[r] = [i \in 1..run[r].index |-> i]
      /\ run[r].offsets = run[r].index

\* Telemetry is only ever collected for an Input that a Run is working on:
\* late spans of an ended Run enter no window.
WindowsInUse ==
  \A p \in Process :
    LET w == capture[p].active
    IN w # NoWindow =>
         \/ run[w.run].state \in {"ready", "input_delivered"} /\ w.input = run[w.run].index + 1
         \/ run[w.run].pc \in {"cancelling", "abandoned"}

\* The window that get_input opened is closed by its own Run only (docs: "The
\* window opens at get_input() and closes when submit() freezes Evidence").
WindowKept ==
  [][\A p \in Process :
       LET w == capture[p].active
       IN w # NoWindow /\ capture'[p].active # w => run'[w.run] # run[w.run]]_vars

\* What the caller sees of a Run.  A Submission counts once its Run has moved
\* on from it.
Public(me) == IF me.state = "submitting" THEN "input_delivered" ELSE me.state

Committed(me, past) == Len(past) - (IF me.state = "submitting" THEN 1 ELSE 0)

\* The public state machine: every step of every method, failure and interrupt
\* is one of its steps or leaves what the caller sees alone.
Protocol ==
  INSTANCE RunProtocol WITH
    state <- [r \in Run |-> Public(run[r])],
    committed <- [r \in Run |-> Committed(run[r], history[r])]

ImplementsProtocol == Protocol!Spec

\* Whoever holds the lease gives it up, unless an interrupt tore a call.
LeaseFreed ==
  \A r \in Run : lease = r ~> (lease # r \/ run[r].pc = "abandoned")

=============================================================================

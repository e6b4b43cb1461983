------------------------- MODULE RunLifecycleProofs -------------------------
(***************************************************************************)
(* Proofs about RunLifecycle, for any number of Runs, processes and Inputs:*)
(* type correctness, the lease discipline, the agreement of history and    *)
(* Evidence, and that every step is a step of RunProtocol.                 *)
(*                                                                         *)
(* The argument: where a Run's method is determines which states the Run   *)
(* can be in (PhaseOf), also after an interrupt and after a cancel() by    *)
(* user code.  What cancel() by a span exporter ("flush") or by a Judge    *)
(* ("judge") breaks is excluded by name where a theorem needs it.  WInv    *)
(* adds the Evidence windows: which one is open or staged for which Input. *)
(***************************************************************************)
EXTENDS RunLifecycle, TLAPS

----------------------------------------------------------------------------
(* The inductive invariant.                                                *)

\* Where a method is, and the states its Run can be in there.
PhaseOf(me) ==
  /\ me.pc \in {"absent", "opening", "generating", "rollback"} => me.state = "none"
  /\ me.pc = "absent" => me.index = 0
  /\ me.pc = "gone" => me.state \in {"none", "exited"}
  /\ me.pc = "abandoned" => me.state \in {"none", "submitting", "cancelled", "failed"}
  /\ me.pc = "idle" =>
       me.state \in {"ready", "input_delivered", "completed", "report_ready", "cancelled", "failed"}
  /\ me.pc = "beginning" => me.state = "ready" /\ me.index < Steps
  /\ me.pc = "output" =>
       me.state = "input_delivered" \/ (me.state = "cancelled" /\ me.begun = 0)
  /\ me.pc \in {"flushing", "staged"} =>
       me.state = "input_delivered" \/ (me.state = "cancelled" /\ "flush" \in Callbacks)
  /\ me.pc \in {"recording", "advancing"} => me.state = "submitting"
  /\ me.pc = "finishing" => me.state = "completed"
  /\ me.pc = "judging" =>
       me.state = "judging" \/ (me.state = "cancelled" /\ "judge" \in Callbacks)
  /\ me.pc = "cancelling" => me.state = "cancelled"
  /\ me.state = "input_delivered" => me.index < Steps
  /\ me.pc \in {"output", "flushing", "staged", "recording"} => me.index < Steps

Upto(n) == [i \in 1..n |-> i]

\* The history ends before the current Input, or with it between its append
\* and the commit of its Evidence.
HistoryOf(me, past) ==
  /\ me.pc = "recording" => past = Upto(me.index + 1) /\ me.offsets = me.index
  /\ \/ me.pc \notin {"recording", "abandoned", "gone"}
     \/ me.pc = "abandoned" /\ me.state # "submitting"
     \/ me.pc = "gone" /\ me.state # "exited"
     => past = Upto(me.index) /\ me.offsets = me.index

\* A Run that executes or is being created holds the lease.
Holds(me) == me.state \in Executing \/ me.pc \in {"opening", "generating"}

\* A Run that has ended has given the lease up, at the latest when its method
\* returns.
Released(me) ==
  /\ me.pc \in {"idle", "judging", "gone", "output", "flushing", "staged"}
  /\ me.state \notin Executing

LeaseOf(r) ==
  /\ "flush" \notin Callbacks /\ Holds(run[r]) => lease = r
  /\ Released(run[r]) => lease # r

IInv ==
  /\ TypeOK
  /\ \A r \in Run : PhaseOf(run[r])
  /\ \A r \in Run : HistoryOf(run[r], history[r])
  /\ \A r \in Run : LeaseOf(r)

----------------------------------------------------------------------------
(* A step of one Run.                                                      *)

\* The variables of no particular Run keep their types.
RestTyped ==
  /\ workspaces \subseteq Run
  /\ capture \in [Process -> Capture]
  /\ faults \in 0..MaxFaults

LEMMA StepKeeps ==
  ASSUME IInv, NEW r \in Run, NEW me \in RunRecord, NEW past \in Seq(1..Steps),
         Step(r, me), history' = [history EXCEPT ![r] = past],
         PhaseOf(me), HistoryOf(me, past),
         lease' \in {lease, None, r},
         \A x \in Run : x # r /\ lease = x => lease' = x,
         "flush" \notin Callbacks /\ Holds(me) => lease' = r,
         Released(me) => lease' # r,
         RestTyped'
  PROVE  IInv'
<1>1. TypeOK'
  BY DEF IInv, TypeOK, Step, RestTyped
<1>2. /\ \A x \in Run : run'[x] = IF x = r THEN me ELSE run[x]
      /\ \A x \in Run : history'[x] = IF x = r THEN past ELSE history[x]
  BY DEF IInv, TypeOK, Step
<1>3. \A x \in Run : PhaseOf(run'[x])
  BY <1>2 DEF IInv
<1>4. \A x \in Run : HistoryOf(run'[x], history'[x])
  BY <1>2 DEF IInv
<1>5. \A x \in Run : LeaseOf(x)'
  <2> SUFFICES ASSUME NEW x \in Run PROVE LeaseOf(x)'
    OBVIOUS
  <2>1. CASE x = r
    BY <1>2, <2>1 DEF LeaseOf
  <2>2. CASE x # r
    BY <1>2, <2>2, NoneAssumption DEF IInv, LeaseOf
  <2> QED  BY <2>1, <2>2
<1> QED  BY <1>1, <1>3, <1>4, <1>5 DEF IInv, PhaseOf, HistoryOf

\* A step that leaves history and lease alone.
LEMMA QuietStepKeeps ==
  ASSUME IInv, NEW r \in Run, NEW me \in RunRecord,
         Step(r, me), UNCHANGED <<history, lease>>,
         PhaseOf(me), HistoryOf(me, history[r]),
         Holds(me) => Holds(run[r]),
         Released(me) => Released(run[r]),
         RestTyped'
  PROVE  IInv'
<1>1. history[r] \in Seq(1..Steps) /\ history' = [history EXCEPT ![r] = history[r]]
  BY DEF IInv, TypeOK
<1>2. LeaseOf(r)
  BY DEF IInv
<1> QED  BY <1>1, <1>2, StepKeeps DEF LeaseOf

\* A step of a Run that gives its lease up, if it has it.
LEMMA CloseKeeps ==
  ASSUME IInv, NEW r \in Run, NEW me \in RunRecord,
         Step(r, me), UNCHANGED history, lease' = LeaseAfter(r),
         PhaseOf(me), HistoryOf(me, history[r]), ~Holds(me), RestTyped'
  PROVE  IInv'
<1>1. history[r] \in Seq(1..Steps) /\ history' = [history EXCEPT ![r] = history[r]]
  BY DEF IInv, TypeOK
<1>2. /\ lease' \in {lease, None, r} /\ lease' # r
      /\ \A x \in Run : x # r /\ lease = x => lease' = x
  BY NoneAssumption DEF LeaseAfter
<1> QED  BY <1>1, <1>2, StepKeeps

LEMMA FaultTyped ==
  ASSUME IInv, Fault \/ UNCHANGED faults
  PROVE  faults' \in 0..MaxFaults
BY OptionAssumption DEF IInv, TypeOK, Fault

LEMMA CloseTyped ==
  ASSUME IInv, NEW r \in Run, NEW removed \in BOOLEAN, Close(r, removed)
  PROVE  workspaces' \subseteq Run /\ faults' \in 0..MaxFaults /\ lease' = LeaseAfter(r)
BY FaultTyped DEF IInv, TypeOK, Close

\* Windows may be closed, and those of the collector's own buckets re-opened.
LEMMA TraceTyped ==
  ASSUME IInv, NEW r \in Run,
         NEW active \in {TraceOf(r).active, NoWindow} \union TraceOf(r).buckets,
         NEW buckets \in SUBSET TraceOf(r).buckets,
         Trace(r, [active |-> active, buckets |-> buckets])
  PROVE  capture' \in [Process -> Capture]
BY HomeAssumption DEF IInv, TypeOK, Trace, TraceOf, Capture

LEMMA CancelTyped ==
  ASSUME IInv, NEW r \in Run
  PROVE  /\ Trace(r, CancelStep(TraceOf(r))) => capture' \in [Process -> Capture]
         /\ Trace(r, FinishRun(TraceOf(r), r)) => capture' \in [Process -> Capture]
         /\ Trace(r, Cancelled(TraceOf(r), r)) => capture' \in [Process -> Capture]
<1>1. /\ TraceOf(r) \in Capture /\ CancelStep(TraceOf(r)) \in Capture
      /\ FinishRun(TraceOf(r), r) \in Capture
  BY HomeAssumption DEF IInv, TypeOK, TraceOf, Capture, CancelStep, FinishRun, Discarded
<1>2. Cancelled(TraceOf(r), r) \in Capture
  BY <1>1 DEF Capture, Cancelled, FinishRun, Discarded
<1> QED  BY <1>1, <1>2 DEF IInv, TypeOK, Trace

----------------------------------------------------------------------------
(* Each action.                                                            *)

LEMMA InitIInv == Init => IInv
<1> SUFFICES ASSUME Init PROVE IInv  OBVIOUS
<1>1. TypeOK
  BY StepsAssumption, OptionAssumption
  DEF Init, TypeOK, RunRecord, NewRun, PCs, States, Capture
<1>2. ASSUME NEW r \in Run PROVE PhaseOf(run[r]) /\ HistoryOf(run[r], history[r]) /\ LeaseOf(r)
  BY StepsAssumption
  DEF Init, NewRun, PhaseOf, HistoryOf, Upto, LeaseOf, Holds, Released, Executing
<1> QED  BY <1>1, <1>2 DEF IInv

LEMMA CreationKeeps ==
  ASSUME IInv, NEW r \in Run,
         \/ CreateRun(r) \/ CreateWorkspace(r) \/ WorkspaceFails(r)
         \/ GenerateCase(r) \/ GenerationFails(r) \/ Rollback(r)
  PROVE  IInv'
<1>0. run[r] \in RunRecord /\ PhaseOf(run[r]) /\ HistoryOf(run[r], history[r]) /\ LeaseOf(r)
      /\ history[r] \in Seq(1..Steps) /\ history = [history EXCEPT ![r] = history[r]]
  BY DEF IInv, TypeOK
<1>1. CASE CreateRun(r)
  <2> DEFINE me == [run[r] EXCEPT !.pc = "opening"]
  <2>1. me \in RunRecord /\ PhaseOf(me) /\ HistoryOf(me, history[r]) /\ ~Released(me)
    BY <1>0, <1>1 DEF CreateRun, At, RunRecord, PCs, PhaseOf, HistoryOf, Released
  <2>2. Step(r, me)
    BY <1>1 DEF CreateRun, Goto
  <2> HIDE DEF me
  <2> QED  BY <1>0, <1>1, <2>1, <2>2, NoneAssumption, StepKeeps DEF CreateRun, IInv, TypeOK, RestTyped
<1>2. CASE CreateWorkspace(r)
  <2> DEFINE me == [run[r] EXCEPT !.pc = "generating"]
  <2>1. /\ me \in RunRecord /\ PhaseOf(me) /\ HistoryOf(me, history[r])
        /\ ~Released(me) /\ Holds(run[r])
    BY <1>0, <1>2 DEF CreateWorkspace, At, RunRecord, PCs, PhaseOf, HistoryOf, Released, Holds
  <2>2. Step(r, me)
    BY <1>2 DEF CreateWorkspace, Goto
  <2> HIDE DEF me
  <2> QED  BY <1>2, <2>1, <2>2, QuietStepKeeps DEF CreateWorkspace, IInv, TypeOK, RestTyped
<1>3. CASE WorkspaceFails(r)
  <2> DEFINE me == [run[r] EXCEPT !.pc = "gone"]
  <2>1. me \in RunRecord /\ PhaseOf(me) /\ HistoryOf(me, history[r]) /\ ~Holds(me)
    BY <1>0, <1>3
    DEF WorkspaceFails, At, RunRecord, PCs, PhaseOf, HistoryOf, Holds, Executing
  <2>2. Step(r, me) /\ RestTyped'
    BY <1>3, FaultTyped DEF WorkspaceFails, Goto, IInv, TypeOK, RestTyped
  <2> HIDE DEF me
  <2> QED  BY <1>3, <2>1, <2>2, CloseKeeps DEF WorkspaceFails
<1>4. CASE GenerateCase(r)
  <2> DEFINE me == [run[r] EXCEPT !.pc = "idle", !.state = "ready"]
  <2>1. /\ me \in RunRecord /\ PhaseOf(me) /\ HistoryOf(me, history[r])
        /\ ~Released(me) /\ Holds(run[r])
    BY <1>0, <1>4
    DEF GenerateCase, At, RunRecord, PCs, States, PhaseOf, HistoryOf, Released, Holds, Executing
  <2>2. Step(r, me)
    BY <1>4 DEF GenerateCase
  <2> HIDE DEF me
  <2> QED  BY <1>4, <2>1, <2>2, QuietStepKeeps DEF GenerateCase, IInv, TypeOK, RestTyped
<1>5. CASE GenerationFails(r)
  <2> DEFINE me == [run[r] EXCEPT !.pc = "rollback"]
  <2>1. /\ me \in RunRecord /\ PhaseOf(me) /\ HistoryOf(me, history[r])
        /\ ~Released(me) /\ ~Holds(me)
    BY <1>0, <1>5
    DEF GenerationFails, At, RunRecord, PCs, PhaseOf, HistoryOf, Released, Holds, Executing
  <2>2. Step(r, me) /\ RestTyped'
    BY <1>5, FaultTyped DEF GenerationFails, Goto, IInv, TypeOK, RestTyped
  <2> HIDE DEF me
  <2> QED  BY <1>5, <2>1, <2>2, QuietStepKeeps DEF GenerationFails
<1>6. CASE Rollback(r)
  <2> DEFINE me == [run[r] EXCEPT !.pc = "gone"]
  <2>1. me \in RunRecord /\ PhaseOf(me) /\ HistoryOf(me, history[r]) /\ ~Holds(me)
    BY <1>0, <1>6 DEF Rollback, At, RunRecord, PCs, PhaseOf, HistoryOf, Holds, Executing
  <2>2. Step(r, me) /\ RestTyped' /\ lease' = LeaseAfter(r)
    BY <1>6, CloseTyped DEF Rollback, Goto, IInv, TypeOK, RestTyped
  <2> HIDE DEF me
  <2> QED  BY <1>6, <2>1, <2>2, CloseKeeps DEF Rollback
<1> QED  BY <1>1, <1>2, <1>3, <1>4, <1>5, <1>6

\* get_input, and submit up to the Evidence snapshot.
LEMMA PreparationKeeps ==
  ASSUME IInv, NEW r \in Run,
         BeginStep(r) \/ Deliver(r) \/ Submit(r) \/ Prepare(r) \/ Snapshot(r)
  PROVE  IInv'
<1>0. run[r] \in RunRecord /\ PhaseOf(run[r]) /\ HistoryOf(run[r], history[r])
      /\ TraceOf(r) \in Capture
  BY HomeAssumption DEF IInv, TypeOK, TraceOf
<1>1. CASE BeginStep(r)
  <2> DEFINE me == [run[r] EXCEPT !.pc = "beginning", !.begun = run[r].index + 1]
  <2>1. run[r].index + 1 \in 1..Steps /\ run[r].index + 1 \in 0..Steps
    BY <1>0, <1>1, StepsAssumption DEF BeginStep, More, RunRecord
  <2>2. me \in RunRecord
    BY <1>0, <2>1 DEF RunRecord, PCs
  <2>6. /\ me.pc = "beginning" /\ me.state = "ready" /\ me.index = run[r].index
        /\ me.offsets = run[r].offsets /\ me.index < Steps
        /\ run[r].pc = "idle" /\ run[r].state = "ready"
    BY <1>0, <1>1 DEF BeginStep, More, RunRecord
  <2>7. PhaseOf(me) /\ HistoryOf(me, history[r]) /\ ~Released(me) /\ Holds(run[r])
    BY <1>0, <2>6 DEF PhaseOf, HistoryOf, Released, Holds, Executing
  <2>3. MyWindow(r) \in Window
    BY <2>1 DEF MyWindow, Window
  <2>4. Opened(TraceOf(r), MyWindow(r)) \in Capture
    BY <1>0, <2>3 DEF Opened, Discarded, Capture
  <2>5. Step(r, me) /\ RestTyped'
    BY <1>1, <2>4 DEF BeginStep, Trace, IInv, TypeOK, RestTyped
  <2> HIDE DEF me
  <2> QED  BY <1>1, <2>2, <2>5, <2>7, QuietStepKeeps DEF BeginStep
<1>2. CASE Deliver(r)
  <2> DEFINE me == [run[r] EXCEPT !.pc = "idle", !.state = "input_delivered"]
  <2>1. /\ me \in RunRecord /\ PhaseOf(me) /\ HistoryOf(me, history[r])
        /\ ~Released(me) /\ Holds(run[r])
    BY <1>0, <1>2
    DEF Deliver, At, RunRecord, PCs, States, PhaseOf, HistoryOf, Released, Holds, Executing
  <2>2. Step(r, me) /\ RestTyped'
    BY <1>2 DEF Deliver, IInv, TypeOK, RestTyped
  <2> HIDE DEF me
  <2> QED  BY <1>2, <2>1, <2>2, QuietStepKeeps DEF Deliver
<1>3. CASE Submit(r)
  <2> DEFINE me == [run[r] EXCEPT !.pc = "output"]
  <2>1. /\ me \in RunRecord /\ PhaseOf(me) /\ HistoryOf(me, history[r])
        /\ ~Released(me) /\ Holds(run[r])
    BY <1>0, <1>3 DEF Submit, At, RunRecord, PCs, PhaseOf, HistoryOf, Released, Holds, Executing
  <2>2. Step(r, me) /\ RestTyped'
    BY <1>3 DEF Submit, Goto, IInv, TypeOK, RestTyped
  <2> HIDE DEF me
  <2> QED  BY <1>3, <2>1, <2>2, QuietStepKeeps DEF Submit
<1>4. CASE Prepare(r)
  <2>1. PICK me \in {[run[r] EXCEPT !.pc = "idle"], [run[r] EXCEPT !.pc = "flushing"],
                     Prepared(run[r], "failed")} :
          /\ Step(r, me)
          /\ me = [run[r] EXCEPT !.pc = "idle"] <=> run[r].begun # run[r].index + 1
    BY <1>0, <1>4 DEF Prepare, Goto, TraceFails, Prepared, RunRecord
  <2>2. /\ me \in RunRecord /\ HistoryOf(me, history[r])
        /\ Holds(me) => Holds(run[r])
        /\ Released(me) => Released(run[r])
    BY <1>0, <1>4, <2>1
    DEF Prepare, Prepared, RunRecord, PCs, HistoryOf, Released, Holds, Executing
  <2>3. PhaseOf(me)
    <3>1. run[r].pc = "output" /\ run[r].index + 1 # 0
      BY <1>0, <1>4, StepsAssumption DEF Prepare, RunRecord
    <3>2. /\ me.state = run[r].state /\ me.index = run[r].index
          /\ me.pc \in {"idle", "flushing", "staged"}
          /\ me.pc # "idle" => run[r].begun = run[r].index + 1
      BY <1>0, <2>1 DEF Prepared, RunRecord
    <3> QED  BY <1>0, <3>1, <3>2 DEF PhaseOf
  <2>4. RestTyped'
    BY <1>4, CancelTyped DEF Prepare, TraceFails, IInv, TypeOK, RestTyped
  <2> QED  BY <1>4, <2>1, <2>2, <2>3, <2>4, QuietStepKeeps DEF Prepare
<1>5. CASE Snapshot(r)
  <2>1. PICK how \in {"window", "failed"} : Step(r, Prepared(run[r], how))
    BY <1>5 DEF Snapshot, TraceFails
  <2> DEFINE me == Prepared(run[r], how)
  <2>2. /\ me \in RunRecord /\ PhaseOf(me) /\ HistoryOf(me, history[r])
        /\ Holds(me) => Holds(run[r])
        /\ Released(me) => Released(run[r])
    BY <1>0, <1>5
    DEF Snapshot, At, Prepared, RunRecord, PCs, PhaseOf, HistoryOf, Released, Holds, Executing
  <2>3. [TraceOf(r) EXCEPT !.active = IF @ = MyWindow(r) THEN NoWindow ELSE @] \in Capture
    BY <1>0 DEF Capture
  <2>4. Step(r, me) /\ RestTyped'
    BY <1>5, <2>1, <2>3, CancelTyped DEF Snapshot, TraceFails, Trace, IInv, TypeOK, RestTyped
  <2> HIDE DEF me
  <2> QED  BY <1>5, <2>2, <2>4, QuietStepKeeps DEF Snapshot
<1> QED  BY <1>1, <1>2, <1>3, <1>4, <1>5

\* A submit that is refused, and calls torn by an interrupt.
LEMMA FailureKeeps ==
  ASSUME IInv, NEW r \in Run,
         Refuse(r) \/ RecordFails(r) \/ Interrupt(r) \/ InterruptFinish(r)
  PROVE  IInv'
<1>0. /\ run[r] \in RunRecord /\ PhaseOf(run[r]) /\ HistoryOf(run[r], history[r]) /\ LeaseOf(r)
      /\ history[r] \in Seq(1..Steps) /\ history = [history EXCEPT ![r] = history[r]]
      /\ TraceOf(r) \in Capture
  BY HomeAssumption DEF IInv, TypeOK, TraceOf
<1>00. Trace(r, Reopened(r)) => capture' \in [Process -> Capture]
  <2>1. Reopened(r) \in Capture
    BY <1>0 DEF Reopened, Capture
  <2> QED  BY <2>1 DEF Trace, IInv, TypeOK
<1>1. CASE Refuse(r)
  <2> DEFINE me == [run[r] EXCEPT !.pc = "idle", !.staged = "no"]
  <2>1. /\ me \in RunRecord /\ PhaseOf(me) /\ HistoryOf(me, history[r])
        /\ Holds(me) => Holds(run[r])
        /\ Released(me) => Released(run[r])
    BY <1>0, <1>1
    DEF Refuse, RunRecord, PCs, PhaseOf, HistoryOf, Released, Holds, Executing
  <2>2. Step(r, me) /\ RestTyped'
    BY <1>1, <1>00, FaultTyped DEF Refuse, IInv, TypeOK, RestTyped
  <2> HIDE DEF me
  <2> QED  BY <1>1, <2>1, <2>2, QuietStepKeeps DEF Refuse
<1>2. CASE RecordFails(r)
  <2> DEFINE me == [run[r] EXCEPT !.pc = "idle", !.state = "input_delivered", !.staged = "no"]
  <2>1. /\ me \in RunRecord /\ PhaseOf(me) /\ HistoryOf(me, history[r])
        /\ "flush" \notin Callbacks => Holds(run[r])
        /\ ~Released(me)
    BY <1>0, <1>2
    DEF RecordFails, At, RunRecord, PCs, States, PhaseOf, HistoryOf, Released, Holds, Executing
  <2>2. Step(r, me) /\ RestTyped' /\ UNCHANGED <<history, lease>>
    BY <1>2, <1>00, FaultTyped DEF RecordFails, IInv, TypeOK, RestTyped
  <2> HIDE DEF me
  <2> QED  BY <1>0, <2>1, <2>2, StepKeeps DEF LeaseOf
<1>3. CASE Interrupt(r)
  <2>1. PICK pc \in {"idle", "abandoned"} :
          /\ Step(r, [run[r] EXCEPT !.pc = pc, !.staged = "no"])
          /\ pc = "idle" => run[r].pc \in {"beginning", "output", "flushing", "staged"}
          /\ pc = "abandoned" => run[r].pc \in {"recording", "advancing", "cancelling", "rollback"}
    BY <1>3 DEF Interrupt
  <2> DEFINE me == [run[r] EXCEPT !.pc = pc, !.staged = "no"]
  <2>2. me \in RunRecord /\ PhaseOf(me) /\ HistoryOf(me, history[r])
    BY <1>0, <2>1 DEF RunRecord, PCs, PhaseOf, HistoryOf
  <2>3. /\ Holds(me) => Holds(run[r])
        /\ Released(me) => Released(run[r])
    BY <1>0, <2>1 DEF RunRecord, PhaseOf, Released, Holds, Executing
  <2>4. Step(r, me) /\ RestTyped' /\ UNCHANGED <<history, lease>>
    BY <1>3, <2>1, FaultTyped DEF Interrupt, IInv, TypeOK, RestTyped
  <2> HIDE DEF me
  <2> QED  BY <2>2, <2>3, <2>4, QuietStepKeeps
<1>4. CASE InterruptFinish(r)
  <2> DEFINE me == [run[r] EXCEPT !.pc = "abandoned", !.state = "failed"]
  <2>1. /\ me \in RunRecord /\ PhaseOf(me) /\ HistoryOf(me, history[r])
        /\ ~Holds(me) /\ ~Released(me)
    BY <1>0, <1>4
    DEF InterruptFinish, At, RunRecord, PCs, States, PhaseOf, HistoryOf, Released, Holds, Executing
  <2>2. Step(r, me) /\ RestTyped'
    BY <1>4, FaultTyped DEF InterruptFinish, IInv, TypeOK, RestTyped
  <2> HIDE DEF me
  <2> QED  BY <1>4, <2>1, <2>2, QuietStepKeeps DEF InterruptFinish
<1> QED  BY <1>1, <1>2, <1>3, <1>4

\* submit from the history append to the end of the execution.
LEMMA CommitKeeps ==
  ASSUME IInv, NEW r \in Run,
         Record(r) \/ CommitEvidence(r) \/ Advance(r) \/ FinishRuntime(r)
  PROVE  IInv'
<1>0. /\ run[r] \in RunRecord /\ PhaseOf(run[r]) /\ HistoryOf(run[r], history[r]) /\ LeaseOf(r)
      /\ history[r] \in Seq(1..Steps) /\ history = [history EXCEPT ![r] = history[r]]
      /\ TraceOf(r) \in Capture /\ run[r].index \in Nat
  BY HomeAssumption, StepsAssumption DEF IInv, TypeOK, TraceOf, RunRecord
<1>1. CASE Record(r)
  <2> DEFINE me == [run[r] EXCEPT !.pc = "recording", !.state = "submitting"]
             past == Append(history[r], run[r].index + 1)
  <2>1. run[r].pc = "staged" /\ run[r].index + 1 \in 1..Steps
    BY <1>0, <1>1, StepsAssumption DEF Record, At, PhaseOf
  <2>2. /\ me \in RunRecord /\ PhaseOf(me) /\ ~Released(me)
        /\ "flush" \notin Callbacks => Holds(run[r])
    BY <1>0, <2>1 DEF RunRecord, PCs, States, PhaseOf, Released, Holds, Executing
  <2>3. history[r] = Upto(run[r].index) /\ run[r].offsets = run[r].index
    BY <1>0, <2>1 DEF HistoryOf
  <2>4. past \in Seq(1..Steps) /\ past = Upto(run[r].index + 1)
    BY <1>0, <2>1, <2>3 DEF Upto
  <2>5. HistoryOf(me, past)
    BY <1>0, <2>3, <2>4 DEF HistoryOf, RunRecord
  <2>6. /\ Step(r, me) /\ history' = [history EXCEPT ![r] = past]
        /\ UNCHANGED lease /\ RestTyped'
    BY <1>1 DEF Record, IInv, TypeOK, RestTyped
  <2> HIDE DEF me, past
  <2> QED  BY <1>0, <2>2, <2>4, <2>5, <2>6, StepKeeps DEF LeaseOf
<1>2. CASE CommitEvidence(r)
  <2> DEFINE me == [run[r] EXCEPT !.pc = "advancing", !.index = @ + 1, !.begun = 0,
                                  !.offsets = run[r].index + 1, !.staged = "no"]
  <2>1. run[r].pc = "recording" /\ run[r].index + 1 \in 0..Steps /\ 0 \in 0..Steps
    BY <1>0, <1>2, StepsAssumption DEF CommitEvidence, PhaseOf
  <2>2. me \in RunRecord
    BY <1>0, <2>1 DEF RunRecord, PCs
  <2>3. /\ me.pc = "advancing" /\ me.state = run[r].state
        /\ me.index = run[r].index + 1 /\ me.offsets = run[r].index + 1
    BY <1>0 DEF RunRecord
  <2>4. /\ PhaseOf(me) /\ HistoryOf(me, history[r])
        /\ ~Released(me) /\ Holds(run[r])
    BY <1>0, <2>1, <2>3 DEF PhaseOf, HistoryOf, Released, Holds, Executing
  <2>5. Step(r, me) /\ UNCHANGED <<history, lease>>
    BY <1>2 DEF CommitEvidence
  <2>6. RestTyped'
    BY <1>0, <1>2 DEF CommitEvidence, Trace, Capture, IInv, TypeOK, RestTyped
  <2> HIDE DEF me
  <2> QED  BY <2>2, <2>4, <2>5, <2>6, QuietStepKeeps
<1>3. CASE Advance(r)
  <2>1. PICK failed \in BOOLEAN : Step(r, Advanced(run[r], failed))
    BY <1>3 DEF Advance
  <2> DEFINE me == Advanced(run[r], failed)
  <2>2. me \in RunRecord
    BY <1>0 DEF Advanced, RunRecord, PCs, States
  <2>3. /\ me.index = run[r].index /\ me.offsets = run[r].offsets
        /\ \/ me.pc = "finishing" /\ me.state = "completed"
           \/ me.pc = "idle" /\ me.state = "ready"
    BY <1>0 DEF Advanced, RunRecord
  <2>4. run[r].pc = "advancing"
    BY <1>3 DEF Advance, At
  <2>5. /\ PhaseOf(me) /\ HistoryOf(me, history[r])
        /\ ~Released(me) /\ Holds(run[r])
    BY <1>0, <2>3, <2>4 DEF PhaseOf, HistoryOf, Released, Holds, Executing
  <2>6. Step(r, me) /\ UNCHANGED <<history, lease>> /\ RestTyped'
    BY <1>3, <2>1 DEF Advance, IInv, TypeOK, RestTyped
  <2> HIDE DEF me
  <2> QED  BY <2>2, <2>5, <2>6, QuietStepKeeps
<1>4. CASE FinishRuntime(r)
  <2>1. PICK removed \in BOOLEAN,
             me \in {[run[r] EXCEPT !.pc = "idle", !.state = "failed"],
                     [run[r] EXCEPT !.pc = "judging", !.state = "judging"],
                     [run[r] EXCEPT !.pc = "idle"]} :
          Close(r, removed) /\ Step(r, me)
    BY <1>4 DEF FinishRuntime
  <2>2. run[r].pc = "finishing"
    BY <1>4 DEF FinishRuntime
  <2>3. me \in RunRecord
    BY <1>0, <2>1 DEF RunRecord, PCs, States
  <2>5. /\ me.index = run[r].index /\ me.offsets = run[r].offsets
        /\ \/ me.pc = "idle" /\ me.state \in {"failed", run[r].state}
           \/ me.pc = "judging" /\ me.state = "judging"
    BY <1>0, <2>1 DEF RunRecord
  <2>6. PhaseOf(me) /\ HistoryOf(me, history[r]) /\ ~Holds(me)
    BY <1>0, <2>2, <2>5 DEF PhaseOf, HistoryOf, Holds, Executing
  <2>4. RestTyped' /\ UNCHANGED history /\ lease' = LeaseAfter(r)
    BY <1>4, <2>1, CloseTyped, CancelTyped DEF FinishRuntime, RestTyped
  <2> QED  BY <2>1, <2>3, <2>4, <2>6, CloseKeeps
<1> QED  BY <1>1, <1>2, <1>3, <1>4

LEMMA JudgeAndCancelKeep ==
  ASSUME IInv, NEW r \in Run,
         Judge(r) \/ JudgeEnds(r) \/ Cancel(r) \/ CloseCancelled(r) \/ CancelInside(r)
  PROVE  IInv'
<1>0. /\ run[r] \in RunRecord /\ PhaseOf(run[r]) /\ HistoryOf(run[r], history[r])
      /\ 0 \in 0..Steps
  BY StepsAssumption DEF IInv, TypeOK
<1>1. CASE Judge(r)
  <2> DEFINE me == [run[r] EXCEPT !.pc = "judging", !.state = "judging"]
  <2>1. /\ me \in RunRecord /\ PhaseOf(me) /\ HistoryOf(me, history[r])
        /\ ~Holds(me) /\ Released(run[r])
    BY <1>0, <1>1
    DEF Judge, At, RunRecord, PCs, States, PhaseOf, HistoryOf, Released, Holds, Executing
  <2>2. Step(r, me) /\ RestTyped' /\ UNCHANGED <<history, lease>>
    BY <1>1 DEF Judge, IInv, TypeOK, RestTyped
  <2> HIDE DEF me
  <2> QED  BY <2>1, <2>2, QuietStepKeeps
<1>2. CASE JudgeEnds(r)
  <2>1. PICK s \in {"report_ready", "completed"} :
          Step(r, [run[r] EXCEPT !.pc = "idle", !.state = s])
    BY <1>2 DEF JudgeEnds
  <2> DEFINE me == [run[r] EXCEPT !.pc = "idle", !.state = s]
  <2>2. /\ me \in RunRecord /\ PhaseOf(me) /\ HistoryOf(me, history[r])
        /\ ~Holds(me) /\ Released(run[r])
    BY <1>0, <1>2
    DEF JudgeEnds, At, RunRecord, PCs, States, PhaseOf, HistoryOf, Released, Holds, Executing
  <2>3. Step(r, me) /\ RestTyped' /\ UNCHANGED <<history, lease>>
    BY <1>2, <2>1 DEF JudgeEnds, IInv, TypeOK, RestTyped
  <2> HIDE DEF me
  <2> QED  BY <2>2, <2>3, QuietStepKeeps
<1>3. CASE Cancel(r)
  <2> DEFINE me == [run[r] EXCEPT !.pc = "cancelling", !.state = "cancelled"]
  <2>1. /\ me \in RunRecord /\ PhaseOf(me) /\ HistoryOf(me, history[r])
        /\ ~Holds(me) /\ ~Released(me)
    BY <1>0, <1>3
    DEF Cancel, At, RunRecord, PCs, States, PhaseOf, HistoryOf, Released, Holds, Executing
  <2>2. Step(r, me) /\ RestTyped' /\ UNCHANGED <<history, lease>>
    BY <1>3 DEF Cancel, IInv, TypeOK, RestTyped
  <2> HIDE DEF me
  <2> QED  BY <2>1, <2>2, QuietStepKeeps
<1>4. CASE CloseCancelled(r)
  <2> DEFINE me == [run[r] EXCEPT !.pc = "idle", !.begun = 0]
  <2>1. me \in RunRecord /\ PhaseOf(me) /\ HistoryOf(me, history[r]) /\ ~Holds(me)
    BY <1>0, <1>4 DEF CloseCancelled, At, RunRecord, PCs, PhaseOf, HistoryOf, Holds, Executing
  <2>2. Step(r, me) /\ RestTyped' /\ UNCHANGED history /\ lease' = LeaseAfter(r)
    BY <1>4, CloseTyped, CancelTyped DEF CloseCancelled, RestTyped
  <2> HIDE DEF me
  <2> QED  BY <2>1, <2>2, CloseKeeps
<1>5. CASE CancelInside(r)
  <2> DEFINE me == [run[r] EXCEPT !.state = "cancelled", !.begun = 0]
  <2>1. me \in RunRecord
    BY <1>0 DEF RunRecord, States
  <2>2. PhaseOf(me) /\ HistoryOf(me, history[r]) /\ ~Holds(me)
    BY <1>0, <1>5 DEF CancelInside, RunRecord, PhaseOf, HistoryOf, Holds, Executing
  <2>3. Step(r, me) /\ RestTyped' /\ UNCHANGED history /\ lease' = LeaseAfter(r)
    BY <1>5, CloseTyped, CancelTyped DEF CancelInside, RestTyped
  <2> HIDE DEF me
  <2> QED  BY <2>1, <2>2, <2>3, CloseKeeps
<1> QED  BY <1>1, <1>2, <1>3, <1>4, <1>5

\* A process takes its Runs, their history and the lease of one of them along.
LEMMA ExitKeeps ==
  ASSUME IInv, NEW p \in Process, Exit(p)
  PROVE  IInv'
<1> DEFINE Gone(r) == Home[r] = p /\ run[r].pc # "absent"
           exited(r) == [run[r] EXCEPT !.pc = "gone", !.state = "exited", !.staged = "no"]
<1>1. ASSUME NEW r \in Run PROVE exited(r) \in RunRecord
  BY <1>1 DEF IInv, TypeOK, RunRecord, PCs, States
<1>2. \A r \in Run : run'[r] = IF Gone(r) THEN exited(r) ELSE run[r]
  BY DEF Exit
<1>3. \A r \in Run : history'[r] = IF Home[r] = p THEN <<>> ELSE history[r]
  BY DEF Exit
<1>4. TypeOK'
  <2>1. run' \in [Run -> RunRecord]
    BY <1>1 DEF Exit, IInv, TypeOK
  <2>2. history' \in [Run -> Seq(1..Steps)]
    <3>1. << >> \in Seq(1..Steps) /\ history \in [Run -> Seq(1..Steps)]
      BY DEF IInv, TypeOK
    <3>2. history' = [r \in Run |-> IF Home[r] = p THEN << >> ELSE history[r]]
      BY DEF Exit
    <3> QED  BY ONLY <3>1, <3>2
  <2>3. capture' \in [Process -> Capture]
    BY DEF Exit, IInv, TypeOK, Capture
  <2> QED  BY <2>1, <2>2, <2>3, FaultTyped DEF Exit, IInv, TypeOK
<1>5. ASSUME NEW r \in Run
      PROVE  PhaseOf(run'[r]) /\ HistoryOf(run'[r], history'[r]) /\ LeaseOf(r)'
  <2>0. run[r] \in RunRecord /\ PhaseOf(run[r]) /\ HistoryOf(run[r], history[r]) /\ LeaseOf(r)
    BY DEF IInv, TypeOK
  <2>1. CASE Gone(r)
    <3>1. run'[r].pc = "gone" /\ run'[r].state = "exited"
      BY <1>2, <2>0, <2>1 DEF RunRecord
    <3>2. lease' # r
      BY <2>1, NoneAssumption DEF Exit
    <3> QED  BY <3>1, <3>2 DEF PhaseOf, HistoryOf, LeaseOf, Holds, Released, Executing
  <2>2. CASE ~Gone(r)
    <3>1. run'[r] = run[r]
      BY <1>2, <2>2
    <3>2. Home[r] = p => run[r].pc = "absent" /\ run[r].state = "none" /\ run[r].index = 0
      BY <2>0, <2>2 DEF PhaseOf
    <3>3. HistoryOf(run'[r], history'[r])
      <4>1. CASE Home[r] = p
        <5>1. Upto(0) = << >>
          BY DEF Upto
        <5> QED  BY <1>3, <2>0, <3>1, <3>2, <4>1, <5>1 DEF HistoryOf
      <4>2. CASE Home[r] # p
        BY <1>3, <2>0, <3>1, <4>2
      <4> QED  BY <4>1, <4>2
    <3>4. LeaseOf(r)'
      <4>1. lease' = lease \/ (lease # None /\ Home[lease] = p /\ lease' = None)
        BY DEF Exit
      <4>2. Home[r] = p => ~Holds(run[r])
        BY <3>2 DEF Holds, Executing
      <4> QED  BY <2>0, <3>1, <4>1, <4>2, NoneAssumption DEF LeaseOf
    <3> QED  BY <2>0, <3>1, <3>3, <3>4
  <2> QED  BY <2>1, <2>2
<1> QED  BY <1>4, <1>5 DEF IInv, HistoryOf, PhaseOf

LEMMA NextIInv ==
  ASSUME IInv, [Next]_vars
  PROVE  IInv'
<1>1. CASE UNCHANGED vars
  BY <1>1 DEF vars, IInv, TypeOK, LeaseOf, Holds, Released
<1>2. ASSUME NEW r \in Run,
             CreateRun(r) \/ Proceed(r) \/ Call(r) \/ Judge(r) \/ CancelInside(r) \/ Fails(r)
      PROVE  IInv'
  BY <1>2, CreationKeeps, PreparationKeeps, FailureKeeps, CommitKeeps, JudgeAndCancelKeep
  DEF Proceed, Call, Fails
<1>3. ASSUME NEW p \in Process, Exit(p) PROVE IInv'
  BY <1>3, ExitKeeps
<1> QED  BY <1>1, <1>2, <1>3 DEF Next

----------------------------------------------------------------------------
(* The theorems.                                                           *)

\* The inductive invariant holds of every reachable state, whatever fails,
\* whoever is interrupted, and whatever user code calls cancel().
THEOREM Invariance == Spec => []IInv
BY InitIInv, NextIInv, PTL DEF Spec

\* Every field of every Run, the lease, the workspaces and the Trace captures
\* keep their types.
THEOREM TypeCorrect == Spec => []TypeOK
<1>1. IInv => TypeOK
  BY DEF IInv
<1> QED  BY <1>1, Invariance, PTL

\* At most one Run of the container can deliver or commit an Input: it holds
\* the lease from create_run to the end of its execution, across refused
\* outputs, failed calls, interrupts and other processes' exits.  A span
\* exporter that cancels the Run from within a flush is excluded.
THEOREM ExecutingHoldsLease ==
  ASSUME "flush" \notin Callbacks
  PROVE  Spec => []LeaseHeld
<1>1. IInv => LeaseHeld
  BY DEF IInv, LeaseOf, Holds, LeaseHeld
<1> QED  BY <1>1, Invariance, PTL

\* No method leaves the lease with a Run that has ended, also when the
\* directory cannot be removed and when user code cancels a Run that a method
\* is working on.
THEOREM EndedReleasesLease == Spec => []LeaseReleased
<1>1. IInv => LeaseReleased
  <2> SUFFICES ASSUME IInv, NEW r \in Run,
                      run[r].pc \in {"idle", "judging", "gone"},
                      run[r].state \notin Executing
               PROVE  lease # r
    BY DEF LeaseReleased
  <2> QED  BY DEF IInv, LeaseOf, Released
<1> QED  BY <1>1, Invariance, PTL

\* Both: the lease is where the Runs need it, and nowhere else.
THEOREM LeaseFollows ==
  ASSUME "flush" \notin Callbacks
  PROVE  Spec => []LeaseFollowsRun
<1>1. LeaseHeld /\ LeaseReleased => LeaseFollowsRun
  BY DEF LeaseFollowsRun
<1> QED  BY <1>1, ExecutingHoldsLease, EndedReleasesLease, PTL

\* Whenever the Run is not in the middle of a commit, its history has exactly
\* the Inputs before the current one, and the log offsets moved as often:
\* refused, failed and interrupted submits leave no trace in either.
THEOREM HistoryAgrees == Spec => []EvidenceFollowsHistory
<1>1. IInv => EvidenceFollowsHistory
  <2> SUFFICES ASSUME IInv, NEW r \in Run, run[r].state \notin {"submitting", "exited"}
               PROVE  history[r] = [i \in 1..run[r].index |-> i] /\ run[r].offsets = run[r].index
    BY DEF EvidenceFollowsHistory
  <2>1. PhaseOf(run[r]) /\ HistoryOf(run[r], history[r])
    BY DEF IInv
  <2> QED  BY <2>1 DEF PhaseOf, HistoryOf, Upto
<1> QED  BY <1>1, Invariance, PTL

----------------------------------------------------------------------------
(* The windows.  IInv says nothing of the Trace captures; this is what the *)
(* windows and their buckets owe to the Runs that opened them.             *)

\* The window of the Input that a Run with these fields is at.
WindowAt(r, me) == [run |-> r, input |-> me.index + 1]

\* A window that is open on behalf of a Run: of its current Input, while that
\* can still be submitted and no snapshot has closed the window, or until the
\* cancel() in progress closes it.
MayCollect(me, w) ==
  /\ w.input = me.index + 1
  /\ \/ me.state \in {"ready", "input_delivered"} /\ me.pc # "staged"
     \/ me.pc \in {"cancelling", "abandoned"}

WindowFits(p) ==
  LET w == capture[p].active
  IN w # NoWindow => Home[w.run] = p /\ MayCollect(run[w.run], w)

\* While a method stages Evidence, the bucket of its window is only there if
\* nobody cancelled the step; the window of a flush is still open then.
BucketOf(r, me, c) ==
  me.pc \in {"flushing", "staged"} /\ WindowAt(r, me) \in c.buckets =>
    /\ me.state = "input_delivered"
    /\ me.pc = "flushing" => c.active = WindowAt(r, me)

\* Prepared Evidence does not outlive the method that prepared it.
StagedOf(me) == me.staged # "no" => me.pc \in {"staged", "recording"}

WInv ==
  /\ \A p \in Process : WindowFits(p)
  /\ \A r \in Run : BucketOf(r, run[r], TraceOf(r)) /\ StagedOf(run[r])

LEMMA InitWInv == Init => WInv
BY HomeAssumption
DEF Init, NewRun, WInv, WindowFits, BucketOf, StagedOf, TraceOf

\* A step of a Run on its process's capture: it may close the active window
\* with its bucket, or open a window of its own.
LEMMA CaptureStepKeeps ==
  ASSUME IInv, WInv, NEW r \in Run, NEW me \in RunRecord, NEW c \in Capture,
         Step(r, me), Trace(r, c),
         c.active \in {TraceOf(r).active, NoWindow, WindowAt(r, me)},
         c.active.run = r => MayCollect(me, c.active),
         \A w \in c.buckets :
           w.run # r => w \in TraceOf(r).buckets /\ (TraceOf(r).active = w => c.active = w),
         BucketOf(r, me, c), StagedOf(me)
  PROVE  WInv'
<1>1. /\ \A x \in Run : run'[x] = IF x = r THEN me ELSE run[x]
      /\ \A p \in Process : capture'[p] = IF p = Home[r] THEN c ELSE capture[p]
      /\ \A x \in Run : Home[x] \in Process
      /\ \A p \in Process : capture[p] \in Capture
  BY HomeAssumption DEF IInv, TypeOK, Step, Trace
<1>2. ASSUME NEW p \in Process PROVE WindowFits(p)'
  <2> DEFINE w == capture'[p].active
  <2> SUFFICES ASSUME w # NoWindow PROVE Home[w.run] = p /\ MayCollect(run'[w.run], w)
    BY DEF WindowFits
  <2>0. WindowFits(p) /\ (capture[p].active # NoWindow => capture[p].active.run \in Run)
    BY <1>1 DEF WInv, Capture, Window
  <2>1. CASE p = Home[r] /\ w.run = r
    BY <1>1, <2>1
  <2>2. CASE p = Home[r] /\ w.run # r
    <3>1. w = capture[p].active
      BY <1>1, <2>2 DEF TraceOf, WindowAt
    <3> QED  BY <1>1, <2>0, <2>2, <3>1 DEF WindowFits
  <2>3. CASE p # Home[r]
    <3>1. w = capture[p].active
      BY <1>1, <2>3
    <3>2. w.run # r
      BY <2>0, <2>3, <3>1 DEF WindowFits
    <3> QED  BY <1>1, <2>0, <3>1, <3>2 DEF WindowFits
  <2> QED  BY <2>1, <2>2, <2>3
<1>3. ASSUME NEW x \in Run PROVE BucketOf(x, run'[x], capture'[Home[x]]) /\ StagedOf(run'[x])
  <2>1. CASE x = r
    BY <1>1, <2>1
  <2>2. CASE x # r /\ Home[x] = Home[r]
    <3>1. run'[x] = run[x] /\ capture'[Home[x]] = c
          /\ BucketOf(x, run[x], TraceOf(r)) /\ StagedOf(run[x])
      BY <1>1, <2>2 DEF WInv, TraceOf
    <3>2. WindowAt(x, run[x]).run # r
      BY <2>2 DEF WindowAt
    <3> QED  BY <3>1, <3>2 DEF BucketOf
  <2>3. CASE Home[x] # Home[r]
    BY <1>1, <2>3 DEF WInv, TraceOf
  <2> QED  BY <2>1, <2>2, <2>3
<1> QED  BY <1>2, <1>3 DEF WInv, TraceOf

\* A step that leaves the captures alone, and its Run no less at work on the
\* Input than it was.
LEMMA OtherStepKeeps ==
  ASSUME IInv, WInv, NEW r \in Run, NEW me \in RunRecord,
         Step(r, me), UNCHANGED capture,
         TraceOf(r).active.run = r => MayCollect(me, TraceOf(r).active),
         BucketOf(r, me, TraceOf(r)), StagedOf(me)
  PROVE  WInv'
<1>1. TraceOf(r) \in Capture /\ Trace(r, TraceOf(r))
  BY HomeAssumption DEF IInv, TypeOK, Trace, TraceOf
<1> QED  BY <1>1, CaptureStepKeeps

\* What the invariants say of one Run and the capture of its process.
LEMMA RunFacts ==
  ASSUME IInv, WInv, NEW r \in Run
  PROVE  /\ run[r] \in RunRecord /\ run[r].index \in Nat /\ PhaseOf(run[r])
         /\ BucketOf(r, run[r], TraceOf(r)) /\ StagedOf(run[r])
         /\ TraceOf(r) \in Capture
         /\ TraceOf(r).active.run = r => MayCollect(run[r], TraceOf(r).active)
         /\ MyWindow(r) = WindowAt(r, run[r])
         /\ NoWindow.run # r /\ WindowAt(r, run[r]).run = r
<1>1. Home[r] \in Process /\ WindowFits(Home[r]) /\ NoWindow.run # r
  BY HomeAssumption, NoneAssumption DEF WInv, NoWindow
<1>2. run[r] \in RunRecord /\ TraceOf(r) \in Capture /\ run[r].index \in Nat
  BY <1>1, StepsAssumption DEF IInv, TypeOK, TraceOf, RunRecord
<1> QED  BY <1>1, <1>2 DEF IInv, WInv, WindowFits, TraceOf, MyWindow, WindowAt

\* cancel_step, in whatever order with finish_run, closes the active window
\* and drops its bucket.
LEMMA CancelCloses ==
  ASSUME NEW c \in Capture, NEW r \in Run
  PROVE  /\ CancelStep(c) \in Capture
         /\ CancelStep(c).active = NoWindow /\ CancelStep(c).buckets = c.buckets \ {c.active}
         /\ Cancelled(c, r) = CancelStep(c)
<1>1. /\ CancelStep(c) \in Capture
      /\ CancelStep(c).active = NoWindow /\ CancelStep(c).buckets = c.buckets \ {c.active}
  BY DEF CancelStep, Discarded, Capture
<1>2. NoWindow.run # r
  BY NoneAssumption DEF NoWindow
<1> QED  BY <1>1, <1>2 DEF Cancelled, FinishRun

\* A step of a Run that closes whatever window is active.
LEMMA ClosingStepKeeps ==
  ASSUME IInv, WInv, NEW r \in Run, NEW me \in RunRecord,
         Step(r, me), Trace(r, CancelStep(TraceOf(r))),
         me.pc \in {"flushing", "staged"} /\ WindowAt(r, me) \in TraceOf(r).buckets =>
           \/ me.pc = "staged" /\ me.state = "input_delivered"
           \/ TraceOf(r).active = WindowAt(r, me),
         StagedOf(me)
  PROVE  WInv'
<1> DEFINE c == CancelStep(TraceOf(r))
<1>1. /\ c \in Capture /\ c.active = NoWindow
      /\ c.buckets = TraceOf(r).buckets \ {TraceOf(r).active}
  BY RunFacts, CancelCloses
<1>2. BucketOf(r, me, c)
  BY <1>1 DEF BucketOf
<1>3. c.active.run # r
  BY <1>1, RunFacts
<1> HIDE DEF c
<1>4. Trace(r, c)
  BY DEF c
<1> QED  BY <1>1, <1>2, <1>3, <1>4, CaptureStepKeeps

----------------------------------------------------------------------------
(* The windows, each action.                                               *)

\* create_run and the ends of a Run that are past its last Input: no window of
\* the Run is open, before or after.
LEMMA IdleWindowsKept ==
  ASSUME IInv, WInv, NEW r \in Run,
         \/ CreateRun(r) \/ CreateWorkspace(r) \/ WorkspaceFails(r)
         \/ GenerateCase(r) \/ GenerationFails(r) \/ Rollback(r)
         \/ Advance(r) \/ Judge(r) \/ JudgeEnds(r) \/ InterruptFinish(r)
  PROVE  WInv'
<1>1. PICK me \in RunRecord : Step(r, me) /\ me.staged = run[r].staged
                              /\ me.pc \notin {"flushing", "staged"}
  <2>0. run[r] \in RunRecord
    BY RunFacts
  <2>1. CASE \/ CreateRun(r) \/ CreateWorkspace(r) \/ WorkspaceFails(r)
             \/ GenerationFails(r) \/ Rollback(r)
    <3>1. PICK pc \in {"opening", "generating", "gone", "rollback"} :
            Step(r, [run[r] EXCEPT !.pc = pc])
      BY <2>1
      DEF CreateRun, CreateWorkspace, WorkspaceFails, GenerationFails, Rollback, Goto
    <3>2. [run[r] EXCEPT !.pc = pc] \in RunRecord
          /\ [run[r] EXCEPT !.pc = pc].staged = run[r].staged
          /\ [run[r] EXCEPT !.pc = pc].pc = pc
      BY <2>0 DEF RunRecord, PCs
    <3> QED  BY <3>1, <3>2
  <2>2. CASE GenerateCase(r) \/ Judge(r) \/ JudgeEnds(r) \/ InterruptFinish(r)
    <3>1. PICK pc \in {"idle", "judging", "abandoned"},
               s \in {"ready", "judging", "report_ready", "completed", "failed"} :
            Step(r, [run[r] EXCEPT !.pc = pc, !.state = s])
      BY <2>2 DEF GenerateCase, Judge, JudgeEnds, InterruptFinish
    <3>2. [run[r] EXCEPT !.pc = pc, !.state = s] \in RunRecord
          /\ [run[r] EXCEPT !.pc = pc, !.state = s].staged = run[r].staged
          /\ [run[r] EXCEPT !.pc = pc, !.state = s].pc = pc
      BY <2>0 DEF RunRecord, PCs, States
    <3> QED  BY <3>1, <3>2
  <2>3. CASE Advance(r)
    <3>1. PICK failed \in BOOLEAN : Step(r, Advanced(run[r], failed))
      BY <2>3 DEF Advance
    <3>2. /\ Advanced(run[r], failed) \in RunRecord
          /\ Advanced(run[r], failed).staged = run[r].staged
          /\ Advanced(run[r], failed).pc \in {"finishing", "idle"}
      BY <2>0 DEF Advanced, RunRecord, PCs, States
    <3> QED  BY <3>1, <3>2
  <2> QED  BY <2>1, <2>2, <2>3
<1>2. /\ run[r].state \notin {"ready", "input_delivered"}
      /\ run[r].pc \notin {"cancelling", "abandoned", "staged", "recording"}
      /\ UNCHANGED capture
  BY RunFacts
  DEF CreateRun, CreateWorkspace, WorkspaceFails, GenerateCase, GenerationFails, Rollback,
      Advance, Judge, JudgeEnds, InterruptFinish, At, PhaseOf
<1>3. TraceOf(r).active.run # r /\ me.staged = "no"
  BY <1>1, <1>2, RunFacts DEF MayCollect, StagedOf
<1> QED  BY <1>1, <1>2, <1>3, OtherStepKeeps DEF BucketOf, StagedOf

\* get_input, the begin of submit, cancel() up to the Evidence and interrupts:
\* the Run stays at work on the Input, or is torn.
LEMMA OpenWindowsKept ==
  ASSUME IInv, WInv, NEW r \in Run,
         Deliver(r) \/ Submit(r) \/ Cancel(r) \/ Interrupt(r)
  PROVE  WInv'
<1>0. run[r] \in RunRecord
  BY RunFacts
<1>1. CASE Deliver(r)
  <2> DEFINE me == [run[r] EXCEPT !.pc = "idle", !.state = "input_delivered"]
  <2>1. me \in RunRecord /\ me.index = run[r].index /\ me.staged = run[r].staged
        /\ me.pc = "idle" /\ me.state = "input_delivered"
    BY <1>0 DEF RunRecord, PCs, States
  <2>2. Step(r, me) /\ UNCHANGED capture /\ run[r].pc = "beginning"
    BY <1>1 DEF Deliver, At
  <2> HIDE DEF me
  <2> QED  BY <2>1, <2>2, RunFacts, OtherStepKeeps DEF MayCollect, BucketOf, StagedOf
<1>2. CASE Submit(r)
  <2> DEFINE me == [run[r] EXCEPT !.pc = "output"]
  <2>1. me \in RunRecord /\ me.index = run[r].index /\ me.staged = run[r].staged
        /\ me.pc = "output" /\ me.state = run[r].state
    BY <1>0 DEF RunRecord, PCs, States
  <2>2. Step(r, me) /\ UNCHANGED capture /\ run[r].pc = "idle"
    BY <1>2 DEF Submit, At, Goto
  <2> HIDE DEF me
  <2> QED  BY <2>1, <2>2, RunFacts, OtherStepKeeps DEF MayCollect, BucketOf, StagedOf
<1>3. CASE Cancel(r)
  <2> DEFINE me == [run[r] EXCEPT !.pc = "cancelling", !.state = "cancelled"]
  <2>1. me \in RunRecord /\ me.index = run[r].index /\ me.staged = run[r].staged
        /\ me.pc = "cancelling"
    BY <1>0 DEF RunRecord, PCs, States
  <2>2. Step(r, me) /\ UNCHANGED capture /\ run[r].pc = "idle"
    BY <1>3 DEF Cancel, At
  <2> HIDE DEF me
  <2> QED  BY <2>1, <2>2, RunFacts, OtherStepKeeps DEF MayCollect, BucketOf, StagedOf
<1>4. CASE Interrupt(r)
  <2>1. PICK pc \in {"idle", "abandoned"} :
          /\ Step(r, [run[r] EXCEPT !.pc = pc, !.staged = "no"])
          /\ pc = "idle" => run[r].pc \in {"beginning", "output", "flushing", "staged"}
    BY <1>4 DEF Interrupt
  <2> DEFINE me == [run[r] EXCEPT !.pc = pc, !.staged = "no"]
  <2>2. me \in RunRecord /\ me.index = run[r].index /\ me.staged = "no"
        /\ me.pc = pc /\ me.state = run[r].state
    BY <1>0 DEF RunRecord, PCs, States
  <2>3. Step(r, me) /\ UNCHANGED capture
    BY <1>4, <2>1 DEF Interrupt
  <2> HIDE DEF me
  <2> QED  BY <2>1, <2>2, <2>3, RunFacts, OtherStepKeeps DEF MayCollect, BucketOf, StagedOf
<1> QED  BY <1>1, <1>2, <1>3, <1>4

\* EvidenceCollector.begin_step opens a window where none is active, and never
\* leaves one of another step active.
LEMMA BeginWindowKept ==
  ASSUME IInv, WInv, NEW r \in Run, BeginStep(r)
  PROVE  WInv'
<1> DEFINE me == [run[r] EXCEPT !.pc = "beginning", !.begun = run[r].index + 1]
           w  == MyWindow(r)
           c  == Opened(TraceOf(r), w)
<1>0. run[r] \in RunRecord /\ TraceOf(r) \in Capture /\ run[r].pc = "idle" /\ run[r].state = "ready"
      /\ run[r].index + 1 \in 1..Steps /\ run[r].index + 1 \in 0..Steps /\ Step(r, me)
  BY RunFacts, StepsAssumption DEF BeginStep, More, RunRecord
<1>1. me \in RunRecord /\ me.index = run[r].index /\ me.staged = run[r].staged
      /\ me.pc = "beginning" /\ me.state = "ready"
  BY <1>0 DEF RunRecord, PCs
<1>2. w \in Window /\ w = WindowAt(r, me) /\ w.run = r /\ w.input = me.index + 1
  BY <1>0, <1>1 DEF MyWindow, WindowAt, Window
<1>3. CASE UNCHANGED capture
  <2> HIDE DEF me
  <2> QED  BY <1>0, <1>1, <1>3, RunFacts, OtherStepKeeps DEF MayCollect, BucketOf, StagedOf
<1>4. CASE Trace(r, c)
  <2> HIDE DEF me, w
  <2>1. c \in Capture /\ c.active \in {NoWindow, w}
        /\ \A v \in c.buckets : v.run # r => v \in TraceOf(r).buckets /\ TraceOf(r).active # v
    <3>1. CASE TraceOf(r).active # NoWindow
      <4>1. c = [active |-> NoWindow, buckets |-> TraceOf(r).buckets \ {TraceOf(r).active}]
        BY <3>1 DEF Opened, Discarded
      <4> QED  BY <1>0, <4>1 DEF Capture
    <3>2. CASE TraceOf(r).active = NoWindow
      <4>1. c = [active |-> w, buckets |-> TraceOf(r).buckets \union {w}]
        BY <3>2 DEF Opened
      <4>2. NoWindow \notin Window
        BY NoneAssumption DEF NoWindow, Window
      <4> QED  BY <1>0, <1>2, <3>2, <4>1, <4>2 DEF Capture
    <3> QED  BY <3>1, <3>2
  <2>2. c.active.run = r => MayCollect(me, c.active)
    BY <1>1, <1>2, <2>1, RunFacts DEF MayCollect
  <2>3. BucketOf(r, me, c) /\ StagedOf(me)
    BY <1>0, <1>1, RunFacts DEF BucketOf, StagedOf
  <2> HIDE DEF c
  <2> QED  BY <1>0, <1>1, <1>2, <1>4, <2>1, <2>2, <2>3, CaptureStepKeeps
<1> QED  BY <1>3, <1>4 DEF BeginStep

\* EvidenceCollector.prepare.
LEMMA PrepareWindowKept ==
  ASSUME IInv, WInv, NEW r \in Run, Prepare(r)
  PROVE  WInv'
<1>0. run[r] \in RunRecord /\ run[r].pc = "output" /\ run[r].index \in Nat
  BY RunFacts DEF Prepare
<1>1. CASE run[r].begun # run[r].index + 1
  <2> DEFINE me == [run[r] EXCEPT !.pc = "idle"]
  <2>1. me \in RunRecord /\ me.index = run[r].index /\ me.staged = run[r].staged
        /\ me.pc = "idle" /\ me.state = run[r].state
    BY <1>0 DEF RunRecord, PCs
  <2>2. Step(r, me) /\ UNCHANGED capture
    BY <1>1 DEF Prepare, Goto
  <2> HIDE DEF me
  <2> QED  BY <1>0, <2>1, <2>2, RunFacts, OtherStepKeeps DEF MayCollect, BucketOf, StagedOf
<1>2. CASE run[r].begun = run[r].index + 1 /\ TraceOf(r).active = MyWindow(r)
  <2> DEFINE me == [run[r] EXCEPT !.pc = "flushing"]
  <2>1. me \in RunRecord /\ me.index = run[r].index /\ me.staged = run[r].staged
        /\ me.pc = "flushing" /\ me.state = run[r].state
    BY <1>0 DEF RunRecord, PCs
  <2>2. Step(r, me) /\ UNCHANGED capture
    BY <1>2 DEF Prepare, Goto
  <2>3. run[r].state = "input_delivered" /\ WindowAt(r, me) = MyWindow(r)
    BY <1>0, <1>2, <2>1, RunFacts DEF MayCollect, WindowAt, PhaseOf
  <2> HIDE DEF me
  <2> QED  BY <1>0, <1>2, <2>1, <2>2, <2>3, RunFacts, OtherStepKeeps
           DEF MayCollect, BucketOf, StagedOf
<1>3. CASE run[r].begun = run[r].index + 1 /\ TraceOf(r).active # MyWindow(r)
  <2> DEFINE me == Prepared(run[r], "failed")
  <2>1. me \in RunRecord /\ me.pc = "staged" /\ me.state = run[r].state
    BY <1>0 DEF Prepared, RunRecord, PCs
  <2>2. Step(r, me) /\ Trace(r, CancelStep(TraceOf(r)))
    BY <1>3 DEF Prepare, TraceFails
  <2>3. run[r].state = "input_delivered"
    BY <1>0, <1>3, RunFacts DEF PhaseOf
  <2> HIDE DEF me
  <2> QED  BY <2>1, <2>2, <2>3, ClosingStepKeeps DEF StagedOf
<1> QED  BY <1>1, <1>2, <1>3

\* The flush: the snapshot is of the Run's own window, which it closes.
LEMMA SnapshotWindowKept ==
  ASSUME IInv, WInv, NEW r \in Run, Snapshot(r)
  PROVE  WInv'
<1>0. run[r] \in RunRecord /\ run[r].pc = "flushing" /\ TraceOf(r) \in Capture
      /\ MyWindow(r) = WindowAt(r, run[r])
  BY RunFacts DEF Snapshot, At
<1>1. CASE MyWindow(r) \in TraceOf(r).buckets
  <2> DEFINE me == Prepared(run[r], "window")
             c  == [TraceOf(r) EXCEPT !.active = NoWindow]
  <2>1. run[r].state = "input_delivered" /\ TraceOf(r).active = MyWindow(r)
    BY <1>0, <1>1, RunFacts DEF BucketOf
  <2>2. me \in RunRecord /\ me.pc = "staged" /\ me.state = run[r].state /\ me.index = run[r].index
    BY <1>0 DEF Prepared, RunRecord, PCs
  <2>3. c \in Capture /\ c.active = NoWindow /\ c.buckets = TraceOf(r).buckets
    BY <1>0 DEF Capture
  <2>4. Step(r, me) /\ Trace(r, c)
    BY <1>0, <1>1, <2>1 DEF Snapshot, Capture
  <2> HIDE DEF me, c
  <2>5. BucketOf(r, me, c) /\ StagedOf(me)
    BY <2>1, <2>2 DEF BucketOf, StagedOf
  <2>6. TraceOf(r).active.run = r /\ c.active.run # r
    BY <1>0, <2>1, <2>3, RunFacts
  <2> QED  BY <2>2, <2>3, <2>4, <2>5, <2>6, CaptureStepKeeps
<1>2. CASE MyWindow(r) \notin TraceOf(r).buckets
  <2> DEFINE me == Prepared(run[r], "failed")
  <2>1. me \in RunRecord /\ me.pc = "staged" /\ WindowAt(r, me) = MyWindow(r)
    BY <1>0 DEF Prepared, RunRecord, PCs, WindowAt
  <2>2. Step(r, me) /\ Trace(r, CancelStep(TraceOf(r)))
    BY <1>2 DEF Snapshot, TraceFails
  <2> HIDE DEF me
  <2> QED  BY <1>2, <2>1, <2>2, ClosingStepKeeps DEF StagedOf
<1> QED  BY <1>1, <1>2

\* PreparedTraceEvidence.abort re-opens no window but the one that this step
\* closed, and not while another Run has one open.
LEMMA AbortWindowKept ==
  ASSUME IInv, WInv, NEW r \in Run, Refuse(r) \/ RecordFails(r)
  PROVE  WInv'
<1>0. /\ run[r] \in RunRecord /\ run[r].pc \in {"output", "staged"}
      /\ TraceOf(r) \in Capture /\ Trace(r, Reopened(r))
  BY RunFacts DEF Refuse, RecordFails, At
<1>1. PICK me \in RunRecord :
        /\ Step(r, me) /\ me.pc = "idle" /\ me.staged = "no" /\ me.index = run[r].index
        /\ me.state \in {run[r].state, "input_delivered"}
  <2>1. PICK me \in {[run[r] EXCEPT !.pc = "idle", !.staged = "no"],
                     [run[r] EXCEPT !.pc = "idle", !.state = "input_delivered", !.staged = "no"]} :
          Step(r, me)
    BY DEF Refuse, RecordFails
  <2>2. /\ me \in RunRecord /\ me.pc = "idle" /\ me.staged = "no" /\ me.index = run[r].index
        /\ me.state \in {run[r].state, "input_delivered"}
    BY <1>0, <2>1 DEF RunRecord, PCs, States
  <2> QED  BY <2>1, <2>2
<1>2. BucketOf(r, me, Reopened(r)) /\ StagedOf(me)
  BY <1>1 DEF BucketOf, StagedOf
<1>3. CASE Reopened(r) = TraceOf(r)
  <2>1. UNCHANGED capture
    BY <1>0, <1>3, HomeAssumption DEF Trace, TraceOf, IInv, TypeOK
  <2>2. TraceOf(r).active.run = r => MayCollect(me, TraceOf(r).active)
    BY <1>0, <1>1, RunFacts DEF MayCollect
  <2> QED  BY <1>1, <1>2, <1>3, <2>1, <2>2, OtherStepKeeps
<1>4. CASE Reopened(r) # TraceOf(r)
  <2> DEFINE c == [TraceOf(r) EXCEPT !.active = MyWindow(r)]
  <2>1. /\ Reopened(r) = c /\ run[r].staged = "window"
        /\ MyWindow(r) \in TraceOf(r).buckets /\ TraceOf(r).active = NoWindow
    BY <1>4 DEF Reopened
  <2>2. c \in Capture /\ c.active = MyWindow(r) /\ c.buckets = TraceOf(r).buckets
    BY <1>0, <2>1 DEF Capture
  <2>3. MyWindow(r) = WindowAt(r, me) /\ MyWindow(r).input = me.index + 1 /\ MyWindow(r).run = r
    BY <1>1 DEF MyWindow, WindowAt
  <2>4. me.state = "input_delivered"
    BY <1>0, <1>1, <2>1, RunFacts DEF StagedOf, BucketOf
  <2>5. NoWindow \notin c.buckets
    BY <2>2, NoneAssumption DEF Capture, NoWindow, Window
  <2>6. MayCollect(me, c.active)
    BY <1>1, <2>2, <2>3, <2>4 DEF MayCollect
  <2> HIDE DEF c
  <2>7. Trace(r, c) /\ BucketOf(r, me, c)
    BY <1>0, <1>2, <2>1
  <2> QED  BY <1>1, <1>2, <2>1, <2>2, <2>3, <2>5, <2>6, <2>7, CaptureStepKeeps
<1> QED  BY <1>3, <1>4

\* From the history append on, the Run has no window to collect into.
LEMMA CommitWindowKept ==
  ASSUME IInv, WInv, NEW r \in Run, Record(r) \/ CommitEvidence(r) \/ FinishRuntime(r)
  PROVE  WInv'
<1>0. run[r] \in RunRecord /\ TraceOf(r) \in Capture /\ run[r].index \in Nat
  BY RunFacts
<1>1. TraceOf(r).active.run # r
  BY RunFacts DEF Record, CommitEvidence, FinishRuntime, At, PhaseOf, MayCollect
<1>2. CASE Record(r)
  <2> DEFINE me == [run[r] EXCEPT !.pc = "recording", !.state = "submitting"]
  <2>1. me \in RunRecord /\ me.pc = "recording"
    BY <1>0 DEF RunRecord, PCs, States
  <2>2. Step(r, me) /\ UNCHANGED capture
    BY <1>2 DEF Record
  <2> HIDE DEF me
  <2> QED  BY <1>1, <2>1, <2>2, OtherStepKeeps DEF BucketOf, StagedOf
<1>3. CASE CommitEvidence(r)
  <2> DEFINE me == [run[r] EXCEPT !.pc = "advancing", !.index = @ + 1, !.begun = 0,
                                  !.offsets = run[r].index + 1, !.staged = "no"]
  <2>1. run[r].index + 1 \in 0..Steps /\ 0 \in 0..Steps
    BY <1>0, <1>3, RunFacts, StepsAssumption DEF CommitEvidence, PhaseOf
  <2>2. me \in RunRecord /\ me.pc = "advancing" /\ me.staged = "no"
    BY <1>0, <2>1 DEF RunRecord, PCs
  <2>3. PICK c \in {TraceOf(r), [TraceOf(r) EXCEPT !.buckets = @ \ {MyWindow(r)}]} : Trace(r, c)
    BY <1>3 DEF CommitEvidence
  <2>4. c \in Capture /\ c.active = TraceOf(r).active /\ c.buckets \subseteq TraceOf(r).buckets
    BY <1>0, <2>3 DEF Capture
  <2>5. Step(r, me)
    BY <1>3 DEF CommitEvidence
  <2> HIDE DEF me
  <2> QED  BY <1>1, <2>2, <2>3, <2>4, <2>5, CaptureStepKeeps DEF BucketOf, StagedOf
<1>4. CASE FinishRuntime(r)
  <2>1. PICK me \in RunRecord :
          Step(r, me) /\ me.pc \in {"idle", "judging"} /\ me.staged = run[r].staged
    <3>1. PICK me \in {[run[r] EXCEPT !.pc = "idle", !.state = "failed"],
                       [run[r] EXCEPT !.pc = "judging", !.state = "judging"],
                       [run[r] EXCEPT !.pc = "idle"]} : Step(r, me)
      BY <1>4 DEF FinishRuntime
    <3>2. me \in RunRecord /\ me.pc \in {"idle", "judging"} /\ me.staged = run[r].staged
      BY <1>0, <3>1 DEF RunRecord, PCs, States
    <3> QED  BY <3>1, <3>2
  <2>2. FinishRun(TraceOf(r), r) = TraceOf(r)
    BY <1>1 DEF FinishRun
  <2>3. UNCHANGED capture
    BY <1>4, <2>2, HomeAssumption DEF FinishRuntime, Trace, TraceOf, IInv, TypeOK
  <2>4. me.staged = "no"
    BY <1>4, <2>1, RunFacts DEF FinishRuntime, StagedOf
  <2> QED  BY <1>1, <2>1, <2>3, <2>4, OtherStepKeeps DEF BucketOf, StagedOf
<1> QED  BY <1>2, <1>3, <1>4

\* cancel() of a Run, by its caller or from within one of its methods.
LEMMA CancelWindowKept ==
  ASSUME IInv, WInv, NEW r \in Run, CloseCancelled(r) \/ CancelInside(r)
  PROVE  WInv'
<1>0. run[r] \in RunRecord /\ TraceOf(r) \in Capture /\ 0 \in 0..Steps
  BY RunFacts, StepsAssumption
<1>1. PICK me \in RunRecord :
        /\ Step(r, me) /\ me.index = run[r].index /\ me.staged = run[r].staged
        /\ \/ me.pc = "idle" /\ run[r].pc = "cancelling"
           \/ me.pc = run[r].pc /\ run[r].pc \in {"output", "flushing", "judging"}
  <2> DEFINE closed == [run[r] EXCEPT !.pc = "idle", !.begun = 0]
             inside == [run[r] EXCEPT !.state = "cancelled", !.begun = 0]
  <2>1. /\ closed \in RunRecord /\ closed.index = run[r].index /\ closed.staged = run[r].staged
        /\ closed.pc = "idle"
        /\ inside \in RunRecord /\ inside.index = run[r].index /\ inside.staged = run[r].staged
        /\ inside.pc = run[r].pc
    BY <1>0 DEF RunRecord, PCs, States
  <2>2. \/ Step(r, closed) /\ run[r].pc = "cancelling"
        \/ Step(r, inside) /\ run[r].pc \in {"output", "flushing", "judging"}
    BY DEF CloseCancelled, CancelInside, At
  <2> HIDE DEF closed, inside
  <2> QED  BY <2>1, <2>2
<1>2. Trace(r, CancelStep(TraceOf(r)))
  BY <1>0, CancelCloses DEF CloseCancelled, CancelInside
<1>3. WindowAt(r, me) = WindowAt(r, run[r])
  BY <1>1 DEF WindowAt
<1>4. StagedOf(me)
  BY <1>1, RunFacts DEF StagedOf
<1> QED  BY <1>1, <1>2, <1>3, <1>4, RunFacts, ClosingStepKeeps DEF BucketOf

\* With a process its windows go, and no other process has windows of its Runs.
LEMMA ExitWindowsKept ==
  ASSUME IInv, WInv, NEW p \in Process, Exit(p)
  PROVE  WInv'
<1> DEFINE exited(r) == [run[r] EXCEPT !.pc = "gone", !.state = "exited", !.staged = "no"]
<1>1. /\ \A r \in Run : run'[r] = IF Home[r] = p /\ run[r].pc # "absent" THEN exited(r) ELSE run[r]
      /\ \A q \in Process :
           capture'[q] = IF q = p THEN [active |-> NoWindow, buckets |-> {}] ELSE capture[q]
      /\ \A r \in Run : Home[r] \in Process
  BY HomeAssumption DEF Exit, IInv, TypeOK
<1>2. ASSUME NEW q \in Process PROVE WindowFits(q)'
  <2>1. CASE q = p
    <3>1. capture'[q] = [active |-> NoWindow, buckets |-> {}]
      BY <1>1, <2>1
    <3>2. [active |-> NoWindow, buckets |-> {}].active = NoWindow
      OBVIOUS
    <3> HIDE DEF exited
    <3> QED  BY <3>1, <3>2 DEF WindowFits
  <2>2. CASE q # p
    <3>1. capture[q].active \in Window \union {NoWindow} /\ WindowFits(q)
      BY DEF IInv, TypeOK, Capture, WInv
    <3>2. capture[q].active # NoWindow => capture[q].active.run \in Run
      BY <3>1 DEF Window
    <3> QED  BY <1>1, <2>2, <3>1, <3>2 DEF WindowFits
  <2> QED  BY <2>1, <2>2
<1>3. ASSUME NEW r \in Run PROVE BucketOf(r, run'[r], capture'[Home[r]]) /\ StagedOf(run'[r])
  <2>0. run[r] \in RunRecord /\ BucketOf(r, run[r], capture[Home[r]]) /\ StagedOf(run[r])
    BY DEF IInv, TypeOK, WInv, TraceOf
  <2>1. CASE Home[r] = p
    BY <1>1, <2>0, <2>1 DEF BucketOf, StagedOf, RunRecord
  <2>2. CASE Home[r] # p
    BY <1>1, <2>0, <2>2
  <2> QED  BY <2>1, <2>2
<1> QED  BY <1>2, <1>3 DEF WInv, TraceOf

LEMMA NextWInv ==
  ASSUME IInv, WInv, [Next]_vars
  PROVE  WInv'
<1>1. CASE UNCHANGED vars
  BY <1>1 DEF vars, WInv, WindowFits, TraceOf
<1>2. ASSUME NEW r \in Run,
             CreateRun(r) \/ Proceed(r) \/ Call(r) \/ Judge(r) \/ CancelInside(r) \/ Fails(r)
      PROVE  WInv'
  BY <1>2, IdleWindowsKept, OpenWindowsKept, BeginWindowKept, PrepareWindowKept,
     SnapshotWindowKept, AbortWindowKept, CommitWindowKept, CancelWindowKept
  DEF Proceed, Call, Fails
<1>3. ASSUME NEW p \in Process, Exit(p) PROVE WInv'
  BY <1>3, ExitWindowsKept
<1> QED  BY <1>1, <1>2, <1>3 DEF Next

\* Windows, buckets and prepared Evidence belong to Runs that can use them, for
\* any number of Runs in any number of processes, whatever fails and wherever
\* user code calls cancel().
THEOREM WindowInvariance == Spec => []WInv
<1>1. Init => WInv
  BY InitWInv
<1>2. IInv /\ WInv /\ [Next]_vars => WInv'
  BY NextWInv
<1> QED  BY <1>1, <1>2, Invariance, PTL DEF Spec

\* A process's capture collects spans only for the Input that some Run is at:
\* no refusal, retry, cancel, interrupt or exit leaves a window open behind a
\* Run that has moved on.
THEOREM WindowsServeInputs == Spec => []WindowsInUse
<1>1. WInv => WindowsInUse
  BY DEF WInv, WindowFits, MayCollect, WindowsInUse
<1> QED  BY <1>1, WindowInvariance, PTL

----------------------------------------------------------------------------
(* The refinement: what a caller sees of Runs goes through the public      *)
(* state machine of RunProtocol, whatever fails between two steps.  Each   *)
(* step of one Run changes the mapped variables at that Run only           *)
(* (StepMaps); the steps that are no public operation leave them alone     *)
(* (StutterMaps).  That creation waits for the running Run needs the lease *)
(* invariant.                                                              *)


PublicState == [r \in Run |-> Public(run[r])]

Commits == [r \in Run |-> Committed(run[r], history[r])]

\* The caller sees r in state s with n Submissions, and the other Runs as before.
SeenAs(r, s, n) ==
  /\ PublicState' = [PublicState EXCEPT ![r] = s]
  /\ Commits' = [Commits EXCEPT ![r] = n]

\* Length of the history between two submits.
LEMMA UptoLength ==
  ASSUME NEW n \in Nat
  PROVE  Len(Upto(n)) = n
BY DEF Upto

LEMMA CommitsOf ==
  ASSUME IInv, NEW r \in Run
  PROVE  /\ Len(history[r]) \in Nat
         /\ run[r].index \in Nat
         /\ run[r].pc \notin {"recording", "abandoned", "gone"} => Len(history[r]) = run[r].index
<1>1. run[r] \in RunRecord /\ history[r] \in Seq(1..Steps) /\ HistoryOf(run[r], history[r])
  BY DEF IInv, TypeOK
<1>2. run[r].index \in Nat
  BY <1>1, StepsAssumption DEF RunRecord
<1> QED  BY <1>1, <1>2, UptoLength DEF HistoryOf

LEMMA StepMaps ==
  ASSUME IInv, NEW r \in Run, NEW me \in RunRecord, NEW past \in Seq(1..Steps),
         Step(r, me), history' = [history EXCEPT ![r] = past]
  PROVE  SeenAs(r, Public(me), Committed(me, past))
<1>1. /\ \A x \in Run : run'[x] = IF x = r THEN me ELSE run[x]
      /\ \A x \in Run : history'[x] = IF x = r THEN past ELSE history[x]
  BY DEF IInv, TypeOK, Step
<1>2. PublicState' = [PublicState EXCEPT ![r] = Public(me)]
  BY <1>1 DEF PublicState
<1>3. Commits' = [Commits EXCEPT ![r] = Committed(me, past)]
  <2>1. Commits' = [x \in Run |-> Committed(run'[x], history'[x])]
    BY DEF Commits, Committed
  <2>2. ASSUME NEW x \in Run
        PROVE  Committed(run'[x], history'[x]) = [Commits EXCEPT ![r] = Committed(me, past)][x]
    <3>1. CASE x = r
      BY <1>1, <3>1 DEF Commits
    <3>2. CASE x # r
      BY <1>1, <3>2 DEF Commits
    <3> QED  BY <3>1, <3>2
  <2> QED  BY <2>1, <2>2 DEF Commits
<1> QED  BY <1>2, <1>3 DEF SeenAs

\* A step that leaves the history alone.
LEMMA QuietStepMaps ==
  ASSUME IInv, NEW r \in Run, NEW me \in RunRecord, Step(r, me), UNCHANGED history
  PROVE  SeenAs(r, Public(me), Committed(me, history[r]))
<1>1. PICK past \in Seq(1..Steps) :
        past = history[r] /\ history' = [history EXCEPT ![r] = past]
  BY DEF IInv, TypeOK
<1>2. SeenAs(r, Public(me), Committed(me, past))
  BY <1>1, StepMaps
<1> QED  BY <1>1, <1>2

\* A step within a method: neither the public state nor the Submissions that
\* count change.
LEMMA StutterMaps ==
  ASSUME IInv, NEW r \in Run,
         \E me : Step(r, me) /\ me.state = run[r].state,
         UNCHANGED history
  PROVE  UNCHANGED <<PublicState, Commits>>
<1>1. PICK me : Step(r, me) /\ me.state = run[r].state
  OBVIOUS
<1>2. \A x \in Run : run'[x].state = run[x].state /\ history'[x] = history[x]
  BY <1>1 DEF IInv, TypeOK, Step
<1> QED  BY <1>2 DEF PublicState, Commits, Public, Committed

\* No Run executes.
Alone == \A x \in Run : Public(run[x]) \notin {"ready", "input_delivered"}

\* The public operations, told from what the caller sees before and after.
LEMMA SeenSteps ==
  ASSUME NEW r \in Run, NEW s, NEW n, SeenAs(r, s, n),
         NEW was, was = Public(run[r]),
         NEW count, count = Committed(run[r], history[r])
  PROVE  /\ was = "ready" /\ s = "input_delivered" /\ n = count /\ n < Steps
              => Protocol!GetInput(r)
         /\ was = "input_delivered" /\ n = count + 1 /\ s = "completed" => Protocol!Submit(r)
         /\ was = "input_delivered" /\ n = count + 1 /\ s = "ready" /\ n < Steps
              => Protocol!Submit(r)
         /\ was = "completed" /\ s = "judging" /\ n = count => Protocol!Judge(r)
         /\ was = "judging" /\ s \in {"report_ready", "completed"} /\ n = count
              => Protocol!JudgeEnds(r)
         /\ was \in Cancellable /\ s = "cancelled" /\ n = count => Protocol!Cancel(r)
         /\ was = "completed" /\ s = "failed" /\ n = count => Protocol!RuntimeCloseFailure(r)
         /\ was = "none" /\ s = "ready" /\ n = count /\ Alone => Protocol!CreateRun(r)
<1>1. PublicState[r] = was /\ Commits[r] = count
  BY DEF PublicState, Commits
<1>2. n = count => Commits' = Commits
  <2>1. Commits = [Commits EXCEPT ![r] = count]
    BY <1>1 DEF Commits
  <2> QED  BY <2>1 DEF SeenAs
<1>3. /\ PublicState' = [PublicState EXCEPT ![r] = s]
      /\ Commits' = [Commits EXCEPT ![r] = n]
  BY DEF SeenAs
<1>4. was = "ready" /\ s = "input_delivered" /\ n = count /\ n < Steps => Protocol!GetInput(r)
  BY <1>1, <1>2, <1>3 DEF Protocol!GetInput, Protocol!Become, PublicState, Commits
<1>5. was = "input_delivered" /\ n = count + 1 /\ (s = "completed" \/ (s = "ready" /\ n < Steps))
        => Protocol!Submit(r)
  BY <1>1, <1>3 DEF Protocol!Submit, Protocol!Become, PublicState, Commits
<1>6. was = "completed" /\ s = "judging" /\ n = count => Protocol!Judge(r)
  BY <1>1, <1>2, <1>3 DEF Protocol!Judge, Protocol!Become, PublicState, Commits
<1>7. was = "judging" /\ s \in {"report_ready", "completed"} /\ n = count => Protocol!JudgeEnds(r)
  BY <1>1, <1>2, <1>3 DEF Protocol!JudgeEnds, Protocol!Become, PublicState, Commits
<1>8. was \in Cancellable /\ s = "cancelled" /\ n = count => Protocol!Cancel(r)
  BY <1>1, <1>2, <1>3 DEF Protocol!Cancel, Protocol!Become, PublicState, Commits, Cancellable
<1>9. was = "completed" /\ s = "failed" /\ n = count => Protocol!RuntimeCloseFailure(r)
  BY <1>1, <1>2, <1>3 DEF Protocol!RuntimeCloseFailure, Protocol!Become, PublicState, Commits
<1>10. was = "none" /\ s = "ready" /\ n = count /\ Alone => Protocol!CreateRun(r)
  BY <1>1, <1>2, <1>3
  DEF Protocol!CreateRun, Protocol!Executing, Protocol!Become, PublicState, Commits, Alone
<1> QED  BY <1>4, <1>5, <1>6, <1>7, <1>8, <1>9, <1>10

----------------------------------------------------------------------------
(* Each action.                                                            *)

\* Steps within a method.
LEMMA InnerSteps ==
  ASSUME IInv, Callbacks \subseteq {"output"}, NEW r \in Run,
         \/ CreateRun(r) \/ CreateWorkspace(r) \/ WorkspaceFails(r) \/ GenerationFails(r)
         \/ Rollback(r) \/ BeginStep(r) \/ Submit(r) \/ Prepare(r) \/ Snapshot(r) \/ Refuse(r)
         \/ RecordFails(r) \/ CommitEvidence(r) \/ CloseCancelled(r) \/ Interrupt(r)
  PROVE  UNCHANGED <<PublicState, Commits>>
<1>0. run[r] \in RunRecord /\ PhaseOf(run[r])
  BY DEF IInv, TypeOK
<1>1. UNCHANGED history
  BY DEF CreateRun, CreateWorkspace, WorkspaceFails, GenerationFails, Rollback, BeginStep, Submit,
         Prepare, Snapshot, Refuse, RecordFails, CommitEvidence, CloseCancelled, Interrupt
<1>2. \E me : Step(r, me) /\ me.state = run[r].state
  <2>1. CASE CreateRun(r) \/ CreateWorkspace(r) \/ WorkspaceFails(r) \/ GenerationFails(r)
             \/ Rollback(r) \/ Submit(r)
    <3>1. PICK pc : Goto(r, pc)
      BY <2>1
      DEF CreateRun, CreateWorkspace, WorkspaceFails, GenerationFails, Rollback, Submit
    <3>2. [run[r] EXCEPT !.pc = pc].state = run[r].state
      BY <1>0 DEF RunRecord
    <3> QED  BY <3>1, <3>2 DEF Goto
  <2>2. CASE BeginStep(r)
    <3>1. [run[r] EXCEPT !.pc = "beginning", !.begun = run[r].index + 1].state = run[r].state
      BY <1>0 DEF RunRecord
    <3> QED  BY <2>2, <3>1 DEF BeginStep
  <2>3. CASE Prepare(r) \/ Snapshot(r)
    <3>1. \/ \E pc : Step(r, [run[r] EXCEPT !.pc = pc])
          \/ \E how : Step(r, Prepared(run[r], how))
      BY <2>3 DEF Prepare, Snapshot, TraceFails, Goto
    <3>2. \A pc, how : /\ [run[r] EXCEPT !.pc = pc].state = run[r].state
                       /\ Prepared(run[r], how).state = run[r].state
      BY <1>0 DEF Prepared, RunRecord
    <3> QED  BY <3>1, <3>2
  <2>4. CASE Refuse(r) \/ Interrupt(r)
    <3>1. \E pc : Step(r, [run[r] EXCEPT !.pc = pc, !.staged = "no"])
      BY <2>4 DEF Refuse, Interrupt
    <3>2. \A pc : [run[r] EXCEPT !.pc = pc, !.staged = "no"].state = run[r].state
      BY <1>0 DEF RunRecord
    <3> QED  BY <3>1, <3>2
  <2>5. CASE RecordFails(r)
    <3> DEFINE me == [run[r] EXCEPT !.pc = "idle", !.state = "input_delivered", !.staged = "no"]
    <3>1. run[r].state = "input_delivered" /\ me.state = "input_delivered"
      BY <1>0, <2>5 DEF RecordFails, At, PhaseOf, RunRecord
    <3>2. Step(r, me)
      BY <2>5 DEF RecordFails
    <3> QED  BY <3>1, <3>2
  <2>6. CASE CommitEvidence(r)
    <3> DEFINE me == [run[r] EXCEPT !.pc = "advancing", !.index = @ + 1, !.begun = 0,
                                    !.offsets = run[r].index + 1, !.staged = "no"]
    <3>1. me.state = run[r].state
      BY <1>0 DEF RunRecord
    <3>2. Step(r, me)
      BY <2>6 DEF CommitEvidence
    <3> QED  BY <3>1, <3>2
  <2>7. CASE CloseCancelled(r)
    <3>1. [run[r] EXCEPT !.pc = "idle", !.begun = 0].state = run[r].state
      BY <1>0 DEF RunRecord
    <3> QED  BY <2>7, <3>1 DEF CloseCancelled
  <2> QED  BY <2>1, <2>2, <2>3, <2>4, <2>5, <2>6, <2>7
<1> QED  BY <1>1, <1>2, StutterMaps

\* The history append: the Submission does not count yet.
LEMMA RecordMaps ==
  ASSUME IInv, Callbacks \subseteq {"output"}, NEW r \in Run, Record(r)
  PROVE  UNCHANGED <<PublicState, Commits>>
<1>0. /\ run[r] \in RunRecord /\ PhaseOf(run[r]) /\ history[r] \in Seq(1..Steps)
      /\ run[r].index + 1 \in 1..Steps /\ run[r].state = "input_delivered"
  BY StepsAssumption DEF IInv, TypeOK, Record, At, PhaseOf, RunRecord
<1>1. PICK me, past :
        /\ Step(r, me) /\ history' = [history EXCEPT ![r] = past]
        /\ me.state = "submitting" /\ Len(past) = Len(history[r]) + 1
  <2> DEFINE me == [run[r] EXCEPT !.pc = "recording", !.state = "submitting"]
             past == Append(history[r], run[r].index + 1)
  <2>1. me.state = "submitting" /\ Len(past) = Len(history[r]) + 1
    BY <1>0 DEF RunRecord
  <2>2. Step(r, me) /\ history' = [history EXCEPT ![r] = past]
    BY DEF Record
  <2> QED  BY <2>1, <2>2
<1>2. /\ \A x \in Run : run'[x] = IF x = r THEN me ELSE run[x]
      /\ \A x \in Run : history'[x] = IF x = r THEN past ELSE history[x]
  BY <1>1 DEF IInv, TypeOK, Step
<1>3. ASSUME NEW x \in Run
      PROVE  /\ Public(run'[x]) = Public(run[x])
             /\ Committed(run'[x], history'[x]) = Committed(run[x], history[x])
  <2>1. CASE x = r
    <3>1. run'[x] = me /\ history'[x] = past /\ run[x].state = "input_delivered"
      BY <1>0, <1>2, <2>1
    <3>2. Public(run'[x]) = Public(run[x])
      BY <1>1, <3>1 DEF Public
    <3>3. Len(history[x]) \in Nat /\ Len(past) = Len(history[x]) + 1
      BY <1>1, <2>1, CommitsOf
    <3>4. Committed(run'[x], history'[x]) = Committed(run[x], history[x])
      BY <1>1, <3>1, <3>3 DEF Committed
    <3> QED  BY <3>2, <3>4
  <2>2. CASE x # r
    BY <1>2, <2>2
  <2> QED  BY <2>1, <2>2
<1>4. /\ PublicState' = [x \in Run |-> Public(run'[x])]
      /\ Commits' = [x \in Run |-> Committed(run'[x], history'[x])]
  BY DEF PublicState, Commits, Public, Committed
<1> QED  BY <1>3, <1>4 DEF PublicState, Commits

\* create_run returns: the new Run holds the lease, so no other executes.
LEMMA CreationMaps ==
  ASSUME IInv, Callbacks \subseteq {"output"}, NEW r \in Run, GenerateCase(r)
  PROVE  Protocol!CreateRun(r)
<1>0. run[r] \in RunRecord /\ PhaseOf(run[r]) /\ "flush" \notin Callbacks
  BY DEF IInv, TypeOK
<1> DEFINE me == [run[r] EXCEPT !.pc = "idle", !.state = "ready"]
<1>1. me \in RunRecord /\ me.state = "ready"
  BY <1>0 DEF RunRecord, PCs, States
<1>2. Step(r, me) /\ UNCHANGED history /\ run[r].pc = "generating" /\ run[r].state = "none"
  BY <1>0 DEF GenerateCase, At, PhaseOf
<1> HIDE DEF me
<1>3. SeenAs(r, Public(me), Committed(me, history[r]))
  BY <1>1, <1>2, QuietStepMaps
<1>4. lease = r
  BY <1>0, <1>2 DEF IInv, LeaseOf, Holds
<1>5. Alone
  <2> SUFFICES ASSUME NEW x \in Run, Public(run[x]) \in {"ready", "input_delivered"}
               PROVE  FALSE
    BY DEF Alone
  <2>1. run[x].state \in Executing
    BY DEF Public, Executing
  <2>2. lease = x
    BY <1>0, <2>1 DEF IInv, LeaseOf, Holds
  <2> QED  BY <1>2, <1>4, <2>1, <2>2 DEF Executing
<1>6. /\ Public(run[r]) = "none" /\ Public(me) = "ready"
      /\ Committed(me, history[r]) = Committed(run[r], history[r])
  BY <1>1, <1>2 DEF Public, Committed
<1> QED  BY <1>3, <1>5, <1>6, SeenSteps

\* The public operations after create_run.
LEMMA DeliveryMaps ==
  ASSUME IInv, NEW r \in Run, Deliver(r)
  PROVE  Protocol!GetInput(r)
<1>0. run[r] \in RunRecord /\ PhaseOf(run[r])
  BY DEF IInv, TypeOK
<1> DEFINE me == [run[r] EXCEPT !.pc = "idle", !.state = "input_delivered"]
<1>1. me \in RunRecord /\ me.state = "input_delivered"
  BY <1>0 DEF RunRecord, PCs, States
<1>2. /\ Step(r, me) /\ UNCHANGED history /\ run[r].state = "ready"
      /\ run[r].pc = "beginning" /\ run[r].index < Steps
  BY <1>0 DEF Deliver, At, PhaseOf
<1> HIDE DEF me
<1>3. SeenAs(r, Public(me), Committed(me, history[r]))
  BY <1>1, <1>2, QuietStepMaps
<1>4. /\ Public(run[r]) = "ready" /\ Public(me) = "input_delivered"
      /\ Committed(me, history[r]) = Committed(run[r], history[r])
      /\ Committed(run[r], history[r]) = run[r].index
  BY <1>1, <1>2, CommitsOf DEF Public, Committed
<1> QED  BY <1>2, <1>3, <1>4, SeenSteps

LEMMA AdvanceMaps ==
  ASSUME IInv, NEW r \in Run, Advance(r)
  PROVE  Protocol!Submit(r)
<1>0. run[r] \in RunRecord /\ PhaseOf(run[r])
  BY DEF IInv, TypeOK
<1>1. PICK me :
        /\ me \in RunRecord /\ Step(r, me)
        /\ me.state = "completed" \/ (me.state = "ready" /\ run[r].index < Steps)
  <2>1. PICK failed \in BOOLEAN : Step(r, Advanced(run[r], failed))
    BY DEF Advance
  <2>2. Advanced(run[r], failed) \in RunRecord
    BY <1>0 DEF Advanced, RunRecord, PCs, States
  <2>3. \/ Advanced(run[r], failed).state = "completed"
        \/ Advanced(run[r], failed).state = "ready" /\ run[r].index < Steps
    BY <1>0 DEF Advanced, More, RunRecord
  <2> QED  BY <2>1, <2>2, <2>3
<1>2. run[r].pc = "advancing" /\ run[r].state = "submitting" /\ UNCHANGED history
  BY <1>0 DEF Advance, At, PhaseOf
<1>3. SeenAs(r, Public(me), Committed(me, history[r]))
  BY <1>1, <1>2, QuietStepMaps
<1>4. Public(run[r]) = "input_delivered" /\ Public(me) = me.state
  BY <1>1, <1>2 DEF Public
<1>5. Len(history[r]) = run[r].index /\ run[r].index \in Nat
  BY <1>2, CommitsOf
<1>6. Committed(me, history[r]) = run[r].index
  BY <1>1, <1>5 DEF Committed
<1>7. Committed(run[r], history[r]) = run[r].index - 1
  BY <1>2, <1>5 DEF Committed
<1> QED  BY <1>1, <1>3, <1>4, <1>5, <1>6, <1>7, SeenSteps

\* The end of the execution, the Judge and cancel().
LEMMA EndingMaps ==
  ASSUME IInv, Callbacks \subseteq {"output"}, NEW r \in Run,
         \/ FinishRuntime(r) \/ InterruptFinish(r) \/ Judge(r) \/ JudgeEnds(r)
         \/ Cancel(r) \/ CancelInside(r)
  PROVE  \/ UNCHANGED <<PublicState, Commits>>
         \/ Protocol!Judge(r)
         \/ Protocol!JudgeEnds(r)
         \/ Protocol!Cancel(r)
         \/ Protocol!RuntimeCloseFailure(r)
<1>0. run[r] \in RunRecord /\ PhaseOf(run[r]) /\ 0 \in 0..Steps
  BY StepsAssumption DEF IInv, TypeOK
<1>1. PICK me \in RunRecord :
        /\ Step(r, me)
        /\ \/ me.state = run[r].state
           \/ run[r].state = "completed" /\ me.state \in {"failed", "judging"}
           \/ run[r].state = "judging" /\ me.state \in {"report_ready", "completed"}
           \/ run[r].state \in Cancellable /\ me.state = "cancelled"
  <2>1. CASE FinishRuntime(r)
    <3>1. run[r].pc = "finishing" /\ run[r].state = "completed"
      BY <1>0, <2>1 DEF FinishRuntime, PhaseOf
    <3>2. PICK me \in {[run[r] EXCEPT !.pc = "idle", !.state = "failed"],
                       [run[r] EXCEPT !.pc = "judging", !.state = "judging"],
                       [run[r] EXCEPT !.pc = "idle"]} : Step(r, me)
      BY <2>1 DEF FinishRuntime
    <3>3. me \in RunRecord /\ me.state \in {"failed", "judging", run[r].state}
      BY <1>0, <3>2 DEF RunRecord, PCs, States
    <3> QED  BY <3>1, <3>2, <3>3
  <2>2. CASE InterruptFinish(r)
    <3> DEFINE me == [run[r] EXCEPT !.pc = "abandoned", !.state = "failed"]
    <3>1. run[r].state = "completed" /\ me \in RunRecord /\ me.state = "failed"
      BY <1>0, <2>2 DEF InterruptFinish, At, PhaseOf, RunRecord, PCs, States
    <3> QED  BY <2>2, <3>1 DEF InterruptFinish
  <2>3. CASE Judge(r)
    <3> DEFINE me == [run[r] EXCEPT !.pc = "judging", !.state = "judging"]
    <3>1. me \in RunRecord /\ me.state = "judging"
      BY <1>0 DEF RunRecord, PCs, States
    <3> QED  BY <2>3, <3>1 DEF Judge
  <2>4. CASE JudgeEnds(r)
    <3>1. run[r].state = "judging"
      BY <1>0, <2>4 DEF JudgeEnds, At, PhaseOf
    <3>2. PICK s \in {"report_ready", "completed"} :
            Step(r, [run[r] EXCEPT !.pc = "idle", !.state = s])
      BY <2>4 DEF JudgeEnds
    <3>3. /\ [run[r] EXCEPT !.pc = "idle", !.state = s] \in RunRecord
          /\ [run[r] EXCEPT !.pc = "idle", !.state = s].state = s
      BY <1>0 DEF RunRecord, PCs, States
    <3> QED  BY <3>1, <3>2, <3>3
  <2>5. CASE Cancel(r)
    <3> DEFINE me == [run[r] EXCEPT !.pc = "cancelling", !.state = "cancelled"]
    <3>1. me \in RunRecord /\ me.state = "cancelled"
      BY <1>0 DEF RunRecord, PCs, States
    <3> QED  BY <2>5, <3>1 DEF Cancel
  <2>6. CASE CancelInside(r)
    <3> DEFINE me == [run[r] EXCEPT !.state = "cancelled", !.begun = 0]
    <3>1. me \in RunRecord /\ me.state = "cancelled"
      BY <1>0 DEF RunRecord, States
    <3> QED  BY <2>6, <3>1 DEF CancelInside
  <2> QED  BY <2>1, <2>2, <2>3, <2>4, <2>5, <2>6
<1>2. UNCHANGED history /\ run[r].state # "submitting"
  BY <1>0
  DEF FinishRuntime, InterruptFinish, Judge, JudgeEnds, Cancel, CancelInside, At, PhaseOf, Cancellable
<1>3. CASE me.state = run[r].state
  BY <1>1, <1>2, <1>3, StutterMaps
<1>4. CASE me.state # run[r].state
  <2>1. SeenAs(r, Public(me), Committed(me, history[r]))
    BY <1>1, <1>2, QuietStepMaps
  <2>2. me.state # "submitting"
    BY <1>1, <1>4
  <2>3. /\ Public(run[r]) = run[r].state /\ Public(me) = me.state
        /\ Committed(me, history[r]) = Committed(run[r], history[r])
    BY <1>2, <2>2 DEF Public, Committed
  <2> QED  BY <1>1, <1>4, <2>1, <2>3, SeenSteps
<1> QED  BY <1>3, <1>4

LEMMA ExitMaps ==
  ASSUME IInv, NEW p \in Process, Exit(p)
  PROVE  Protocol!Exit
<1> DEFINE gone == {r \in Run : Home[r] = p /\ run[r].pc # "absent"}
<1>1. ASSUME NEW r \in Run
      PROVE  /\ Public(run'[r]) = IF r \in gone THEN "exited" ELSE Public(run[r])
             /\ Committed(run'[r], history'[r]) =
                  IF r \in gone THEN 0 ELSE Committed(run[r], history[r])
  <2>0. run[r] \in RunRecord /\ PhaseOf(run[r]) /\ HistoryOf(run[r], history[r])
    BY DEF IInv, TypeOK
  <2>1. CASE r \in gone
    <3>1. run'[r].state = "exited" /\ history'[r] = << >>
      BY <2>0, <2>1 DEF Exit, RunRecord
    <3> QED  BY <2>1, <3>1 DEF Public, Committed
  <2>2. CASE r \notin gone
    <3>1. run'[r] = run[r]
      BY <2>2 DEF Exit
    <3>2. history'[r] = history[r]
      <4>1. CASE Home[r] = p
        <5>1. Upto(0) = << >>
          BY DEF Upto
        <5>2. run[r].pc = "absent" /\ run[r].index = 0
          BY <2>0, <2>2, <4>1 DEF PhaseOf
        <5> QED  BY <2>0, <4>1, <5>1, <5>2 DEF Exit, HistoryOf
      <4>2. CASE Home[r] # p
        BY <4>2 DEF Exit
      <4> QED  BY <4>1, <4>2
    <3> QED  BY <2>2, <3>1, <3>2
  <2> QED  BY <2>1, <2>2
<1>2. gone \in SUBSET Run
  OBVIOUS
<1>3. /\ PublicState' = [r \in Run |-> IF r \in gone THEN "exited" ELSE PublicState[r]]
      /\ Commits' = [r \in Run |-> IF r \in gone THEN 0 ELSE Commits[r]]
  <2> HIDE DEF gone
  <2>1. /\ PublicState' = [x \in Run |-> Public(run'[x])]
        /\ Commits' = [x \in Run |-> Committed(run'[x], history'[x])]
    BY DEF PublicState, Commits, Public, Committed
  <2> QED  BY <1>1, <2>1 DEF PublicState, Commits
<1>4. PICK lost \in SUBSET Run :
        /\ PublicState' = [r \in Run |-> IF r \in lost THEN "exited" ELSE PublicState[r]]
        /\ Commits' = [r \in Run |-> IF r \in lost THEN 0 ELSE Commits[r]]
  <2> HIDE DEF gone
  <2> QED  BY <1>2, <1>3
<1> QED  BY <1>4 DEF Protocol!Exit, PublicState, Commits

LEMMA InitMaps == Init => Protocol!Init
BY DEF Init, NewRun, Protocol!Init, Public, Committed

LEMMA NextMaps ==
  ASSUME IInv, Callbacks \subseteq {"output"}, [Next]_vars
  PROVE  [Protocol!Next]_(Protocol!vars)
<1>1. CASE UNCHANGED vars
  BY <1>1 DEF vars, Protocol!vars, Public, Committed
<1>2. ASSUME NEW r \in Run,
             CreateRun(r) \/ Proceed(r) \/ Call(r) \/ Judge(r) \/ CancelInside(r) \/ Fails(r)
      PROVE  \/ UNCHANGED <<PublicState, Commits>>
             \/ Protocol!CreateRun(r) \/ Protocol!GetInput(r) \/ Protocol!Submit(r)
             \/ Protocol!Judge(r) \/ Protocol!JudgeEnds(r) \/ Protocol!Cancel(r)
             \/ Protocol!RuntimeCloseFailure(r)
  BY <1>2, InnerSteps, RecordMaps, CreationMaps, DeliveryMaps, AdvanceMaps, EndingMaps
  DEF Proceed, Call, Fails
<1>3. ASSUME NEW p \in Process, Exit(p) PROVE Protocol!Exit
  BY <1>3, ExitMaps
<1>4. UNCHANGED <<PublicState, Commits>> => UNCHANGED Protocol!vars
  BY DEF Protocol!vars, PublicState, Commits
<1> QED  BY <1>1, <1>2, <1>3, <1>4 DEF Next, Protocol!Next

----------------------------------------------------------------------------

\* Run, lease, history and Evidence together implement the public state
\* machine: an Input is delivered and submitted at most once and in order, a
\* Run is created only while no other executes, and an ended Run stays ended
\* -- as long as user code cancels a Run from output callbacks only, not from
\* a span exporter in a flush or a Judge.
THEOREM RunImplementsProtocol ==
  ASSUME Callbacks \subseteq {"output"}
  PROVE  Spec => ImplementsProtocol
<1>1. Init => Protocol!Init
  BY InitMaps
<1>2. IInv /\ [Next]_vars => [Protocol!Next]_(Protocol!vars)
  BY NextMaps
<1> QED  BY <1>1, <1>2, Invariance, PTL DEF Spec, ImplementsProtocol, Protocol!Spec

=============================================================================

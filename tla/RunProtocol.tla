---------------------------- MODULE RunProtocol ----------------------------
(***************************************************************************)
(* What a Run promises its caller: the public states of run.py and the     *)
(* changes between them (drawn in docs/architecture.md, "Run state         *)
(* machine"), one Submission per delivered Input, and at most one Run of   *)
(* the container executing at a time.  RunLifecycle implements it.         *)
(***************************************************************************)
EXTENDS Naturals

CONSTANTS
  Run,   \* Runs, of any process of the container
  Steps  \* Inputs of a Case

VARIABLES
  state,     \* Run.state, "none" before create_run returns
  committed  \* Submissions in Run.history

vars == <<state, committed>>

States ==
  {"none", "ready", "input_delivered", "completed", "judging",
   "report_ready", "cancelled", "failed", "exited"}

\* Runs that need the lease: they may still change the repository.
Executing == {r \in Run : state[r] \in {"ready", "input_delivered"}}

TypeOK ==
  /\ state \in [Run -> States]
  /\ committed \in [Run -> 0..Steps]

Init ==
  /\ state = [r \in Run |-> "none"]
  /\ committed = [r \in Run |-> 0]

Become(r, s) == state' = [state EXCEPT ![r] = s]

CreateRun(r) ==
  /\ state[r] = "none"
  /\ Executing = {}
  /\ Become(r, "ready")
  /\ UNCHANGED committed

GetInput(r) ==
  /\ state[r] = "ready"
  /\ committed[r] < Steps
  /\ Become(r, "input_delivered")
  /\ UNCHANGED committed

\* One Submission per delivered Input; the last one, or a failed one under
\* on_failure=stop, completes the Run.
Submit(r) ==
  /\ state[r] = "input_delivered"
  /\ committed' = [committed EXCEPT ![r] = @ + 1]
  /\ \/ committed[r] + 1 < Steps /\ Become(r, "ready")
     \/ Become(r, "completed")

Judge(r) ==
  /\ state[r] = "completed"
  /\ Become(r, "judging")
  /\ UNCHANGED committed

\* A valid TestReport, or a Judge error that may be retried.
JudgeEnds(r) ==
  /\ state[r] = "judging"
  /\ Become(r, "report_ready") \/ Become(r, "completed")
  /\ UNCHANGED committed

Cancel(r) ==
  /\ state[r] \in {"ready", "input_delivered", "completed", "judging"}
  /\ Become(r, "cancelled")
  /\ UNCHANGED committed

RuntimeCloseFailure(r) ==
  /\ state[r] = "completed"
  /\ Become(r, "failed")
  /\ UNCHANGED committed

\* A process exits, and its Runs and their history with it.
Exit ==
  \E gone \in SUBSET Run :
    /\ state' = [r \in Run |-> IF r \in gone THEN "exited" ELSE state[r]]
    /\ committed' = [r \in Run |-> IF r \in gone THEN 0 ELSE committed[r]]

Next ==
  \/ \E r \in Run :
       \/ CreateRun(r)
       \/ GetInput(r)
       \/ Submit(r)
       \/ Judge(r)
       \/ JudgeEnds(r)
       \/ Cancel(r)
       \/ RuntimeCloseFailure(r)
  \/ Exit

Spec == Init /\ [][Next]_vars

=============================================================================

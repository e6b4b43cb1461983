------------------------ MODULE RequestLedgerProofs ------------------------
(***************************************************************************)
(* Proofs about RequestLedger, for any number of processes, requests,      *)
(* records, keys and operations, with or without overlapping calls, lost   *)
(* responses, crashes and expiry.                                          *)
(*                                                                         *)
(* The argument has three parts.  First (IInv): a record never changes its *)
(* key once it is on disk; a call that may POST, bind or poll holds the    *)
(* key of its record; the service has one operation per key.  Hence an     *)
(* operation that answers a POST is the one of the record's own key.       *)
(* Second (LInv): a record, once bound, keeps its operation; what it says  *)
(* of the operation is what the service answered; and a call whose         *)
(* snapshot is fresh knows how far its record has got.  Third (KInv): when *)
(* no resume overlaps another call, the recovery lookup asks for the very  *)
(* record it attaches to, so that it too finds the operation of that       *)
(* record's key.  Hence nothing ended is reopened, nothing is bought twice *)
(* and a success has its report -- in the interleavings each theorem names.*)
(***************************************************************************)
EXTENDS RequestLedger, TLAPS

----------------------------------------------------------------------------
(* The inductive invariant.                                                *)

\* A record on disk has its request and its key; without a file, nothing.
RecordsIdentified ==
  \A c \in RecordId :
    IF ledger[c].status = "absent" THEN ledger[c] = NoRecord
    ELSE ledger[c].req \in Request /\ ledger[c].key \in Key

\* An accepted operation was started under a record that still has its key.
OperationsRecorded ==
  \A o \in Op :
    IF backend[o].status = "absent" THEN backend[o] = NoOperation
    ELSE /\ backend[o].key \in Key
         /\ backend[o].by \in OnDisk
         /\ ledger[backend[o].by].key = backend[o].key

\* The service answers a key with one operation.
OneOperationPerKey ==
  \A o1, o2 \in Op :
    backend[o1].key # None /\ backend[o1].key = backend[o2].key => o1 = o2

\* A record is only bound to an operation that the service has accepted.
BoundToAccepted ==
  \A c \in RecordId : ledger[c].op # None => backend[ledger[c].op].status # "absent"

\* What a process inside a call relies on.
CallSound(me) ==
  /\ me.pc # "idle" => me.req \in Request
  /\ me.pc \in {"post", "bind", "poll", "apply", "mark"} =>
       me.pin \in OnDisk /\ me.key = ledger[me.pin].key
  /\ me.pc \in {"attach", "bind", "poll", "apply", "mark"} => me.op \in Op
  /\ me.pc \in {"load", "lookup"} => me.asks \in RecordId
  /\ me.pc \in {"load", "lookup", "attach"} => me.pin \in OnDisk
  /\ me.pc = "attach" => backend[me.op].status # "absent"
  /\ me.pc = "bind" => backend[me.op].key = me.key

CallsSound == \A p \in Proc : CallSound(proc[p])

IInv ==
  /\ TypeOK
  /\ RecordsIdentified
  /\ OperationsRecorded
  /\ OneOperationPerKey
  /\ BoundToAccepted
  /\ CallsSound

----------------------------------------------------------------------------
(* Steps that only move a process, and steps that write one record.        *)

\* The variables the argument does not depend on keep their types.
RestTyped ==
  /\ reports \in [Runs -> Op \union {None}]
  /\ cache \in [Caller -> [Runs -> Key \union {None}]]
  /\ faults \in 0..MaxFaults

LEMMA IdleSound == Idle \in Process /\ CallSound(Idle)
  BY DEF Idle, Process, CallSound, Steps, OpStatus

LEMMA GotoKeeps ==
  ASSUME IInv, NEW p \in Proc, NEW me \in Process, CallSound(me),
         Goto(p, me), UNCHANGED <<ledger, backend>>, RestTyped'
  PROVE  IInv'
<1>1. TypeOK'
  BY DEF IInv, TypeOK, Goto, RestTyped
<1>2. CallsSound'
  BY DEF IInv, TypeOK, CallsSound, CallSound, Goto, OnDisk
<1>3. RecordsIdentified' /\ OperationsRecorded' /\ OneOperationPerKey' /\ BoundToAccepted'
  BY DEF IInv, RecordsIdentified, OperationsRecorded, OneOperationPerKey, BoundToAccepted,
         OnDisk
<1> QED  BY <1>1, <1>2, <1>3 DEF IInv

LEMMA WriteKeeps ==
  ASSUME IInv, NEW p \in Proc, NEW c \in RecordId, NEW r \in Record, NEW me \in Process,
         r.status # "absent", r.req \in Request, r.key \in Key,
         c \in OnDisk => r.key = ledger[c].key,
         r.op # None => backend[r.op].status # "absent",
         CallSound(me)', Write(p, c, r, me), UNCHANGED backend, RestTyped'
  PROVE  IInv'
<1>1. TypeOK'
  BY DEF IInv, TypeOK, Write, RestTyped, Process
<1>2. /\ \A d \in RecordId : ledger'[d] = IF d = c THEN r ELSE ledger[d]
      /\ OnDisk \subseteq OnDisk'
      /\ \A d \in OnDisk : ledger'[d].key = ledger[d].key
  BY DEF IInv, TypeOK, Write, OnDisk
<1>3. RecordsIdentified'
  BY <1>2 DEF IInv, RecordsIdentified
<1>4. OperationsRecorded'
  BY <1>2 DEF IInv, OperationsRecorded
<1>5. OneOperationPerKey'
  BY DEF IInv, OneOperationPerKey
<1>6. BoundToAccepted'
  BY <1>2 DEF IInv, BoundToAccepted
<1>7. CallsSound'
  <2> SUFFICES ASSUME NEW x \in Proc, x # p PROVE CallSound(proc[x])'
    BY DEF CallsSound, Write
  <2>1. proc'[x] = [proc[x] EXCEPT !.fresh = @ /\ proc[x].pin # c]
    BY DEF Write
  <2>2. /\ proc'[x].pc = proc[x].pc
        /\ proc'[x].req = proc[x].req
        /\ proc'[x].asks = proc[x].asks
        /\ proc'[x].pin = proc[x].pin
        /\ proc'[x].key = proc[x].key
        /\ proc'[x].op = proc[x].op
    BY <2>1 DEF IInv, TypeOK, Process
  <2> QED  BY <1>2, <2>2 DEF IInv, CallsSound, CallSound
<1> QED  BY <1>1, <1>3, <1>4, <1>5, <1>6, <1>7 DEF IInv

----------------------------------------------------------------------------
(* Each action.                                                            *)

LEMMA InitIInv == Init => IInv
<1> SUFFICES ASSUME Init PROVE IInv  OBVIOUS
<1>1. TypeOK
  BY BoundAssumption
  DEF Init, TypeOK, Record, NoRecord, RecordStatus, Operation, NoOperation, OpStatus,
      Process, Idle, Steps
<1>2. RecordsIdentified /\ BoundToAccepted
  BY DEF Init, RecordsIdentified, BoundToAccepted, NoRecord
<1>3. OperationsRecorded /\ OneOperationPerKey
  BY DEF Init, OperationsRecorded, OneOperationPerKey, NoOperation
<1>4. CallsSound
  BY IdleSound DEF Init, CallsSound
<1> QED  BY <1>1, <1>2, <1>3, <1>4 DEF IInv

LEMMA CallsStart ==
  ASSUME IInv, NEW p \in Caller, NEW q \in Request,
         \/ CallCase(p, q)
         \/ CallJudgeFirst(p, q)
         \/ CallJudgeResume(p, q)
         \/ CallJudgeAgain(p, q)
  PROVE  IInv'
<1> p \in Proc
  BY DEF Proc
<1>0. ASSUME NEW q2 \in Request, NEW c \in RecordId \union {None},
             NEW k \in Key \union {None}, NEW m \in {"post", "get"}
      PROVE  /\ Starting(q2, c, k, m, "open") \in Process
             /\ CallSound(Starting(q2, c, k, m, "open"))
  BY DEF Starting, Idle, Process, Steps, OpStatus, CallSound
<1>1. CASE CallCase(p, q)
  BY <1>0, <1>1, GotoKeeps DEF CallCase, IInv, TypeOK, RestTyped
<1>2. CASE CallJudgeFirst(p, q)
  <2>1. PICK k \in CandidateKeys(p, q.subject) :
          /\ cache' = [cache EXCEPT ![p][q.subject] = k]
          /\ Goto(p, Starting(q, None, k, "post", "open"))
    BY <1>2 DEF CallJudgeFirst
  <2>2. q.subject \in Runs
    BY <1>2 DEF CallJudgeFirst, Runs
  <2>3. k \in Key
    BY <2>2 DEF CandidateKeys, FreshKeys, IInv, TypeOK
  <2>4. RestTyped'
    BY <1>2, <2>1, <2>3 DEF CallJudgeFirst, RestTyped, IInv, TypeOK
  <2> QED  BY <1>0, <1>2, <2>1, <2>3, <2>4, GotoKeeps DEF CallJudgeFirst
<1>3. CASE CallJudgeResume(p, q)
  <2>1. PICK c \in RecordId :
          /\ c \in OnDisk
          /\ Goto(p, Starting(ledger[c].req, c, ledger[c].key, "get", "open"))
    BY <1>3 DEF CallJudgeResume, JudgmentsOf
  <2>2. ledger[c].req \in Request /\ ledger[c].key \in Key
    BY <2>1 DEF IInv, RecordsIdentified, OnDisk
  <2> QED  BY <1>0, <1>3, <2>1, <2>2, GotoKeeps DEF CallJudgeResume, IInv, TypeOK, RestTyped
<1>4. CASE CallJudgeAgain(p, q)
  <2>1. PICK c \in RecordId :
          /\ c \in OnDisk
          /\ Goto(p, Starting(q, c, ledger[c].key, "post", "open"))
    BY <1>4 DEF CallJudgeAgain, JudgmentsOf
  <2>2. ledger[c].key \in Key
    BY <2>1 DEF IInv, RecordsIdentified, OnDisk
  <2> QED  BY <1>0, <1>4, <2>1, <2>2, GotoKeeps DEF CallJudgeAgain, IInv, TypeOK, RestTyped
<1> QED  BY <1>1, <1>2, <1>3, <1>4

LEMMA ResumeStarts ==
  ASSUME IInv, NEW p \in Resumer, NEW c \in RecordId, Resume(p, c)
  PROVE  IInv'
<1> p \in Proc
  BY DEF Proc
<1> DEFINE me == [Starting(ledger[c].req, c, ledger[c].key, "get", "load") EXCEPT !.asks = c]
<1>1. ledger[c].req \in Request /\ ledger[c].key \in Key /\ c \in OnDisk
  BY DEF Resume, IInv, RecordsIdentified, OnDisk
<1>2. me \in Process /\ CallSound(me)
  BY <1>1 DEF Starting, Idle, Process, Steps, OpStatus, CallSound
<1>3. Goto(p, me)
  BY DEF Resume
<1> HIDE DEF me
<1> QED  BY <1>2, <1>3, GotoKeeps DEF Resume, IInv, TypeOK, RestTyped

LEMMA LoadStoreKeeps ==
  ASSUME IInv, NEW p \in Proc, LoadStore(p)
  PROVE  IInv'
<1>1. proc[p] \in Process /\ CallSound(proc[p]) /\ proc[p].pc = "load" /\ RestTyped'
  BY DEF LoadStore, IInv, TypeOK, CallsSound, RestTyped
<1>2. CASE Goto(p, Idle)
  BY <1>1, <1>2, IdleSound, GotoKeeps DEF LoadStore
<1>3. ASSUME NEW s \in Selected(proc[p].req), NEW me,
             \/ me = [proc[p] EXCEPT !.pc = "lookup", !.pin = s]
             \/ me = [proc[p] EXCEPT !.pc = "open", !.pin = s, !.asks = None],
             Goto(p, me)
      PROVE  IInv'
  <2>1. s \in OnDisk /\ s \in RecordId
    BY DEF Selected, Matching, OnDisk
  <2>2. me \in Process /\ CallSound(me)
    BY <1>1, <1>3, <2>1 DEF Process, Steps, CallSound
  <2> QED  BY <1>1, <1>3, <2>2, GotoKeeps DEF LoadStore
<1> QED  BY <1>2, <1>3 DEF LoadStore

LEMMA LookupKeeps ==
  ASSUME IInv, NEW p \in Proc, Lookup(p)
  PROVE  IInv'
<1>1. proc[p] \in Process /\ CallSound(proc[p]) /\ proc[p].pc = "lookup"
  BY DEF Lookup, IInv, TypeOK, CallsSound
<1>2. CASE Goto(p, Idle)
  BY <1>2, IdleSound, GotoKeeps DEF Lookup, IInv, TypeOK, RestTyped
<1>3. ASSUME NEW o \in Op, backend[o].by = proc[p].asks,
             Goto(p, [proc[p] EXCEPT !.pc = "attach", !.op = o, !.asks = None])
      PROVE  IInv'
  <2> DEFINE me == [proc[p] EXCEPT !.pc = "attach", !.op = o, !.asks = None]
  <2>1. backend[o].status # "absent"
    BY <1>1, <1>3, NoneAssumption DEF CallSound, IInv, OperationsRecorded, NoOperation
  <2>2. me \in Process /\ CallSound(me)
    BY <1>1, <2>1 DEF Process, Steps, CallSound
  <2> HIDE DEF me
  <2>3. Goto(p, me)
    BY <1>3 DEF me
  <2> QED  BY <2>2, <2>3, GotoKeeps DEF Lookup, IInv, TypeOK, RestTyped
<1> QED  BY <1>2, <1>3 DEF Lookup

\* A step that rewrites the record its call is about, keeping its request and
\* key, and binding it at most to an accepted operation.
LEMMA RewriteKeeps ==
  ASSUME IInv, NEW p \in Proc, NEW c \in OnDisk, NEW r \in Record, NEW me \in Process,
         r.status # "absent", r.req = ledger[c].req, r.key = ledger[c].key,
         r.op \in {None, ledger[c].op} \/ (r.op \in Op /\ backend[r.op].status # "absent"),
         CallSound(me), Write(p, c, r, me), UNCHANGED backend, RestTyped'
  PROVE  IInv'
<1>1. c \in RecordId /\ r.req \in Request /\ r.key \in Key
  BY DEF IInv, RecordsIdentified, OnDisk
<1>2. r.op # None => backend[r.op].status # "absent"
  BY <1>1 DEF IInv, BoundToAccepted
<1>3. CallSound(me)'
  <2>1. OnDisk \subseteq OnDisk' /\ \A d \in OnDisk : ledger'[d].key = ledger[d].key
    BY <1>1 DEF Write, IInv, TypeOK, OnDisk
  <2> QED  BY <2>1 DEF CallSound
<1> QED  BY <1>1, <1>2, <1>3, WriteKeeps

LEMMA TransitionKeeps ==
  ASSUME IInv, NEW p \in Proc, proc[p].pin \in OnDisk, NEW r \in Record, NEW me \in Process,
         r.status # "absent", r.req = ledger[proc[p].pin].req, r.key = ledger[proc[p].pin].key,
         \/ r.op \in {None, ledger[proc[p].pin].op}
         \/ r.op \in Op /\ backend[r.op].status # "absent",
         CallSound(me), Transition(p, r, me), UNCHANGED backend, RestTyped'
  PROVE  IInv'
<1>1. CASE Write(p, proc[p].pin, r, me)
  BY <1>1, RewriteKeeps
<1>2. CASE Goto(p, Idle) /\ UNCHANGED ledger
  BY <1>2, IdleSound, GotoKeeps
<1> QED  BY <1>1, <1>2 DEF Transition

LEMMA AttachKeeps ==
  ASSUME IInv, NEW p \in Proc, Attach(p)
  PROVE  IInv'
<1>1. proc[p] \in Process /\ CallSound(proc[p]) /\ proc[p].pc = "attach" /\ RestTyped'
  BY DEF Attach, IInv, TypeOK, CallsSound, RestTyped
<1>2. /\ proc[p].op \in Op /\ backend[proc[p].op].status # "absent"
      /\ proc[p].pin \in OnDisk /\ proc[p].pin \in RecordId
  BY <1>1 DEF CallSound, OnDisk
<1> DEFINE r  == [ledger[proc[p].pin] EXCEPT !.op = proc[p].op, !.status = "active"]
           me == [proc[p] EXCEPT !.pc = "open"]
<1>3. CASE Write(p, proc[p].pin, r, me)
  <2>1. ledger[proc[p].pin] \in Record
    BY <1>2 DEF IInv, TypeOK
  <2>2. /\ r \in Record
        /\ r.status # "absent"
        /\ r.req = ledger[proc[p].pin].req
        /\ r.key = ledger[proc[p].pin].key
        /\ r.op = proc[p].op
    BY <1>2, <2>1 DEF Record, RecordStatus
  <2>3. me \in Process /\ CallSound(me)
    BY <1>1 DEF Process, Steps, CallSound
  <2> HIDE DEF r, me
  <2> QED  BY <1>1, <1>2, <1>3, <2>2, <2>3, RewriteKeeps DEF Attach
<1>4. CASE Goto(p, Idle) /\ UNCHANGED ledger
  BY <1>1, <1>4, IdleSound, GotoKeeps DEF Attach
<1> QED  BY <1>3, <1>4 DEF Attach

\* A call that goes on from a record is idle, or about that record.
LEMMA ContinueTyped ==
  ASSUME NEW me \in Process, me.req \in Request, NEW c \in RecordId, NEW k \in Key,
         NEW o \in Op \union {None}
  PROVE  /\ Continue(me, c, k, o) \in Process
         /\ \/ Continue(me, c, k, o) = Idle
            \/ /\ Continue(me, c, k, o).pc \in {"post", "poll"}
               /\ Continue(me, c, k, o).pc = "poll" => o \in Op
               /\ Continue(me, c, k, o).pc = "post" => o = None
               /\ Continue(me, c, k, o).req = me.req
               /\ Continue(me, c, k, o).pin = c
               /\ Continue(me, c, k, o).key = k
               /\ Continue(me, c, k, o).op = o
<1>1. CASE o = None /\ me.mode = "get"
  BY <1>1, IdleSound DEF Continue
<1>2. CASE o = None /\ me.mode # "get"
  BY <1>2 DEF Continue, Process, Steps
<1>3. CASE o # None
  BY <1>3 DEF Continue, Process, Steps
<1> QED  BY <1>1, <1>2, <1>3

\* Its snapshot is the record as it is now.
LEMMA ContinueFresh ==
  ASSUME NEW me \in Process, NEW c, NEW k, NEW o
  PROVE  Continue(me, c, k, o) = Idle \/ Continue(me, c, k, o).fresh
  BY DEF Continue, Process

LEMMA OpenKeeps ==
  ASSUME IInv, NEW p \in Proc, OpenRefused(p) \/ OpenExisting(p)
  PROVE  IInv'
<1>1. proc[p] \in Process /\ CallSound(proc[p]) /\ proc[p].pc = "open" /\ RestTyped'
  BY DEF OpenRefused, OpenExisting, IInv, TypeOK, CallsSound, RestTyped
<1>2. CASE OpenRefused(p)
  BY <1>1, <1>2, IdleSound, GotoKeeps DEF OpenRefused
<1>3. CASE OpenExisting(p)
  <2>1. PICK c \in Selected(proc[p].req) :
          Goto(p, Continue(proc[p], c, ledger[c].key, ledger[c].op))
    BY <1>3 DEF OpenExisting, AdoptedKey
  <2>2. c \in OnDisk /\ c \in RecordId
    BY DEF Selected, Matching, OnDisk
  <2>3. ledger[c].key \in Key /\ ledger[c].op \in Op \union {None}
    BY <2>2 DEF IInv, TypeOK, Record, RecordsIdentified, OnDisk
  <2> DEFINE me == Continue(proc[p], c, ledger[c].key, ledger[c].op)
  <2>4. proc[p].req \in Request
    BY <1>1 DEF CallSound
  <2>5. me \in Process /\ CallSound(me)
    BY <1>1, <2>2, <2>3, <2>4, ContinueTyped, IdleSound DEF CallSound
  <2> QED  BY <1>1, <1>3, <2>1, <2>5, GotoKeeps DEF OpenExisting
<1> QED  BY <1>2, <1>3

LEMMA OpenNewKeeps ==
  ASSUME IInv, NEW p \in Proc, OpenNew(p)
  PROVE  IInv'
<1>1. proc[p] \in Process /\ CallSound(proc[p]) /\ proc[p].pc = "open" /\ RestTyped'
  BY DEF OpenNew, IInv, TypeOK, CallsSound, RestTyped
<1>2. proc[p].req \in Request
  BY <1>1 DEF CallSound
<1>3. PICK c \in FreshIds(proc[p].req), k \in IF proc[p].key # None THEN {proc[p].key} ELSE FreshKeys :
        Write(p, c, [NoRecord EXCEPT !.req = proc[p].req, !.key = k, !.status = "prepared"],
              Continue(proc[p], c, k, None))
  BY DEF OpenNew
<1>4. k \in Key
  <2>1. proc[p].key \in Key \union {None}
    BY <1>1 DEF Process
  <2> QED  BY <1>3, <2>1, SMT DEF FreshKeys
<1>5. c \in RecordId /\ c \notin OnDisk
  BY <1>2, RequestAssumption DEF OpenNew, FreshIds, Handles, Selected
<1>6. PICK r \in Record :
        /\ r = [NoRecord EXCEPT !.req = proc[p].req, !.key = k, !.status = "prepared"]
        /\ r.status # "absent" /\ r.req \in Request /\ r.key = k /\ r.op = None
  <2> DEFINE new == [NoRecord EXCEPT !.req = proc[p].req, !.key = k, !.status = "prepared"]
  <2>1. new \in Record /\ new.status # "absent" /\ new.req \in Request /\ new.key = k /\ new.op = None
    BY <1>2, <1>4 DEF NoRecord, Record, RecordStatus
  <2> QED  BY <2>1
<1>7. PICK me \in Process :
        /\ me = Continue(proc[p], c, k, None)
        /\ me = Idle \/ (me.pc = "post" /\ me.req \in Request /\ me.pin = c /\ me.key = k)
  BY <1>1, <1>2, <1>4, <1>5, ContinueTyped, NoneAssumption
<1>8. Write(p, c, r, me)
  BY <1>3, <1>6, <1>7
<1>9. CallSound(me)'
  <2>1. ledger'[c].key = k /\ c \in OnDisk'
    BY <1>5, <1>6, <1>8 DEF Write, IInv, TypeOK, OnDisk
  <2>2. me.pc = "idle" \/ (me.pc = "post" /\ me.req \in Request /\ me.pin = c /\ me.key = k)
    BY <1>7 DEF Idle
  <2> QED  BY <2>1, <2>2 DEF CallSound
<1> QED  BY <1>1, <1>4, <1>5, <1>6, <1>7, <1>8, <1>9, WriteKeeps DEF OpenNew

\* The two steps that only move a process on from its record.
LEMMA PollKeeps ==
  ASSUME IInv, NEW p \in Proc, Poll(p)
  PROVE  IInv'
<1>1. proc[p] \in Process /\ CallSound(proc[p]) /\ proc[p].pc = "poll" /\ RestTyped'
  BY DEF Poll, IInv, TypeOK, CallsSound, RestTyped
<1>2. proc[p].op \in Op
  BY <1>1 DEF CallSound
<1>3. backend[proc[p].op].status \in OpStatus
  BY <1>2 DEF IInv, TypeOK, Operation
<1> DEFINE me == [proc[p] EXCEPT !.pc = "apply", !.reply = backend[proc[p].op].status]
<1>4. me \in Process /\ CallSound(me)
  BY <1>1, <1>3 DEF Process, Steps, CallSound
<1> HIDE DEF me
<1>5. Goto(p, me)
  BY DEF Poll, me
<1> QED  BY <1>1, <1>4, <1>5, GotoKeeps DEF Poll

LEMMA SaveReportKeeps ==
  ASSUME IInv, NEW p \in Proc, SaveReport(p)
  PROVE  IInv'
<1>1. proc[p] \in Process /\ CallSound(proc[p]) /\ proc[p].pc = "apply"
  BY DEF SaveReport, IInv, TypeOK, CallsSound
<1>2. proc[p].op \in Op /\ proc[p].req \in Request /\ proc[p].req.kind = "judgment"
  BY <1>1 DEF CallSound, SaveReport
<1>3. proc[p].req.subject \in Runs
  BY <1>2 DEF Runs
<1>4. RestTyped'
  BY <1>2, <1>3 DEF SaveReport, IInv, TypeOK, RestTyped
<1>5. CASE Goto(p, [proc[p] EXCEPT !.pc = "mark"])
  <2> DEFINE me == [proc[p] EXCEPT !.pc = "mark"]
  <2>1. me \in Process /\ CallSound(me)
    BY <1>1 DEF Process, Steps, CallSound
  <2> HIDE DEF me
  <2>2. Goto(p, me)
    BY <1>5 DEF me
  <2> QED  BY <1>4, <2>1, <2>2, GotoKeeps DEF SaveReport
<1>6. CASE Goto(p, Idle)
  BY <1>4, <1>6, IdleSound, GotoKeeps DEF SaveReport
<1> QED  BY <1>5, <1>6 DEF SaveReport

\* The steps that rewrite the call's record after the optimistic comparison.
LEMMA BindKeeps ==
  ASSUME IInv, NEW p \in Proc, Bind(p)
  PROVE  IInv'
<1>1. proc[p] \in Process /\ CallSound(proc[p]) /\ proc[p].pc = "bind" /\ RestTyped'
  BY DEF Bind, IInv, TypeOK, CallsSound, RestTyped
<1>2. /\ proc[p].op \in Op /\ proc[p].pin \in OnDisk
      /\ backend[proc[p].op].key = ledger[proc[p].pin].key
  BY <1>1 DEF CallSound
<1>3. ledger[proc[p].pin] \in Record /\ backend[proc[p].op].status # "absent"
  <2>1. ledger[proc[p].pin] \in Record /\ ledger[proc[p].pin].key \in Key
    BY <1>2 DEF IInv, TypeOK, OnDisk, RecordsIdentified
  <2> QED  BY <1>2, <2>1, NoneAssumption DEF IInv, OperationsRecorded, NoOperation
<1> DEFINE r  == [ledger[proc[p].pin] EXCEPT !.op = proc[p].op, !.status = "active"]
           me == [proc[p] EXCEPT !.pc = "poll"]
<1>4. /\ r \in Record /\ r.status # "absent" /\ r.op = proc[p].op
      /\ r.req = ledger[proc[p].pin].req /\ r.key = ledger[proc[p].pin].key
  BY <1>2, <1>3 DEF Record, RecordStatus
<1>5. me \in Process /\ CallSound(me)
  BY <1>1 DEF Process, Steps, CallSound
<1> HIDE DEF r, me
<1>6. Transition(p, r, me)
  BY DEF Bind, r, me
<1> QED  BY <1>1, <1>2, <1>3, <1>4, <1>5, <1>6, TransitionKeeps DEF Bind

LEMMA NotesKeep ==
  ASSUME IInv, NEW p \in Proc, NoteActive(p) \/ NoteFailed(p) \/ NoteSucceeded(p)
  PROVE  IInv'
<1>1. proc[p] \in Process /\ CallSound(proc[p]) /\ proc[p].pc \in {"apply", "mark"}
  BY DEF NoteActive, NoteFailed, NoteSucceeded, Accepted, IInv, TypeOK, CallsSound
<1>2. proc[p].pin \in OnDisk /\ proc[p].req \in Request
  BY <1>1 DEF CallSound
<1>3. ledger[proc[p].pin] \in Record
  BY <1>2 DEF IInv, TypeOK, OnDisk
<1>4. CASE NoteActive(p)
  <2> DEFINE r  == [ledger[proc[p].pin] EXCEPT !.status = "active"]
             me == [proc[p] EXCEPT !.pc = "poll", !.reply = "absent"]
  <2>1. /\ r \in Record /\ r.status # "absent" /\ r.op = ledger[proc[p].pin].op
        /\ r.req = ledger[proc[p].pin].req /\ r.key = ledger[proc[p].pin].key
    BY <1>3 DEF Record, RecordStatus
  <2>2. me \in Process /\ CallSound(me)
    BY <1>1 DEF Process, Steps, OpStatus, CallSound
  <2> HIDE DEF r, me
  <2>3. Transition(p, r, me) /\ RestTyped' /\ UNCHANGED backend
    BY <1>4 DEF NoteActive, r, me, IInv, TypeOK, RestTyped
  <2> QED  BY <1>2, <2>1, <2>2, <2>3, TransitionKeeps
<1>5. CASE NoteFailed(p)
  <2> DEFINE r == FailedRecord(ledger[proc[p].pin])
  <2>1. /\ r \in Record /\ r.status # "absent" /\ r.op = ledger[proc[p].pin].op
        /\ r.req = ledger[proc[p].pin].req /\ r.key = ledger[proc[p].pin].key
    BY <1>3 DEF FailedRecord, Record, RecordStatus
  <2>2. cache' \in [Caller -> [Runs -> Key \union {None}]]
    <3>1. CASE cache' = cache
      BY <3>1 DEF IInv, TypeOK
    <3>2. CASE p \in Caller /\ cache' = [cache EXCEPT ![p][proc[p].req.subject] = None]
      BY <3>2 DEF IInv, TypeOK
    <3> QED  BY <1>5, <3>1, <3>2 DEF NoteFailed
  <2> HIDE DEF r
  <2>3. Transition(p, r, Idle) /\ RestTyped' /\ UNCHANGED backend
    BY <1>5, <2>2 DEF NoteFailed, r, IInv, TypeOK, RestTyped
  <2> QED  BY <1>2, <2>1, <2>3, IdleSound, TransitionKeeps
<1>6. CASE NoteSucceeded(p)
  <2> DEFINE r == [ledger[proc[p].pin] EXCEPT !.status = "succeeded", !.error = FALSE,
                                              !.locator = (proc[p].req.kind = "judgment")]
  <2>1. /\ r \in Record /\ r.status # "absent" /\ r.op = ledger[proc[p].pin].op
        /\ r.req = ledger[proc[p].pin].req /\ r.key = ledger[proc[p].pin].key
    BY <1>3 DEF Record, RecordStatus
  <2> HIDE DEF r
  <2>2. Transition(p, r, Idle) /\ RestTyped' /\ UNCHANGED backend
    BY <1>6 DEF NoteSucceeded, r, IInv, TypeOK, RestTyped
  <2> QED  BY <1>2, <2>1, <2>2, IdleSound, TransitionKeeps
<1> QED  BY <1>4, <1>5, <1>6

\* A POST that reaches the service: either it is answered with the operation
\* of its key, or it starts one under the record that carries that key.
LEMMA PostKeeps ==
  ASSUME IInv, NEW p \in Proc, Post(p)
  PROVE  IInv'
<1>1. proc[p] \in Process /\ CallSound(proc[p]) /\ proc[p].pc = "post"
  BY DEF Post, IInv, TypeOK, CallsSound
<1>2. /\ proc[p].req \in Request /\ proc[p].pin \in OnDisk
      /\ proc[p].key = ledger[proc[p].pin].key
  BY <1>1 DEF CallSound
<1>3. proc[p].pin \in RecordId /\ proc[p].key \in Key
  BY <1>2 DEF IInv, RecordsIdentified, OnDisk
<1>4. PICK o \in Accepting(proc[p].key), lost \in BOOLEAN :
        /\ faults + (IF lost THEN 1 ELSE 0) <= MaxFaults
        /\ backend' = IF backend[o].status # "absent" THEN backend
                      ELSE [backend EXCEPT ![o] = [key |-> proc[p].key, by |-> proc[p].pin,
                                                   req |-> proc[p].req, status |-> "active"]]
        /\ IF lost THEN faults' = faults + 1 /\ UNCHANGED proc
           ELSE Goto(p, [proc[p] EXCEPT !.pc = "bind", !.op = o]) /\ UNCHANGED faults
  BY DEF Post
<1>5. o \in Op
  BY DEF Accepting
<1>6. UNCHANGED <<ledger, reports, cache>> /\ OnDisk' = OnDisk
  BY DEF Post, OnDisk
<1>7. /\ backend'[o].key = proc[p].key
      /\ \A x \in Op : x # o => backend'[x] = backend[x]
      /\ \/ backend'[o] = backend[o]
         \/ /\ backend[o] = NoOperation
            /\ backend'[o] = [key |-> proc[p].key, by |-> proc[p].pin,
                              req |-> proc[p].req, status |-> "active"]
            /\ \A x \in Op : backend[x].key # proc[p].key
      /\ backend' \in [Op -> Operation]
  <2>1. CASE \E x \in Op : backend[x].key = proc[p].key
    <3>1. backend[o].key = proc[p].key
      BY <2>1 DEF Accepting
    <3>2. backend[o].status # "absent"
      BY <1>3, <1>5, <3>1, NoneAssumption DEF IInv, OperationsRecorded, NoOperation
    <3> QED  BY <1>4, <3>1, <3>2 DEF IInv, TypeOK
  <2>2. CASE ~ \E x \in Op : backend[x].key = proc[p].key
    <3>1. backend[o].status = "absent"
      BY <2>2 DEF Accepting
    <3>2. backend[o] = NoOperation
      BY <1>5, <3>1 DEF IInv, OperationsRecorded
    <3>3. backend' = [backend EXCEPT ![o] = [key |-> proc[p].key, by |-> proc[p].pin,
                                             req |-> proc[p].req, status |-> "active"]]
      BY <1>4, <3>1
    <3>4. [key |-> proc[p].key, by |-> proc[p].pin,
           req |-> proc[p].req, status |-> "active"] \in Operation
      BY <1>2, <1>3 DEF Operation, OpStatus
    <3> QED  BY <1>5, <2>2, <3>2, <3>3, <3>4 DEF IInv, TypeOK
  <2> QED  BY <2>1, <2>2
<1>8. TypeOK'
  <2>1. faults' \in 0..MaxFaults
    BY <1>4, BoundAssumption DEF IInv, TypeOK
  <2>2. proc' \in [Proc -> Process]
    <3>1. [proc[p] EXCEPT !.pc = "bind", !.op = o] \in Process
      BY <1>1, <1>5 DEF Process, Steps
    <3> QED  BY <1>4, <3>1 DEF Goto, IInv, TypeOK
  <2> QED  BY <1>6, <1>7, <2>1, <2>2 DEF IInv, TypeOK
<1>9. RecordsIdentified'
  BY <1>6 DEF IInv, RecordsIdentified
<1>10. OperationsRecorded'
  <2> SUFFICES ASSUME NEW x \in Op
               PROVE  IF backend'[x].status = "absent" THEN backend'[x] = NoOperation
                      ELSE /\ backend'[x].key \in Key
                           /\ backend'[x].by \in OnDisk
                           /\ ledger[backend'[x].by].key = backend'[x].key
    BY <1>6 DEF OperationsRecorded
  <2>1. CASE backend'[x] = backend[x]
    BY <2>1 DEF IInv, OperationsRecorded
  <2>2. CASE backend'[x] # backend[x]
    BY <1>2, <1>3, <1>7, <2>2
  <2> QED  BY <2>1, <2>2
<1>11. OneOperationPerKey'
  BY <1>5, <1>7 DEF IInv, OneOperationPerKey
<1>12. BoundToAccepted'
  <2> SUFFICES ASSUME NEW c \in RecordId, ledger[c].op # None
               PROVE  backend'[ledger[c].op].status # "absent"
    BY <1>6 DEF BoundToAccepted
  <2>1. ledger[c].op \in Op /\ backend[ledger[c].op].status # "absent"
    BY DEF IInv, TypeOK, Record, BoundToAccepted
  <2> QED  BY <1>7, <2>1 DEF NoOperation
<1>13. CallsSound'
  <2>1. \A x \in Proc : CallSound(proc[x])'
    <3> SUFFICES ASSUME NEW x \in Proc PROVE CallSound(proc[x])'
      OBVIOUS
    <3>1. CASE proc'[x] = proc[x]
      <4>1. proc[x].pc = "bind" => backend[proc[x].op].key = ledger[proc[x].pin].key
                                   /\ ledger[proc[x].pin].key \in Key
        BY DEF IInv, CallsSound, CallSound, RecordsIdentified, OnDisk
      <4>2. proc[x].pc = "attach" => /\ proc[x].op \in Op
                                     /\ backend'[proc[x].op].status # "absent"
        BY <1>7 DEF IInv, CallsSound, CallSound, NoOperation
      <4> QED
        BY <1>6, <1>7, <3>1, <4>1, <4>2, NoneAssumption
        DEF IInv, CallsSound, CallSound, NoOperation
    <3>2. CASE proc'[x] # proc[x]
      <4>1. proc'[x] = [proc[p] EXCEPT !.pc = "bind", !.op = o]
        BY <1>4, <3>2 DEF Goto, IInv, TypeOK
      <4>2. /\ proc'[x].pc = "bind" /\ proc'[x].op = o /\ proc'[x].pin = proc[p].pin
            /\ proc'[x].key = proc[p].key /\ proc'[x].req = proc[p].req
        BY <1>1, <4>1 DEF Process
      <4> QED  BY <1>2, <1>5, <1>6, <1>7, <4>2 DEF CallSound
    <3> QED  BY <3>1, <3>2
  <2> QED  BY <2>1 DEF CallsSound
<1> QED  BY <1>8, <1>9, <1>10, <1>11, <1>12, <1>13 DEF IInv

\* The service only moves the status of an operation it has accepted.
LEMMA ServiceKeeps ==
  ASSUME IInv, NEW o \in Op, Finish(o) \/ Expire(o)
  PROVE  IInv'
<1>1. PICK s \in OpStatus \ {"absent"} : backend' = [backend EXCEPT ![o].status = s]
  BY DEF Finish, Expire, OpStatus
<1>2. backend[o].status # "absent" /\ UNCHANGED <<ledger, reports, proc, cache, faults>>
  BY DEF Finish, Expire
<1>3. /\ backend' \in [Op -> Operation]
      /\ \A x \in Op : /\ backend'[x].key = backend[x].key
                       /\ backend'[x].by = backend[x].by
                       /\ x # o => backend'[x] = backend[x]
      /\ backend'[o].status # "absent"
  BY <1>1 DEF IInv, TypeOK, Operation
<1>4. TypeOK'
  BY <1>2, <1>3 DEF IInv, TypeOK
<1>5. RecordsIdentified' /\ OperationsRecorded'
  BY <1>2, <1>3 DEF IInv, RecordsIdentified, OperationsRecorded, OnDisk
<1>6. OneOperationPerKey'
  BY <1>3 DEF IInv, OneOperationPerKey
<1>7. BoundToAccepted'
  BY <1>2, <1>3 DEF IInv, BoundToAccepted, TypeOK, Record
<1>8. CallsSound'
  BY <1>2, <1>3 DEF IInv, CallsSound, CallSound, OnDisk
<1> QED  BY <1>4, <1>5, <1>6, <1>7, <1>8 DEF IInv

LEMMA FaultsKeep ==
  ASSUME IInv, NEW p \in Proc, Fail(p) \/ (p \in Caller /\ Crash(p))
  PROVE  IInv'
<1>1. Goto(p, Idle) /\ UNCHANGED <<ledger, backend>>
  BY DEF Fail, Crash
<1>2. RestTyped'
  BY BoundAssumption DEF Fail, Crash, IInv, TypeOK, RestTyped
<1> QED  BY <1>1, <1>2, IdleSound, GotoKeeps

----------------------------------------------------------------------------

LEMMA NextIInv == IInv /\ [Next]_vars => IInv'
<1> SUFFICES ASSUME IInv, [Next]_vars PROVE IInv'
  OBVIOUS
<1>1. CASE \E p \in Caller, q \in Request :
             CallCase(p, q) \/ CallJudgeFirst(p, q) \/ CallJudgeResume(p, q) \/ CallJudgeAgain(p, q)
  BY <1>1, CallsStart
<1>2. CASE \E p \in Resumer, c \in RecordId : Resume(p, c)
  BY <1>2, ResumeStarts
<1>3. ASSUME NEW p \in Proc, Advance(p) PROVE IInv'
  <2>1. CASE LoadStore(p) \/ Lookup(p) \/ Attach(p)
    BY <2>1, LoadStoreKeeps, LookupKeeps, AttachKeeps
  <2>2. CASE OpenRefused(p) \/ OpenExisting(p) \/ OpenNew(p)
    BY <2>2, OpenKeeps, OpenNewKeeps
  <2>3. CASE Post(p) \/ Bind(p) \/ Poll(p)
    BY <2>3, PostKeeps, BindKeeps, PollKeeps
  <2>4. CASE NoteActive(p) \/ NoteFailed(p) \/ SaveReport(p) \/ NoteSucceeded(p)
    BY <2>4, NotesKeep, SaveReportKeeps
  <2> QED  BY <1>3, <2>1, <2>2, <2>3, <2>4 DEF Advance
<1>4. CASE (\E p \in Proc : Fail(p)) \/ (\E p \in Caller : Crash(p))
  BY <1>4, FaultsKeep DEF Proc
<1>5. CASE \E o \in Op : Finish(o) \/ Expire(o)
  BY <1>5, ServiceKeeps
<1>6. CASE UNCHANGED vars
  BY <1>6 DEF vars, IInv, TypeOK, RecordsIdentified, OperationsRecorded, OneOperationPerKey,
              BoundToAccepted, CallsSound, CallSound, OnDisk
<1> QED  BY <1>1, <1>2, <1>3, <1>4, <1>5, <1>6 DEF Next

\* Whatever calls, resumes, lost responses, crashes and expiries interleave:
\* a record on disk keeps its request and its key; an accepted operation was
\* started under a record on disk that still has the key of its POST, one
\* operation per key; a call that may POST, bind or poll holds the key of its
\* record; and no record is bound to an operation that the service has not
\* accepted (load_or_create, set_operation_id, attach_recovered_operation).
THEOREM Invariance == Spec => []IInv
<1> QED  BY InitIInv, NextIInv, PTL DEF Spec

\* Every variable keeps its type: no transition stores a status, key or
\* operation outside the record format of _request_contract.py.
THEOREM TypeCorrect == Spec => []TypeOK
<1>1. IInv => TypeOK
  BY DEF IInv
<1> QED  BY <1>1, Invariance, PTL

\* The recovery lookup of a client_request_id finds at most one operation,
\* however often its POST was lost and repeated (_recover_operation).
THEOREM RecoveryUnambiguous == Spec => []OneOperationPerRequestId
<1>1. IInv => OneOperationPerRequestId
  <2> SUFFICES ASSUME IInv, NEW o1 \in Op, NEW o2 \in Op,
                      backend[o1].by # None, backend[o1].by = backend[o2].by
               PROVE  o1 = o2
    BY DEF OneOperationPerRequestId
  <2>1. backend[o1].status # "absent" /\ backend[o2].status # "absent"
    BY DEF IInv, OperationsRecorded, NoOperation
  <2>2. backend[o1].key \in Key /\ backend[o1].key = backend[o2].key
    BY <2>1 DEF IInv, OperationsRecorded
  <2> QED  BY <2>2, NoneAssumption DEF IInv, OneOperationPerKey
<1> QED  BY <1>1, Invariance, PTL

----------------------------------------------------------------------------
(* What the ledger promises when calls keep out of each other's way.       *)
(*                                                                         *)
(* The promises below fail in some interleavings, which the runs           *)
(* ledger_attach, ledger_ghost and ledger_expiry show, so each theorem     *)
(* names the interleavings it excludes.  The invariant is one for all of   *)
(* them: most of it holds whatever happens, and the rest under the named   *)
(* condition only.                                                         *)

\* No process is resuming a request while another call is under way.
NoOverlap == Resumer = {} \/ ~Concurrent

\* The Evidence of a Run does not change from call to call.
OneRequestPerRun ==
  \A q1, q2 \in Request :
    q1.kind = "judgment" /\ q2.kind = "judgment" /\ q1.subject = q2.subject => q1 = q2

\* Either calls take turns, or they overlap without a resume and with one
\* request of each Run.
Orderly == ~Concurrent \/ (Resumer = {} /\ OneRequestPerRun)

\* The same, where overlapping calls meet no forgotten operation.
Quiet == ~Concurrent \/ (Resumer = {} /\ OneRequestPerRun /\ ~Expiry)

AtRecord == {"post", "bind", "poll", "apply", "mark"}

Recovering == {"load", "lookup", "attach"}

\* The status of an operation after the service answered s, or after s was
\* recorded of it.
Earned(s, b) ==
  /\ s = "succeeded" => b \in {"succeeded", "gone"}
  /\ s \in {"failed", "retryable"} => b \in {"failed", "retryable", "gone"}
  /\ s = "gone" => b = "gone"

RecordFits(c, r) ==
  /\ r.status # "absent" /\ r.req.kind = "explicit" => c = r.req.subject
  /\ r.status \in {"absent", "prepared"} <=> r.op = None
  /\ r.op # None => Earned(r.status, backend[r.op].status)
  /\ NoOverlap => (r.status = "failed") = r.error
  /\ r.status = "succeeded" => r.locator = (r.req.kind = "judgment")

RecordsFit == \A c \in RecordId : RecordFits(c, ledger[c])

OperationsFit ==
  \A o \in Op :
    /\ backend[o].status # "absent" => backend[o].req = ledger[backend[o].by].req
    /\ backend[o].status = "gone" => Expiry

\* A call's snapshot against the record as it is now.
SnapshotFits(me) ==
  /\ me.pc \in Recovering \union AtRecord => ledger[me.pin].req = me.req
  /\ me.pc \in {"poll", "apply", "mark"} => ledger[me.pin].op = me.op
  /\ me.pc \in {"post", "bind"} /\ me.fresh => ledger[me.pin].op = None
  /\ me.pc = "apply" /\ me.reply = "active" /\ me.fresh => ledger[me.pin].status \notin Terminal
  /\ me.pc \in AtRecord /\ me.fresh /\ me.req.kind = "judgment" =>
       ledger[me.pin].status # "failed"

\* What a call knows of the service and of its saved report.
ReplyFits(me) ==
  /\ me.pc \in {"apply", "mark"} => Earned(me.reply, backend[me.op].status)
  /\ me.pc = "mark" => /\ me.reply = "succeeded"
                       /\ me.req.kind = "judgment"
                       /\ Quiet => reports[me.req.subject] = me.op

\* A recovery lookup belongs to a resume.
RecoveryFits(p, me) ==
  me.pc \in Recovering => p \in Resumer

\* What a call may rely on when nothing overlaps it.
TurnFits(me) ==
  ~Concurrent =>
    /\ me.pc \in {"lookup", "attach"} => ledger[me.pin].op = None
    /\ me.pc \in AtRecord => me.fresh
    /\ me.pc = "open" /\ me.req.kind = "judgment" /\ Matching(me.req) = {} =>
         JudgmentsOf(me.req) = {}

CallFits(p, me) == SnapshotFits(me) /\ ReplyFits(me) /\ RecoveryFits(p, me) /\ TurnFits(me)

CallsFit == \A p \in Proc : CallFits(p, proc[p])

TurnsTaken ==
  ~Concurrent => \A x, y \in Proc : x = y \/ proc[x].pc = "idle" \/ proc[y].pc = "idle"

\* A Run has at most one Judge request that did not fail.
JudgmentsExclusive ==
  \A c1, c2 \in OnDisk :
    ( /\ ledger[c1].req.kind = "judgment"
      /\ ledger[c2].req.kind = "judgment"
      /\ ledger[c1].req.subject = ledger[c2].req.subject
      /\ ledger[c1].status # "failed"
      /\ ledger[c2].status # "failed" )
    => c1 = c2

Promises ==
  /\ NoOverlap => OneActiveRecord
  /\ Orderly => JudgmentsExclusive
  /\ Quiet => ReportBeforeSuccess

LInv == RecordsFit /\ OperationsFit /\ CallsFit /\ TurnsTaken /\ Promises

----------------------------------------------------------------------------
(* Steps that only move a process, and steps that write one record.        *)

LEMMA Degrees == (Quiet => Orderly) /\ (Orderly => NoOverlap)
  BY DEF Quiet, Orderly, NoOverlap

LEMMA IdleFits == ASSUME NEW p PROVE CallFits(p, Idle)
  BY DEF Idle, CallFits, SnapshotFits, ReplyFits, RecoveryFits, TurnFits, AtRecord, Recovering

\* A call that moves alone: it was inside a call, it starts one when it may,
\* or it becomes idle.
LEMMA TurnsKept ==
  ASSUME IInv, LInv, NEW p \in Proc, NEW me \in Process,
         me.pc = "idle" \/ proc[p].pc # "idle" \/ MayStart(p),
         \A x \in Proc \ {p} : proc'[x].pc = proc[x].pc, proc'[p] = me
  PROVE  TurnsTaken'
<1> SUFFICES ASSUME ~Concurrent, NEW x \in Proc, NEW y \in Proc, x # y,
                    proc'[x].pc # "idle", proc'[y].pc # "idle"
             PROVE  FALSE
  BY DEF TurnsTaken
<1>1. proc[x].pc = "idle" \/ proc[y].pc = "idle"
  BY DEF LInv, TurnsTaken
<1>2. x = p \/ y = p
  BY <1>1
<1> QED  BY <1>1, <1>2 DEF LInv, TurnsTaken, MayStart

LEMMA GotoFits ==
  ASSUME IInv, LInv, NEW p \in Proc, NEW me \in Process, CallFits(p, me), Goto(p, me),
         me.pc = "idle" \/ proc[p].pc # "idle" \/ MayStart(p),
         UNCHANGED <<ledger, reports, backend>>
  PROVE  LInv'
<1>1. /\ proc'[p] = me
      /\ \A x \in Proc \ {p} : proc'[x] = proc[x]
  BY DEF Goto, IInv, TypeOK
<1>2. TurnsTaken'
  BY <1>1, TurnsKept
<1>3. OnDisk' = OnDisk
  BY DEF OnDisk
<1>4. CallsFit'
  <2> SUFFICES ASSUME NEW x \in Proc PROVE CallFits(x, proc[x])'
    BY DEF CallsFit
  <2>1. CallFits(x, proc'[x])
    BY <1>1 DEF LInv, CallsFit
  <2> QED
    BY <1>3, <2>1
    DEF CallFits, SnapshotFits, ReplyFits, RecoveryFits, TurnFits, Matching, JudgmentsOf, Retained
<1>5. RecordsFit' /\ OperationsFit' /\ Promises'
  BY <1>3 DEF LInv, RecordsFit, RecordFits, OperationsFit, Promises, OneActiveRecord,
              JudgmentsExclusive, ReportBeforeSuccess
<1> QED  BY <1>2, <1>4, <1>5 DEF LInv

\* A call other than p's, when p writes record c: of its own record, the
\* request stays, a bound operation stays, and its snapshot is stale.
LEMMA OthersFit ==
  ASSUME IInv, LInv, NEW p \in Proc, NEW c \in RecordId, NEW r \in Record, NEW me \in Process,
         Write(p, c, r, me), proc[p].pc # "idle", UNCHANGED <<reports, backend>>,
         r.status # "absent",
         c \in OnDisk => r.req = ledger[c].req /\ r.op \in {ledger[c].op} \union Op,
         c \in OnDisk /\ ledger[c].op # None => r.op = ledger[c].op,
         NEW x \in Proc \ {p}
  PROVE  CallFits(x, proc[x])'
<1>1. /\ proc'[x] \in Process
      /\ proc'[x].pc = proc[x].pc
      /\ proc'[x].req = proc[x].req
      /\ proc'[x].pin = proc[x].pin
      /\ proc'[x].op = proc[x].op
      /\ proc'[x].reply = proc[x].reply
      /\ proc'[x].fresh = (proc[x].fresh /\ proc[x].pin # c)
  BY DEF Write, IInv, TypeOK, Process
<1>2. \A d \in RecordId : ledger'[d] = IF d = c THEN r ELSE ledger[d]
  BY DEF Write, IInv, TypeOK
<1>3. CallFits(x, proc[x]) /\ CallSound(proc[x]) /\ proc[x] \in Process
  BY DEF LInv, CallsFit, IInv, CallsSound, TypeOK
<1>4. proc[x].pc \in Recovering \union AtRecord => proc[x].pin \in OnDisk
  BY <1>3 DEF CallSound, AtRecord, Recovering
<1>5. OnDisk \subseteq OnDisk' /\ OnDisk \subseteq RecordId
  BY <1>2 DEF OnDisk
<1>6. SnapshotFits(proc[x])'
  <2>1. CASE proc[x].pin = c
    <3>1. SnapshotFits(proc[x])
      BY <1>3 DEF CallFits
    <3>2. ~proc'[x].fresh
      BY <1>1, <2>1
    <3>3. proc[x].pc \in {"poll", "apply", "mark"} => proc[x].op \in Op
      BY <1>3 DEF CallSound
    <3>4. proc[x].pc \in Recovering \union AtRecord =>
            c \in OnDisk /\ ledger'[c] = r
      BY <1>2, <1>4, <2>1
    <3>5. proc[x].pc \in Recovering \union AtRecord => ledger'[c].req = proc[x].req
      BY <2>1, <3>1, <3>4 DEF SnapshotFits
    <3>6. proc[x].pc \in {"poll", "apply", "mark"} => ledger'[c].op = proc[x].op
      BY <2>1, <3>1, <3>3, <3>4, NoneAssumption DEF SnapshotFits, AtRecord
    <3> QED  BY <1>1, <2>1, <3>2, <3>5, <3>6 DEF SnapshotFits
  <2>2. CASE proc[x].pin # c
    <3>1. proc[x].pc \in Recovering \union AtRecord =>
            ledger'[proc[x].pin] = ledger[proc[x].pin]
      BY <1>2, <1>4, <1>5, <2>2
    <3> QED  BY <1>1, <1>3, <2>2, <3>1 DEF CallFits, SnapshotFits, AtRecord
  <2> QED  BY <2>1, <2>2
<1>7. ReplyFits(proc[x])'
  BY <1>1, <1>3 DEF CallFits, ReplyFits
<1>8. RecoveryFits(x, proc[x])'
  BY <1>1, <1>3, <1>5 DEF CallFits, RecoveryFits
<1>9. TurnFits(proc[x])'
  <2> SUFFICES ASSUME ~Concurrent PROVE proc'[x].pc = "idle"
    BY DEF TurnFits, AtRecord, Recovering
  <2> QED  BY <1>1 DEF LInv, TurnsTaken
<1> QED  BY <1>6, <1>7, <1>8, <1>9 DEF CallFits

\* p writes record c and goes on as me.
LEMMA WriteFits ==
  ASSUME IInv, LInv, NEW p \in Proc, NEW c \in RecordId, NEW r \in Record, NEW me \in Process,
         Write(p, c, r, me), proc[p].pc # "idle", UNCHANGED <<reports, backend>>,
         r.status # "absent", RecordFits(c, r), CallFits(p, me)', Promises',
         c \in OnDisk => r.req = ledger[c].req /\ r.op \in {ledger[c].op} \union Op,
         c \in OnDisk /\ ledger[c].op # None => r.op = ledger[c].op
  PROVE  LInv'
<1>1. \A d \in RecordId : ledger'[d] = IF d = c THEN r ELSE ledger[d]
  BY DEF Write, IInv, TypeOK
<1>2. proc'[p] = me /\ \A x \in Proc \ {p} : proc'[x].pc = proc[x].pc
  BY DEF Write, IInv, TypeOK, Process
<1>3. RecordsFit'
  BY <1>1 DEF LInv, RecordsFit, RecordFits
<1>4. OperationsFit'
  BY <1>1 DEF LInv, OperationsFit, IInv, OperationsRecorded, OnDisk
<1>5. TurnsTaken'
  BY <1>2, TurnsKept
<1>6. CallsFit'
  <2>1. \A x \in Proc \ {p} : CallFits(x, proc[x])'
    BY OthersFit
  <2>2. CallFits(p, proc[p])'
    BY <1>2
  <2> QED  BY <2>1, <2>2 DEF CallsFit
<1> QED  BY <1>3, <1>4, <1>5, <1>6 DEF LInv

\* A record that is rewritten never returns to an earlier state: what ended
\* stays ended, and what failed stays failed.
Onward(r1, r2) ==
  /\ r2.req = r1.req
  /\ r1.op # None => r2.op = r1.op
  /\ NoOverlap /\ r2.status \notin Terminal => r1.status \notin Terminal
  /\ Orderly /\ r2.req.kind = "judgment" /\ r2.status # "failed" => r1.status # "failed"
  /\ Quiet /\ r2.req.kind = "judgment" /\ r2.status = "succeeded" =>
       reports[r2.req.subject] = r2.op

\* Where a call stands after it wrote r as its record c.
ContinuesFrom(me, c, r) ==
  \/ me.pc = "idle"
  \/ /\ me.pc \in {"open", "post", "poll"}
     /\ me.pin = c
     /\ me.req = r.req
     /\ me.pc = "open" => r.status \notin Terminal
     /\ me.pc = "post" => r.op = None
     /\ me.pc = "poll" => r.op = me.op
     /\ me.pc # "open" => me.fresh /\ r.status # "failed"

LEMMA ContinuesFits ==
  ASSUME IInv, NEW p \in Proc, NEW c \in RecordId, NEW r \in Record, NEW me \in Process,
         r.status # "absent", Write(p, c, r, me), ContinuesFrom(me, c, r)
  PROVE  CallFits(p, me)'
<1>1. ledger'[c] = r /\ c \in OnDisk'
  BY DEF Write, IInv, TypeOK, OnDisk
<1>2. SnapshotFits(me)' /\ ReplyFits(me)' /\ RecoveryFits(p, me)'
  BY <1>1 DEF ContinuesFrom, SnapshotFits, ReplyFits, RecoveryFits, AtRecord, Recovering
<1>3. me.pc = "open" => c \in Matching(me.req)'
  BY <1>1 DEF ContinuesFrom, Matching
<1>4. TurnFits(me)'
  BY <1>1, <1>3 DEF ContinuesFrom, TurnFits, AtRecord, Recovering
<1> QED  BY <1>2, <1>4 DEF CallFits

LEMMA RewriteFits ==
  ASSUME IInv, LInv, NEW p \in Proc, NEW c \in OnDisk, NEW r \in Record, NEW me \in Process,
         Write(p, c, r, me), proc[p].pc # "idle", UNCHANGED <<reports, backend>>,
         r.status # "absent", RecordFits(c, r), ContinuesFrom(me, c, r), Onward(ledger[c], r)
  PROVE  LInv'
<1>1. c \in RecordId /\ ledger[c].status # "absent"
  BY DEF OnDisk
<1>2. /\ OnDisk' = OnDisk
      /\ \A d \in OnDisk : ledger'[d] = IF d = c THEN r ELSE ledger[d]
  BY <1>1 DEF Write, IInv, TypeOK, OnDisk
<1>3. \A d \in OnDisk : ledger'[d].req = ledger[d].req
  BY <1>2 DEF Onward
<1>4. NoOverlap => OneActiveRecord'
  <2>1. NoOverlap => \A d \in OnDisk : ledger'[d].status \notin Terminal =>
                                         ledger[d].status \notin Terminal
    BY <1>2 DEF Onward
  <2> QED  BY <1>2, <1>3, <2>1 DEF LInv, Promises, OneActiveRecord
<1>5. Orderly => JudgmentsExclusive'
  <2>1. Orderly => \A d \in OnDisk :
                     ledger'[d].req.kind = "judgment" /\ ledger'[d].status # "failed" =>
                       ledger[d].status # "failed"
    BY <1>2 DEF Onward
  <2> QED  BY <1>2, <1>3, <2>1 DEF LInv, Promises, JudgmentsExclusive
<1>6. Quiet => ReportBeforeSuccess'
  BY <1>2, <1>3 DEF LInv, Promises, ReportBeforeSuccess, Onward
<1>7. r.op \in {ledger[c].op} \union Op
  <2>1. r.op \in Op \union {None} /\ ledger[c].op \in Op \union {None}
    BY <1>1 DEF Record, IInv, TypeOK
  <2> QED  BY <2>1 DEF Onward
<1>8. CallFits(p, me)'
  BY <1>1, ContinuesFits
<1> QED  BY <1>1, <1>4, <1>5, <1>6, <1>7, <1>8, WriteFits DEF Promises, Onward

LEMMA TransitionFits ==
  ASSUME IInv, LInv, NEW p \in Proc, proc[p].pin \in OnDisk, proc[p].pc # "idle",
         NEW r \in Record, NEW me \in Process, Transition(p, r, me),
         UNCHANGED <<reports, backend>>,
         Commits(p) => /\ r.status # "absent"
                       /\ RecordFits(proc[p].pin, r)
                       /\ ContinuesFrom(me, proc[p].pin, r)
                       /\ Onward(ledger[proc[p].pin], r)
  PROVE  LInv'
<1>1. CASE Commits(p)
  BY <1>1, RewriteFits DEF Transition
<1>2. CASE ~Commits(p)
  BY <1>2, IdleSound, IdleFits, GotoFits DEF Transition, Idle
<1> QED  BY <1>1, <1>2

----------------------------------------------------------------------------
(* Each action.                                                            *)

LEMMA InitLInv == Init => LInv
<1> SUFFICES ASSUME Init PROVE LInv  OBVIOUS
<1>1. \A c \in RecordId : ledger[c] = NoRecord
  BY DEF Init
<1>2. OnDisk = {}
  BY <1>1 DEF OnDisk, NoRecord
<1>3. RecordsFit /\ OperationsFit
  BY <1>1 DEF Init, RecordsFit, RecordFits, NoRecord, OperationsFit, NoOperation
<1>4. CallsFit
  BY IdleFits DEF Init, CallsFit
<1>5. TurnsTaken
  BY DEF Init, TurnsTaken, Idle
<1>6. Promises
  BY <1>2 DEF Promises, OneActiveRecord, JudgmentsExclusive, ReportBeforeSuccess
<1> QED  BY <1>3, <1>4, <1>5, <1>6 DEF LInv

\* A starting call knows nothing yet, but that its Run is free or its record
\* is among those it will find.
LEMMA StartFits ==
  ASSUME IInv, LInv, NEW p \in Proc, MayStart(p), NEW q \in Request,
         NEW c \in RecordId \union {None}, NEW k \in Key \union {None}, NEW m \in {"post", "get"},
         q.kind = "judgment" => Matching(q) # {} \/ JudgmentsOf(q) = {},
         Goto(p, Starting(q, c, k, m, "open")), UNCHANGED <<ledger, reports, backend>>
  PROVE  LInv'
<1> DEFINE me == Starting(q, c, k, m, "open")
<1>1. me \in Process /\ me.pc = "open" /\ me.req = q
  BY DEF Starting, Idle, Process, Steps, OpStatus
<1> HIDE DEF me
<1>2. CallFits(p, me)
  BY <1>1 DEF CallFits, SnapshotFits, ReplyFits, RecoveryFits, TurnFits, AtRecord, Recovering
<1> QED  BY <1>1, <1>2, GotoFits DEF me

LEMMA CallsStartFit ==
  ASSUME IInv, LInv, NEW p \in Caller, NEW q \in Request,
         \/ CallCase(p, q)
         \/ CallJudgeFirst(p, q)
         \/ CallJudgeResume(p, q)
         \/ CallJudgeAgain(p, q)
  PROVE  LInv'
<1> p \in Proc
  BY DEF Proc
<1>1. CASE CallCase(p, q)
  BY <1>1, StartFits DEF CallCase
<1>2. CASE CallJudgeFirst(p, q)
  <2>1. PICK k \in CandidateKeys(p, q.subject) : Goto(p, Starting(q, None, k, "post", "open"))
    BY <1>2 DEF CallJudgeFirst
  <2>2. q.subject \in Runs
    BY <1>2 DEF CallJudgeFirst, Runs
  <2>3. k \in Key
    BY <2>1, <2>2 DEF CandidateKeys, FreshKeys, IInv, TypeOK
  <2> QED  BY <1>2, <2>1, <2>3, StartFits DEF CallJudgeFirst
<1>3. ASSUME NEW c \in RecordId, c \in JudgmentsOf(q), ledger[c].status \in RecordStatus
      PROVE  /\ ledger[c].req \in Request /\ ledger[c].key \in Key
             /\ c \in Matching(ledger[c].req)
  BY <1>3 DEF JudgmentsOf, Matching, OnDisk, Retained, Terminal, IInv, RecordsIdentified
<1>4. \A c \in RecordId : ledger[c].status \in RecordStatus
  BY DEF IInv, TypeOK, Record
<1>5. CASE CallJudgeResume(p, q)
  <2>1. PICK c \in RecordId :
          /\ JudgmentsOf(q) = {c}
          /\ Goto(p, Starting(ledger[c].req, c, ledger[c].key, "get", "open"))
    BY <1>5 DEF CallJudgeResume
  <2> QED  BY <1>3, <1>4, <1>5, <2>1, StartFits DEF CallJudgeResume
<1>6. CASE CallJudgeAgain(p, q)
  <2>1. PICK c \in RecordId :
          /\ JudgmentsOf(q) = {c}
          /\ ledger[c].req = q
          /\ Goto(p, Starting(q, c, ledger[c].key, "post", "open"))
    BY <1>6 DEF CallJudgeAgain
  <2> QED  BY <1>3, <1>4, <1>6, <2>1, StartFits DEF CallJudgeAgain
<1> QED  BY <1>1, <1>2, <1>5, <1>6

\* The records a store selects for a request are records of that request.
LEMMA SelectedOwn ==
  ASSUME NEW q \in Request, ~SelectionFails(q), NEW s \in Selected(q)
  PROVE  /\ s \in OnDisk /\ s \in RecordId
         /\ ledger[s].req = q
         /\ q.kind = "judgment" => ledger[s].status # "failed"
  BY RequestAssumption DEF SelectionFails, Selected, Matching, OnDisk, Retained, Terminal, Kinds

LEMMA ResumeFits ==
  ASSUME IInv, LInv, NEW p \in Resumer, NEW c \in RecordId, Resume(p, c)
  PROVE  LInv'
<1> p \in Proc
  BY DEF Proc
<1> DEFINE me == [Starting(ledger[c].req, c, ledger[c].key, "get", "load") EXCEPT !.asks = c]
<1>1. ledger[c].req \in Request /\ ledger[c].key \in Key
  BY DEF Resume, IInv, RecordsIdentified, OnDisk
<1>2. me \in Process /\ me.pc = "load" /\ me.req = ledger[c].req /\ me.pin = c
  BY <1>1 DEF Starting, Idle, Process, Steps, OpStatus
<1>3. Goto(p, me)
  BY DEF Resume
<1> HIDE DEF me
<1>4. CallFits(p, me)
  BY <1>2 DEF CallFits, SnapshotFits, ReplyFits, RecoveryFits, TurnFits, AtRecord, Recovering
<1> QED  BY <1>2, <1>3, <1>4, GotoFits DEF Resume

LEMMA LoadStoreFits ==
  ASSUME IInv, LInv, NEW p \in Proc, LoadStore(p)
  PROVE  LInv'
<1>1. /\ proc[p] \in Process /\ CallFits(p, proc[p]) /\ CallSound(proc[p])
      /\ proc[p].pc = "load" /\ proc[p].req \in Request
  BY DEF LoadStore, IInv, TypeOK, LInv, CallsFit, CallsSound, CallSound
<1>2. CASE Goto(p, Idle)
  BY <1>1, <1>2, IdleSound, IdleFits, GotoFits DEF LoadStore, Idle
<1>3. ASSUME NEW s \in Selected(proc[p].req), ~SelectionFails(proc[p].req), NEW me,
             \/ /\ ledger[s].op = None
                /\ me = [proc[p] EXCEPT !.pc = "lookup", !.pin = s]
             \/ me = [proc[p] EXCEPT !.pc = "open", !.pin = s, !.asks = None],
             Goto(p, me)
      PROVE  LInv'
  <2>1. s \in OnDisk /\ s \in RecordId /\ ledger[s].req = proc[p].req
    BY <1>1, <1>3, SelectedOwn
  <2>2. /\ me \in Process /\ me.req = proc[p].req /\ me.pin = s
        /\ me.pc = "open" \/ (me.pc = "lookup" /\ ledger[s].op = None)
    BY <1>1, <1>3, <2>1 DEF Process, Steps
  <2>3. RecoveryFits(p, me)
    BY <1>1, <2>2 DEF CallFits, RecoveryFits, Recovering
  <2>4. me.req.kind = "judgment" => Matching(me.req) # {}
    BY <1>3, <2>2 DEF Selected
  <2>5. SnapshotFits(me) /\ ReplyFits(me) /\ TurnFits(me)
    BY <2>1, <2>2, <2>4 DEF SnapshotFits, ReplyFits, TurnFits, AtRecord, Recovering
  <2> QED  BY <1>1, <1>3, <2>2, <2>3, <2>5, GotoFits DEF LoadStore, CallFits
<1> QED  BY <1>2, <1>3 DEF LoadStore

LEMMA LookupFits ==
  ASSUME IInv, LInv, NEW p \in Proc, Lookup(p)
  PROVE  LInv'
<1>1. proc[p] \in Process /\ CallFits(p, proc[p]) /\ proc[p].pc = "lookup"
  BY DEF Lookup, IInv, TypeOK, LInv, CallsFit
<1>2. CASE Goto(p, Idle)
  BY <1>1, <1>2, IdleSound, IdleFits, GotoFits DEF Lookup, Idle
<1>3. ASSUME NEW o \in Op, Goto(p, [proc[p] EXCEPT !.pc = "attach", !.op = o, !.asks = None])
      PROVE  LInv'
  <2> DEFINE me == [proc[p] EXCEPT !.pc = "attach", !.op = o, !.asks = None]
  <2>1. me \in Process /\ me.pc = "attach" /\ me.pin = proc[p].pin /\ me.req = proc[p].req
    BY <1>1 DEF Process, Steps
  <2> HIDE DEF me
  <2>2. CallFits(p, me)
    BY <1>1, <2>1
    DEF CallFits, SnapshotFits, ReplyFits, RecoveryFits, TurnFits, AtRecord, Recovering
  <2> QED  BY <1>1, <1>3, <2>1, <2>2, GotoFits DEF Lookup, me
<1> QED  BY <1>2, <1>3 DEF Lookup

LEMMA AttachFits ==
  ASSUME IInv, LInv, NEW p \in Proc, Attach(p)
  PROVE  LInv'
<1>1. /\ proc[p] \in Process /\ CallFits(p, proc[p]) /\ CallSound(proc[p])
      /\ proc[p].pc = "attach"
  BY DEF Attach, IInv, TypeOK, LInv, CallsFit, CallsSound
<1> DEFINE pin == proc[p].pin
           r   == [ledger[pin] EXCEPT !.op = proc[p].op, !.status = "active"]
           me  == [proc[p] EXCEPT !.pc = "open"]
<1>2. /\ pin \in OnDisk /\ pin \in RecordId /\ proc[p].op \in Op /\ p \in Resumer
      /\ ledger[pin].req = proc[p].req
      /\ ~Concurrent => ledger[pin].op = None
  BY <1>1 DEF CallFits, SnapshotFits, RecoveryFits, TurnFits, CallSound, OnDisk, Recovering
<1>3. /\ ledger[pin] \in Record /\ RecordFits(pin, ledger[pin])
  BY <1>2 DEF IInv, TypeOK, LInv, RecordsFit
<1>4. /\ r \in Record /\ r.status = "active" /\ r.op = proc[p].op
      /\ r.req = ledger[pin].req /\ r.error = ledger[pin].error
  BY <1>2, <1>3 DEF Record, RecordStatus
<1>5. me \in Process /\ me.pc = "open" /\ me.pin = pin /\ me.req = proc[p].req
  BY <1>1 DEF Process, Steps
<1>6. NoOverlap => ledger[pin].status = "prepared" /\ ~ledger[pin].error
  <2> HAVE NoOverlap
  <2>1. ledger[pin].op = None
    BY <1>2 DEF NoOverlap
  <2> QED  BY <1>2, <1>3, <2>1 DEF RecordFits, OnDisk, Record
<1>7. CASE /\ Readable(ledger[pin])
           /\ ledger[pin].op \in {None, proc[p].op}
           /\ Write(p, pin, r, me)
  <2> HIDE DEF pin, r, me
  <2>1. RecordFits(pin, r)
    BY <1>2, <1>3, <1>4, <1>6, NoneAssumption DEF RecordFits, Earned, OnDisk
  <2>2. ContinuesFrom(me, pin, r)
    BY <1>2, <1>4, <1>5 DEF ContinuesFrom, Terminal
  <2>3. Onward(ledger[pin], r)
    BY <1>4, <1>6, <1>7, Degrees DEF Onward, Terminal
  <2> QED  BY <1>1, <1>2, <1>4, <1>5, <1>7, <2>1, <2>2, <2>3, RewriteFits DEF Attach
<1>8. CASE Goto(p, Idle) /\ UNCHANGED ledger
  BY <1>1, <1>8, IdleSound, IdleFits, GotoFits DEF Attach, Idle
<1> QED  BY <1>7, <1>8 DEF Attach

LEMMA OpenFits ==
  ASSUME IInv, LInv, NEW p \in Proc, OpenRefused(p) \/ OpenExisting(p)
  PROVE  LInv'
<1>1. proc[p] \in Process /\ CallSound(proc[p]) /\ proc[p].pc = "open"
  BY DEF OpenRefused, OpenExisting, IInv, TypeOK, CallsSound
<1>2. CASE OpenRefused(p)
  BY <1>1, <1>2, IdleSound, IdleFits, GotoFits DEF OpenRefused, Idle
<1>3. CASE OpenExisting(p)
  <2>1. PICK c \in Selected(proc[p].req) :
          Goto(p, Continue(proc[p], c, ledger[c].key, ledger[c].op))
    BY <1>3 DEF OpenExisting, AdoptedKey
  <2>2. proc[p].req \in Request
    BY <1>1 DEF CallSound
  <2>3. /\ c \in OnDisk /\ c \in RecordId /\ ledger[c].req = proc[p].req
        /\ proc[p].req.kind = "judgment" => ledger[c].status # "failed"
    BY <1>3, <2>2, SelectedOwn DEF OpenExisting
  <2>4. ledger[c].key \in Key /\ ledger[c].op \in Op \union {None}
    BY <2>3 DEF IInv, TypeOK, Record, RecordsIdentified, OnDisk
  <2> DEFINE me == Continue(proc[p], c, ledger[c].key, ledger[c].op)
  <2>5. /\ me \in Process
        /\ \/ me = Idle
           \/ /\ me.pc \in {"post", "poll"}
              /\ me.pc = "post" => ledger[c].op = None
              /\ me.req = proc[p].req
              /\ me.pin = c
              /\ me.op = ledger[c].op
    BY <1>1, <2>2, <2>3, <2>4, ContinueTyped
  <2>6. me = Idle \/ me.fresh
    BY <1>1, ContinueFresh
  <2> HIDE DEF me
  <2>7. CallFits(p, me)
    BY <2>3, <2>5, <2>6, IdleFits DEF CallFits, SnapshotFits, ReplyFits, RecoveryFits, TurnFits, AtRecord, Recovering
  <2> QED  BY <1>1, <1>3, <2>1, <2>5, <2>7, GotoFits DEF OpenExisting, me
<1> QED  BY <1>2, <1>3

\* A new record meets no unsettled record of its request and, when calls keep
\* to the condition, no Judge request of its Run that did not fail.
LEMMA NewRecordAlone ==
  ASSUME IInv, LInv, NEW p \in Proc, proc[p].pc = "open", NEW q \in Request, proc[p].req = q,
         ~SelectionFails(q), Selected(q) = {}, NEW d \in OnDisk
  PROVE  /\ ledger[d].req = q => ledger[d].status \in Terminal
         /\ ( /\ Orderly
              /\ q.kind = "judgment"
              /\ ledger[d].req.kind = "judgment"
              /\ ledger[d].req.subject = q.subject )
            => ledger[d].status = "failed"
<1>1. /\ d \in RecordId /\ RecordFits(d, ledger[d]) /\ ledger[d].status \in RecordStatus
      /\ ledger[d].req \in Request
  BY DEF OnDisk, LInv, RecordsFit, IInv, TypeOK, Record, RecordsIdentified
<1>2. ledger[d].req = q => ledger[d].status \in Terminal
  <2>1. CASE q.kind = "explicit"
    BY <1>1, <2>1 DEF Selected, RecordFits, OnDisk
  <2>2. CASE q.kind # "explicit"
    BY <1>1, <2>2 DEF Selected, Matching
  <2> QED  BY <2>1, <2>2
<1>3. ASSUME Orderly, q.kind = "judgment", ledger[d].req.kind = "judgment",
             ledger[d].req.subject = q.subject
      PROVE  ledger[d].status = "failed"
  <2>1. Matching(q) = {}
    BY <1>3 DEF Selected
  <2>2. CASE ~Concurrent
    <3>1. JudgmentsOf(q) = {}
      BY <2>1, <2>2, <1>3 DEF LInv, CallsFit, CallFits, TurnFits
    <3> QED  BY <1>1, <1>3, <3>1 DEF JudgmentsOf
  <2>3. CASE OneRequestPerRun
    <3>1. ledger[d].req = q
      BY <1>1, <1>3, <2>3 DEF OneRequestPerRun
    <3> QED  BY <1>1, <1>3, <2>1, <3>1 DEF Matching, Retained, Terminal, RecordStatus
  <2> QED  BY <1>3, <2>2, <2>3 DEF Orderly
<1> QED  BY <1>2, <1>3

LEMMA OpenNewFits ==
  ASSUME IInv, LInv, NEW p \in Proc, OpenNew(p)
  PROVE  LInv'
<1>1. proc[p] \in Process /\ CallSound(proc[p]) /\ proc[p].pc = "open"
  BY DEF OpenNew, IInv, TypeOK, CallsSound
<1> DEFINE q == proc[p].req
<1>2. q \in Request /\ ~SelectionFails(q) /\ Selected(q) = {}
  BY <1>1 DEF CallSound, OpenNew
<1>3. PICK c \in FreshIds(q), k \in IF proc[p].key # None THEN {proc[p].key} ELSE FreshKeys :
        Write(p, c, [NoRecord EXCEPT !.req = q, !.key = k, !.status = "prepared"],
              Continue(proc[p], c, k, None))
  BY DEF OpenNew
<1>4. k \in Key
  <2>1. proc[p].key \in Key \union {None}
    BY <1>1 DEF Process
  <2> QED  BY <1>3, <2>1, SMT DEF FreshKeys
<1>5. c \in RecordId /\ c \notin OnDisk /\ (q.kind = "explicit" => c = q.subject)
  BY <1>2, RequestAssumption DEF FreshIds, Handles, Selected
<1>6. PICK r \in Record :
        /\ r = [NoRecord EXCEPT !.req = q, !.key = k, !.status = "prepared"]
        /\ r.status = "prepared" /\ r.req = q /\ r.op = None /\ r.error = FALSE
  <2> DEFINE new == [NoRecord EXCEPT !.req = q, !.key = k, !.status = "prepared"]
  <2>1. new \in Record /\ new.status = "prepared" /\ new.req = q /\ new.op = None
        /\ new.error = FALSE
    BY <1>2, <1>4 DEF NoRecord, Record, RecordStatus
  <2> QED  BY <2>1
<1>7. PICK me \in Process :
        /\ me = Continue(proc[p], c, k, None)
        /\ me = Idle \/ (me.pc = "post" /\ me.req = q /\ me.pin = c)
  BY <1>1, <1>2, <1>5, <1>4, ContinueTyped, NoneAssumption
<1>8. Write(p, c, r, me) /\ UNCHANGED <<reports, backend>>
  BY <1>3, <1>6, <1>7 DEF OpenNew
<1>9. RecordFits(c, r)
  BY <1>5, <1>6 DEF RecordFits
<1>10. CallFits(p, me)'
  <2>1. me = Idle \/ me.fresh
    BY <1>1, <1>7, ContinueFresh
  <2>2. ContinuesFrom(me, c, r)
    BY <1>6, <1>7, <2>1 DEF ContinuesFrom, Idle
  <2> QED  BY <1>5, <1>6, <1>8, <2>2, ContinuesFits
<1>11. /\ OnDisk' = OnDisk \union {c}
       /\ ledger'[c] = r
       /\ \A d \in OnDisk : ledger'[d] = ledger[d]
  BY <1>5, <1>6, <1>8 DEF Write, IInv, TypeOK, OnDisk
<1>12. Promises'
  <2>1. \A d \in OnDisk :
          /\ ledger[d].req = q => ledger[d].status \in Terminal
          /\ ( /\ Orderly
               /\ q.kind = "judgment"
               /\ ledger[d].req.kind = "judgment"
               /\ ledger[d].req.subject = q.subject )
             => ledger[d].status = "failed"
    BY <1>1, <1>2, NewRecordAlone
  <2>0. r.status = "prepared" /\ r.req = q
    BY <1>6
  <2>2. NoOverlap => OneActiveRecord'
    <3> SUFFICES ASSUME NoOverlap, NEW c1 \in OnDisk', NEW c2 \in OnDisk',
                        ledger'[c1].req = ledger'[c2].req,
                        ledger'[c1].status \notin Terminal, ledger'[c2].status \notin Terminal
                 PROVE  c1 = c2
      BY DEF OneActiveRecord
    <3>1. CASE c1 \in OnDisk /\ c2 \in OnDisk
      BY <1>11, <3>1 DEF LInv, Promises, OneActiveRecord
    <3>2. CASE c1 = c \/ c2 = c
      BY <1>11, <2>0, <2>1, <3>2
    <3> QED  BY <1>11, <3>1, <3>2
  <2>3. Orderly => JudgmentsExclusive'
    <3> SUFFICES ASSUME Orderly, NEW c1 \in OnDisk', NEW c2 \in OnDisk',
                        ledger'[c1].req.kind = "judgment", ledger'[c2].req.kind = "judgment",
                        ledger'[c1].req.subject = ledger'[c2].req.subject,
                        ledger'[c1].status # "failed", ledger'[c2].status # "failed"
                 PROVE  c1 = c2
      BY DEF JudgmentsExclusive
    <3>1. CASE c1 \in OnDisk /\ c2 \in OnDisk
      BY <1>11, <3>1 DEF LInv, Promises, JudgmentsExclusive
    <3>2. CASE c1 = c \/ c2 = c
      BY <1>11, <2>0, <2>1, <3>2
    <3> QED  BY <1>11, <3>1, <3>2
  <2>4. Quiet => ReportBeforeSuccess'
    BY <1>6, <1>8, <1>11 DEF LInv, Promises, ReportBeforeSuccess
  <2> QED  BY <2>2, <2>3, <2>4 DEF Promises
<1> QED  BY <1>1, <1>5, <1>6, <1>7, <1>8, <1>9, <1>10, <1>12, WriteFits

LEMMA BindFits ==
  ASSUME IInv, LInv, NEW p \in Proc, Bind(p)
  PROVE  LInv'
<1>1. /\ proc[p] \in Process /\ CallFits(p, proc[p]) /\ CallSound(proc[p])
      /\ proc[p].pc = "bind"
  BY DEF Bind, IInv, TypeOK, LInv, CallsFit, CallsSound
<1> DEFINE pin == proc[p].pin
           r   == [ledger[pin] EXCEPT !.op = proc[p].op, !.status = "active"]
           me  == [proc[p] EXCEPT !.pc = "poll"]
<1>2. /\ pin \in OnDisk /\ pin \in RecordId /\ proc[p].op \in Op
      /\ ledger[pin].req = proc[p].req
      /\ proc[p].fresh => ledger[pin].op = None
  BY <1>1 DEF CallFits, SnapshotFits, AtRecord, CallSound, OnDisk
<1>3. ledger[pin] \in Record /\ RecordFits(pin, ledger[pin])
  BY <1>2 DEF IInv, TypeOK, LInv, RecordsFit
<1>4. /\ r \in Record /\ r.status = "active" /\ r.op = proc[p].op
      /\ r.req = ledger[pin].req /\ r.error = ledger[pin].error
  BY <1>2, <1>3 DEF Record, RecordStatus
<1>5. /\ me \in Process /\ me.pc = "poll" /\ me.pin = pin /\ me.req = proc[p].req
      /\ me.op = proc[p].op /\ me.fresh = proc[p].fresh
  BY <1>1 DEF Process, Steps
<1>6. Transition(p, r, me) /\ UNCHANGED <<reports, backend>>
  BY DEF Bind
<1>7. ASSUME Commits(p)
      PROVE  RecordFits(pin, r) /\ ContinuesFrom(me, pin, r) /\ Onward(ledger[pin], r)
  <2>1. proc[p].fresh /\ ledger[pin].op = None /\ ledger[pin].status = "prepared"
    BY <1>2, <1>3, <1>7 DEF Commits, RecordFits, OnDisk
  <2>2. Readable(ledger[pin])
    BY <1>7 DEF Commits
  <2> HIDE DEF pin, r, me
  <2>3. RecordFits(pin, r)
    BY <1>2, <1>3, <1>4, <2>1, <2>2, NoneAssumption DEF RecordFits, Earned, OnDisk, Readable
  <2>4. ContinuesFrom(me, pin, r)
    BY <1>2, <1>4, <1>5, <2>1 DEF ContinuesFrom
  <2>5. Onward(ledger[pin], r)
    BY <1>4, <2>1 DEF Onward, Terminal
  <2> QED  BY <2>3, <2>4, <2>5
<1> HIDE DEF r, me
<1> QED  BY <1>1, <1>2, <1>4, <1>5, <1>6, <1>7, TransitionFits

\* A bound record's operation is one the service has accepted.
LEMMA BoundAccepted ==
  ASSUME IInv, NEW c \in RecordId, ledger[c].op # None
  PROVE  ledger[c].op \in Op /\ backend[ledger[c].op].status # "absent"
  BY DEF IInv, TypeOK, Record, BoundToAccepted

LEMMA PollFits ==
  ASSUME IInv, LInv, NEW p \in Proc, Poll(p)
  PROVE  LInv'
<1>1. /\ proc[p] \in Process /\ CallFits(p, proc[p]) /\ CallSound(proc[p])
      /\ proc[p].pc = "poll"
  BY DEF Poll, IInv, TypeOK, LInv, CallsFit, CallsSound
<1>2. /\ proc[p].op \in Op /\ proc[p].pin \in OnDisk /\ proc[p].pin \in RecordId
      /\ ledger[proc[p].pin].op = proc[p].op
  BY <1>1 DEF CallFits, SnapshotFits, CallSound, OnDisk
<1>3. backend[proc[p].op].status \in OpStatus
  BY <1>2 DEF IInv, TypeOK, Operation
<1>4. Earned(ledger[proc[p].pin].status, backend[proc[p].op].status)
  BY <1>2, NoneAssumption DEF LInv, RecordsFit, RecordFits
<1> DEFINE me == [proc[p] EXCEPT !.pc = "apply", !.reply = backend[proc[p].op].status]
<1>5. /\ me \in Process /\ me.pc = "apply" /\ me.reply = backend[proc[p].op].status
      /\ me.req = proc[p].req /\ me.pin = proc[p].pin /\ me.op = proc[p].op
      /\ me.fresh = proc[p].fresh
  BY <1>1, <1>3 DEF Process, Steps
<1>6. Goto(p, me) /\ UNCHANGED <<ledger, reports, backend>>
  BY DEF Poll
<1> HIDE DEF me
<1>7. SnapshotFits(me)
  BY <1>1, <1>4, <1>5 DEF CallFits, SnapshotFits, AtRecord, Earned, Terminal
<1>8. ReplyFits(me) /\ RecoveryFits(p, me) /\ TurnFits(me)
  BY <1>1, <1>5 DEF CallFits, ReplyFits, RecoveryFits, TurnFits, AtRecord, Recovering, Earned
<1> QED  BY <1>1, <1>5, <1>6, <1>7, <1>8, GotoFits DEF CallFits

\* The three steps that record what the service answered.
LEMMA NoteBasis ==
  ASSUME IInv, LInv, NEW p \in Proc, proc[p].pc \in {"apply", "mark"}
  PROVE  /\ proc[p] \in Process
         /\ proc[p].pin \in OnDisk /\ proc[p].pin \in RecordId /\ proc[p].op \in Op
         /\ ledger[proc[p].pin] \in Record
         /\ RecordFits(proc[p].pin, ledger[proc[p].pin])
         /\ ledger[proc[p].pin].req = proc[p].req
         /\ ledger[proc[p].pin].op = proc[p].op
         /\ SnapshotFits(proc[p])
         /\ ReplyFits(proc[p])
         /\ Earned(proc[p].reply, backend[proc[p].op].status)
<1>1. proc[p] \in Process /\ CallFits(p, proc[p]) /\ CallSound(proc[p])
  BY DEF IInv, TypeOK, LInv, CallsFit, CallsSound
<1>2. proc[p].pin \in OnDisk /\ proc[p].pin \in RecordId /\ proc[p].op \in Op
  BY <1>1 DEF CallSound, OnDisk
<1> QED
  BY <1>1, <1>2
  DEF CallFits, SnapshotFits, ReplyFits, AtRecord, IInv, TypeOK, LInv, RecordsFit

LEMMA NoteActiveFits ==
  ASSUME IInv, LInv, NEW p \in Proc, NoteActive(p)
  PROVE  LInv'
<1> DEFINE pin == proc[p].pin
           r   == [ledger[pin] EXCEPT !.status = "active"]
           me  == [proc[p] EXCEPT !.pc = "poll", !.reply = "absent"]
<1>1. /\ proc[p].pc = "apply" /\ proc[p].reply = "active"
      /\ Transition(p, r, me) /\ UNCHANGED <<reports, backend>>
  BY DEF NoteActive
<1>2. /\ proc[p] \in Process /\ pin \in OnDisk /\ pin \in RecordId /\ proc[p].op \in Op
      /\ ledger[pin] \in Record /\ RecordFits(pin, ledger[pin])
      /\ ledger[pin].req = proc[p].req /\ ledger[pin].op = proc[p].op
      /\ SnapshotFits(proc[p])
  BY <1>1, NoteBasis
<1>3. /\ r \in Record /\ r.status = "active" /\ r.op = proc[p].op
      /\ r.req = ledger[pin].req /\ r.error = ledger[pin].error
  BY <1>2 DEF Record, RecordStatus
<1>4. /\ me \in Process /\ me.pc = "poll" /\ me.pin = pin /\ me.req = proc[p].req
      /\ me.op = proc[p].op /\ me.fresh = proc[p].fresh
  BY <1>2 DEF Process, Steps, OpStatus
<1>5. ASSUME Commits(p)
      PROVE  RecordFits(pin, r) /\ ContinuesFrom(me, pin, r) /\ Onward(ledger[pin], r)
  <2>1. proc[p].fresh /\ ledger[pin].status \notin Terminal
    BY <1>1, <1>2, <1>5 DEF Commits, SnapshotFits
  <2>2. Readable(ledger[pin])
    BY <1>5 DEF Commits
  <2> HIDE DEF pin, r, me
  <2>3. RecordFits(pin, r)
    BY <1>2, <1>3, <2>1, <2>2, NoneAssumption DEF RecordFits, Earned, OnDisk, Terminal, Readable
  <2>4. ContinuesFrom(me, pin, r)
    BY <1>2, <1>3, <1>4, <2>1 DEF ContinuesFrom
  <2>5. Onward(ledger[pin], r)
    BY <1>2, <1>3, <2>1 DEF Onward, Terminal
  <2> QED  BY <2>3, <2>4, <2>5
<1> HIDE DEF r, me
<1> QED  BY <1>1, <1>2, <1>3, <1>4, <1>5, TransitionFits

LEMMA NoteFailedFits ==
  ASSUME IInv, LInv, NEW p \in Proc, NoteFailed(p)
  PROVE  LInv'
<1> DEFINE pin == proc[p].pin
           r   == FailedRecord(ledger[pin])
<1>1. /\ proc[p].pc = "apply" /\ proc[p].reply \in {"failed", "retryable", "gone"}
      /\ Transition(p, r, Idle) /\ UNCHANGED <<reports, backend>>
  BY DEF NoteFailed
<1>2. /\ pin \in OnDisk /\ pin \in RecordId /\ proc[p].op \in Op
      /\ ledger[pin] \in Record /\ RecordFits(pin, ledger[pin])
      /\ ledger[pin].op = proc[p].op
      /\ Earned(proc[p].reply, backend[proc[p].op].status)
  BY <1>1, NoteBasis
<1>3. /\ r \in Record /\ r.status = "failed" /\ r.op = proc[p].op
      /\ r.req = ledger[pin].req /\ r.error = TRUE
  BY <1>2 DEF FailedRecord, Record, RecordStatus
<1> HIDE DEF pin, r
<1>4. RecordFits(pin, r)
  BY <1>1, <1>2, <1>3, NoneAssumption DEF RecordFits, Earned, OnDisk
<1>5. Onward(ledger[pin], r)
  BY <1>2, <1>3 DEF Onward, Terminal
<1>6. ContinuesFrom(Idle, pin, r)
  BY DEF ContinuesFrom, Idle
<1> QED  BY <1>1, <1>2, <1>3, <1>4, <1>5, <1>6, IdleSound, TransitionFits DEF pin

LEMMA NoteSucceededFits ==
  ASSUME IInv, LInv, NEW p \in Proc, NoteSucceeded(p)
  PROVE  LInv'
<1> DEFINE pin == proc[p].pin
           r   == [ledger[pin] EXCEPT !.status = "succeeded", !.error = FALSE,
                                      !.locator = (proc[p].req.kind = "judgment")]
<1>1. /\ proc[p].reply = "succeeded"
      /\ proc[p].pc = IF proc[p].req.kind = "judgment" THEN "mark" ELSE "apply"
      /\ Transition(p, r, Idle) /\ UNCHANGED <<reports, backend>>
  BY DEF NoteSucceeded, Accepted
<1>2. /\ pin \in OnDisk /\ pin \in RecordId /\ proc[p].op \in Op
      /\ ledger[pin] \in Record /\ RecordFits(pin, ledger[pin])
      /\ ledger[pin].req = proc[p].req /\ ledger[pin].op = proc[p].op
      /\ SnapshotFits(proc[p]) /\ ReplyFits(proc[p])
      /\ Earned(proc[p].reply, backend[proc[p].op].status)
  BY <1>1, NoteBasis
<1>3. /\ r \in Record /\ r.status = "succeeded" /\ r.op = proc[p].op
      /\ r.req = ledger[pin].req /\ r.error = FALSE
      /\ r.locator = (r.req.kind = "judgment")
  BY <1>2 DEF Record, RecordStatus
<1>4. ASSUME Commits(p)
      PROVE  RecordFits(pin, r) /\ Onward(ledger[pin], r)
  <2>1. proc[p].req.kind = "judgment" =>
          ledger[pin].status # "failed" /\ (Quiet => reports[proc[p].req.subject] = proc[p].op)
    BY <1>1, <1>2, <1>4 DEF Commits, SnapshotFits, ReplyFits, AtRecord
  <2> HIDE DEF pin, r
  <2>2. RecordFits(pin, r)
    BY <1>1, <1>2, <1>3, NoneAssumption DEF RecordFits, Earned, OnDisk
  <2>3. Onward(ledger[pin], r)
    BY <1>2, <1>3, <2>1 DEF Onward, Terminal
  <2> QED  BY <2>2, <2>3
<1> HIDE DEF r
<1>5. ContinuesFrom(Idle, pin, r)
  BY DEF ContinuesFrom, Idle
<1> QED  BY <1>1, <1>2, <1>3, <1>4, <1>5, IdleSound, TransitionFits

\* A Run's report is saved for the record that will be marked: among the
\* records and the calls of the Run no other one has a success to report.
LEMMA SuccessIsOwn ==
  ASSUME IInv, LInv, Quiet, NEW p \in Proc, proc[p].pc \in {"apply", "mark"},
         proc[p].reply = "succeeded", proc[p].req.kind = "judgment"
  PROVE  ledger[proc[p].pin].status # "failed"
<1>1. /\ RecordFits(proc[p].pin, ledger[proc[p].pin])
      /\ ledger[proc[p].pin].op = proc[p].op
      /\ proc[p].op \in Op
      /\ SnapshotFits(proc[p])
      /\ Earned(proc[p].reply, backend[proc[p].op].status)
  BY NoteBasis
<1>2. CASE ~Concurrent
  <2>1. proc[p].fresh
    BY <1>2 DEF LInv, CallsFit, CallFits, TurnFits, AtRecord, Recovering
  <2> QED  BY <1>1, <2>1 DEF SnapshotFits, AtRecord
<1>3. CASE ~Expiry
  <2>1. backend[proc[p].op].status = "succeeded"
    BY <1>1, <1>3 DEF Earned, LInv, OperationsFit
  <2> QED  BY <1>1, <2>1, NoneAssumption DEF RecordFits, Earned
<1> QED  BY <1>2, <1>3 DEF Quiet

LEMMA SaveReportFits ==
  ASSUME IInv, LInv, NEW p \in Proc, SaveReport(p)
  PROVE  LInv'
<1>1. /\ proc[p].pc = "apply" /\ proc[p].reply = "succeeded" /\ proc[p].req.kind = "judgment"
      /\ UNCHANGED <<ledger, backend>>
  BY DEF SaveReport
<1>2. /\ proc[p] \in Process /\ proc[p].pin \in OnDisk /\ proc[p].op \in Op
      /\ ledger[proc[p].pin].req = proc[p].req /\ ledger[proc[p].pin].op = proc[p].op
      /\ CallFits(p, proc[p]) /\ CallSound(proc[p])
  BY <1>1, NoteBasis DEF LInv, CallsFit, IInv, CallsSound
<1>3. CASE Goto(p, Idle) /\ UNCHANGED reports
  BY <1>1, <1>3, IdleSound, IdleFits, GotoFits DEF Idle
<1>4. CASE /\ reports' = [reports EXCEPT ![proc[p].req.subject] = proc[p].op]
           /\ Goto(p, [proc[p] EXCEPT !.pc = "mark"])
  <2> DEFINE run == proc[p].req.subject
             me  == [proc[p] EXCEPT !.pc = "mark"]
  <2>1. /\ me \in Process /\ me.pc = "mark" /\ me.reply = "succeeded"
        /\ me.req = proc[p].req /\ me.pin = proc[p].pin /\ me.op = proc[p].op
        /\ me.fresh = proc[p].fresh
    BY <1>1, <1>2 DEF Process, Steps
  <2>2. proc'[p] = me /\ \A x \in Proc \ {p} : proc'[x] = proc[x]
    BY <1>4 DEF Goto, IInv, TypeOK
  <2> HIDE DEF me
  <2>3. run \in Runs
    BY <1>1, <1>2 DEF Runs, CallSound
  <2>4. reports'[run] = proc[p].op /\ \A s \in Runs \ {run} : reports'[s] = reports[s]
    BY <1>4, <2>3 DEF IInv, TypeOK
  <2>5. OnDisk' = OnDisk
    BY <1>1 DEF OnDisk
  <2>6. Quiet => \A c \in OnDisk : /\ ledger[c].req.kind = "judgment"
                                   /\ ledger[c].req.subject = run
                                   /\ ledger[c].status # "failed"
                                   => c = proc[p].pin
    BY <1>1, <1>2, SuccessIsOwn, Degrees DEF LInv, Promises, JudgmentsExclusive
  <2>7. TurnsTaken'
    BY <1>1, <2>1, <2>2, TurnsKept
  <2>8. RecordsFit' /\ OperationsFit'
    BY <1>1 DEF LInv, RecordsFit, RecordFits, OperationsFit
  <2>9. CallsFit'
    <3> SUFFICES ASSUME NEW x \in Proc PROVE CallFits(x, proc[x])'
      BY DEF CallsFit
    <3>1. CASE x = p
      <4>1. SnapshotFits(me) /\ RecoveryFits(p, me) /\ TurnFits(me)
        BY <1>1, <1>2, <2>1 DEF CallFits, SnapshotFits, RecoveryFits, TurnFits, AtRecord, Recovering
      <4>2. ReplyFits(proc[x])'
        BY <1>1, <1>2, <2>1, <2>2, <2>4, <3>1 DEF CallFits, ReplyFits
      <4> QED
        BY <1>1, <2>1, <2>2, <2>5, <3>1, <4>1, <4>2
        DEF CallFits, SnapshotFits, RecoveryFits, TurnFits, AtRecord, Recovering
    <3>2. CASE x # p
      <4>1. CallFits(x, proc[x]) /\ proc'[x] = proc[x]
        BY <2>2, <3>2 DEF LInv, CallsFit
      <4>2. ASSUME Quiet, proc[x].pc = "mark"
            PROVE  reports'[proc[x].req.subject] = proc[x].op
        <5>1. /\ proc[x].reply = "succeeded" /\ proc[x].req.kind = "judgment"
              /\ reports[proc[x].req.subject] = proc[x].op
          BY <4>1, <4>2 DEF CallFits, ReplyFits
        <5>2. /\ proc[x].pin \in OnDisk
              /\ ledger[proc[x].pin].req = proc[x].req /\ ledger[proc[x].pin].op = proc[x].op
              /\ ledger[proc[x].pin].status # "failed"
          BY <4>2, <5>1, NoteBasis, SuccessIsOwn
        <5>3. proc[x].req.subject \in Runs
          BY <4>2, <5>1 DEF Runs, IInv, CallsSound, CallSound
        <5>4. CASE proc[x].req.subject = run
          BY <1>2, <2>4, <2>6, <4>2, <5>1, <5>2, <5>4
        <5>5. CASE proc[x].req.subject # run
          BY <2>4, <5>1, <5>3, <5>5
        <5> QED  BY <5>4, <5>5
      <4>3. ReplyFits(proc[x])'
        BY <1>1, <4>1, <4>2 DEF CallFits, ReplyFits
      <4> QED
        BY <1>1, <2>5, <4>1, <4>3
        DEF CallFits, SnapshotFits, RecoveryFits, TurnFits, Matching, JudgmentsOf, Retained
    <3> QED  BY <3>1, <3>2
  <2>10. Promises'
    <3>1. NoOverlap => OneActiveRecord'
      BY <1>1, <2>5 DEF LInv, Promises, OneActiveRecord
    <3>2. Orderly => JudgmentsExclusive'
      BY <1>1, <2>5 DEF LInv, Promises, JudgmentsExclusive
    <3>3. Quiet => ReportBeforeSuccess'
      <4> SUFFICES ASSUME Quiet, NEW c \in OnDisk, ledger[c].req.kind = "judgment",
                          ledger[c].status = "succeeded"
                   PROVE  reports'[ledger[c].req.subject] = ledger[c].op
        BY <1>1, <2>5 DEF ReportBeforeSuccess
      <4>1. reports[ledger[c].req.subject] = ledger[c].op
        BY DEF LInv, Promises, ReportBeforeSuccess
      <4>2. ledger[c].req.subject \in Runs
        BY DEF Runs, IInv, RecordsIdentified, OnDisk
      <4>3. CASE ledger[c].req.subject = run
        BY <1>2, <2>4, <2>6, <4>3
      <4>4. CASE ledger[c].req.subject # run
        BY <2>4, <4>1, <4>2, <4>4
      <4> QED  BY <4>3, <4>4
    <3> QED  BY <3>1, <3>2, <3>3 DEF Promises
  <2> QED  BY <2>7, <2>8, <2>9, <2>10 DEF LInv
<1> QED  BY <1>3, <1>4 DEF SaveReport

\* What the service has once answered, and what the ledger recorded of it,
\* stays true while operations move on.
Advances(b1, b2) ==
  \/ b2 = b1
  \/ b1 \in {"absent", "active"} /\ b2 # "gone"
  \/ b2 = "gone" /\ b1 # "absent"

LEMMA EarnedLasts ==
  ASSUME NEW s, NEW b1, NEW b2, Earned(s, b1), Advances(b1, b2),
         b1 \in OpStatus \ {"absent"}, b1 = "active" => b2 # "gone"
  PROVE  Earned(s, b2)
  BY DEF Earned, Advances, OpStatus

LEMMA BackendFits ==
  ASSUME IInv, LInv, UNCHANGED <<ledger, reports>>,
         \A x \in Op : /\ Advances(backend[x].status, backend'[x].status)
                       /\ backend[x].status = "active" => backend'[x].status # "gone"
                       /\ backend[x].status # "absent" => backend'[x].status # "absent"
                       /\ backend'[x].status = "gone" => Expiry
                       /\ backend[x].status # "absent" => /\ backend'[x].req = backend[x].req
                                                          /\ backend'[x].by = backend[x].by
                       /\ backend[x].status = "absent" /\ backend'[x].status # "absent" =>
                            backend'[x].req = ledger[backend'[x].by].req
  PROVE  /\ RecordsFit' /\ OperationsFit' /\ Promises'
         /\ \A p \in Proc : CallFits(p, proc[p]) =>
              /\ SnapshotFits(proc[p]) /\ RecoveryFits(p, proc[p]) /\ TurnFits(proc[p])
              /\ proc[p].pc \in {"apply", "mark"} =>
                   Earned(proc[p].reply, backend'[proc[p].op].status)
<1>1. OnDisk' = OnDisk
  BY DEF OnDisk
<1>2. \A x \in Op : backend[x].status \in OpStatus
  BY DEF IInv, TypeOK, Operation
<1>3. RecordsFit'
  <2> SUFFICES ASSUME NEW c \in RecordId PROVE RecordFits(c, ledger[c])'
    BY DEF RecordsFit
  <2>1. RecordFits(c, ledger[c])
    BY DEF LInv, RecordsFit
  <2>2. ledger[c].op # None => Earned(ledger[c].status, backend'[ledger[c].op].status)
    BY <1>2, <2>1, BoundAccepted, EarnedLasts DEF RecordFits
  <2> QED  BY <2>1, <2>2 DEF RecordFits, Earned
<1>4. OperationsFit'
  BY DEF LInv, OperationsFit
<1>5. Promises'
  BY <1>1 DEF LInv, Promises, OneActiveRecord, JudgmentsExclusive, ReportBeforeSuccess
<1>6. ASSUME NEW p \in Proc, CallFits(p, proc[p]), proc[p].pc \in {"apply", "mark"}
      PROVE  Earned(proc[p].reply, backend'[proc[p].op].status)
  <2>1. /\ proc[p].pin \in RecordId /\ ledger[proc[p].pin].op = proc[p].op
        /\ proc[p].op \in Op /\ Earned(proc[p].reply, backend[proc[p].op].status)
    BY <1>6, NoteBasis
  <2>2. backend[proc[p].op].status # "absent"
    BY <2>1, BoundAccepted, NoneAssumption
  <2> QED  BY <1>2, <2>1, <2>2, EarnedLasts
<1> QED  BY <1>3, <1>4, <1>5, <1>6 DEF CallFits

LEMMA ServiceFits ==
  ASSUME IInv, LInv, NEW o \in Op, Finish(o) \/ Expire(o)
  PROVE  LInv'
<1>1. UNCHANGED <<ledger, reports, proc>> /\ backend[o].status # "absent"
  BY DEF Finish, Expire
<1>2. PICK s \in OpStatus \ {"absent"} :
        /\ backend' = [backend EXCEPT ![o].status = s]
        /\ \/ backend[o].status = "active" /\ s # "gone"
           \/ backend[o].status # "active" /\ s = "gone" /\ Expiry
  BY DEF Finish, Expire, OpStatus
<1>3. \A x \in Op : /\ backend'[x].req = backend[x].req /\ backend'[x].by = backend[x].by
                    /\ backend'[x].status = IF x = o THEN s ELSE backend[x].status
  BY <1>2 DEF IInv, TypeOK, Operation
<1>4. \A x \in Op : backend[x].status = "gone" => Expiry
  BY DEF LInv, OperationsFit
<1>5. /\ RecordsFit' /\ OperationsFit' /\ Promises'
      /\ \A p \in Proc : CallFits(p, proc[p]) =>
           /\ SnapshotFits(proc[p]) /\ RecoveryFits(p, proc[p]) /\ TurnFits(proc[p])
           /\ proc[p].pc \in {"apply", "mark"} =>
                Earned(proc[p].reply, backend'[proc[p].op].status)
  BY <1>1, <1>2, <1>3, <1>4, BackendFits DEF Advances
<1>6. CallsFit'
  <2> SUFFICES ASSUME NEW p \in Proc PROVE CallFits(p, proc[p])'
    BY DEF CallsFit
  <2>1. CallFits(p, proc[p])
    BY DEF LInv, CallsFit
  <2> QED
    BY <1>1, <1>5, <2>1
    DEF CallFits, SnapshotFits, ReplyFits, RecoveryFits, TurnFits, Earned, OnDisk, Matching,
        JudgmentsOf, Retained
<1>7. TurnsTaken'
  BY <1>1 DEF LInv, TurnsTaken
<1> QED  BY <1>5, <1>6, <1>7 DEF LInv

LEMMA PostFits ==
  ASSUME IInv, LInv, NEW p \in Proc, Post(p)
  PROVE  LInv'
<1>1. /\ proc[p] \in Process /\ CallFits(p, proc[p]) /\ CallSound(proc[p])
      /\ proc[p].pc = "post"
  BY DEF Post, IInv, TypeOK, LInv, CallsFit, CallsSound
<1>2. /\ proc[p].req \in Request /\ proc[p].pin \in OnDisk /\ proc[p].pin \in RecordId
      /\ ledger[proc[p].pin].req = proc[p].req
  BY <1>1 DEF CallFits, SnapshotFits, AtRecord, CallSound, OnDisk
<1>3. PICK o \in Accepting(proc[p].key), lost \in BOOLEAN :
        /\ backend' = IF backend[o].status # "absent" THEN backend
                      ELSE [backend EXCEPT ![o] = [key |-> proc[p].key, by |-> proc[p].pin,
                                                   req |-> proc[p].req, status |-> "active"]]
        /\ IF lost THEN UNCHANGED proc
           ELSE Goto(p, [proc[p] EXCEPT !.pc = "bind", !.op = o])
  BY DEF Post
<1>4. o \in Op /\ UNCHANGED <<ledger, reports>>
  BY DEF Accepting, Post
<1>5. \A x \in Op :
        \/ backend'[x] = backend[x]
        \/ /\ backend[x].status = "absent"
           /\ backend'[x].status = "active"
           /\ backend'[x].req = proc[p].req
           /\ backend'[x].by = proc[p].pin
  BY <1>3, <1>4 DEF IInv, TypeOK
<1>6. \A x \in Op : backend[x].status = "gone" => Expiry
  BY DEF LInv, OperationsFit
<1>7. /\ RecordsFit' /\ OperationsFit' /\ Promises'
      /\ \A x \in Proc : CallFits(x, proc[x]) =>
           /\ SnapshotFits(proc[x]) /\ RecoveryFits(x, proc[x]) /\ TurnFits(proc[x])
           /\ proc[x].pc \in {"apply", "mark"} =>
                Earned(proc[x].reply, backend'[proc[x].op].status)
  <2>1. \A x \in Op : /\ Advances(backend[x].status, backend'[x].status)
                      /\ backend[x].status = "active" => backend'[x].status # "gone"
                      /\ backend[x].status # "absent" => backend'[x].status # "absent"
                      /\ backend'[x].status = "gone" => Expiry
                      /\ backend[x].status # "absent" => /\ backend'[x].req = backend[x].req
                                                         /\ backend'[x].by = backend[x].by
                      /\ backend[x].status = "absent" /\ backend'[x].status # "absent" =>
                           backend'[x].req = ledger[backend'[x].by].req
    BY <1>2, <1>5, <1>6 DEF Advances
  <2> QED  BY <1>4, <2>1, BackendFits
<1>8. \A x \in Proc :
        \/ proc'[x] = proc[x]
        \/ /\ x = p
           /\ proc'[x].pc = "bind" /\ proc'[x].req = proc[p].req /\ proc'[x].pin = proc[p].pin
           /\ proc'[x].fresh = proc[p].fresh
  <2> DEFINE me == [proc[p] EXCEPT !.pc = "bind", !.op = o]
  <2>1. me.pc = "bind" /\ me.req = proc[p].req /\ me.pin = proc[p].pin /\ me.fresh = proc[p].fresh
    BY <1>1 DEF Process
  <2>2. UNCHANGED proc \/ Goto(p, me)
    BY <1>3
  <2> HIDE DEF me
  <2> QED  BY <2>1, <2>2 DEF Goto, IInv, TypeOK
<1>9. CallsFit'
  <2> SUFFICES ASSUME NEW x \in Proc PROVE CallFits(x, proc[x])'
    BY DEF CallsFit
  <2>1. CallFits(x, proc[x])
    BY DEF LInv, CallsFit
  <2>2. CASE proc'[x] = proc[x]
    BY <1>4, <1>7, <2>1, <2>2
    DEF CallFits, SnapshotFits, ReplyFits, RecoveryFits, TurnFits, Earned, OnDisk, Matching,
        JudgmentsOf, Retained
  <2>3. CASE proc'[x] # proc[x]
    BY <1>1, <1>4, <1>8, <2>3
    DEF CallFits, SnapshotFits, ReplyFits, RecoveryFits, TurnFits, AtRecord, Recovering
  <2> QED  BY <2>2, <2>3
<1>10. TurnsTaken'
  <2>1. \A x \in Proc : proc'[x].pc = "idle" <=> proc[x].pc = "idle"
    BY <1>1, <1>8
  <2> QED  BY <2>1 DEF LInv, TurnsTaken
<1> QED  BY <1>7, <1>9, <1>10 DEF LInv

LEMMA FaultsFit ==
  ASSUME IInv, LInv, NEW p \in Proc, Fail(p) \/ (p \in Caller /\ Crash(p))
  PROVE  LInv'
<1>1. Goto(p, Idle) /\ UNCHANGED <<ledger, reports, backend>>
  BY DEF Fail, Crash
<1> QED  BY <1>1, IdleSound, IdleFits, GotoFits DEF Idle

----------------------------------------------------------------------------

LEMMA NextLInv == IInv /\ LInv /\ [Next]_vars => LInv'
<1> SUFFICES ASSUME IInv, LInv, [Next]_vars PROVE LInv'
  OBVIOUS
<1>1. CASE \E p \in Caller, q \in Request :
             CallCase(p, q) \/ CallJudgeFirst(p, q) \/ CallJudgeResume(p, q) \/ CallJudgeAgain(p, q)
  BY <1>1, CallsStartFit
<1>2. CASE \E p \in Resumer, c \in RecordId : Resume(p, c)
  BY <1>2, ResumeFits
<1>3. ASSUME NEW p \in Proc, Advance(p) PROVE LInv'
  <2>1. CASE LoadStore(p) \/ Lookup(p) \/ Attach(p)
    BY <2>1, LoadStoreFits, LookupFits, AttachFits
  <2>2. CASE OpenRefused(p) \/ OpenExisting(p) \/ OpenNew(p)
    BY <2>2, OpenFits, OpenNewFits
  <2>3. CASE Post(p) \/ Bind(p) \/ Poll(p)
    BY <2>3, PostFits, BindFits, PollFits
  <2>4. CASE NoteActive(p) \/ NoteFailed(p) \/ SaveReport(p) \/ NoteSucceeded(p)
    BY <2>4, NoteActiveFits, NoteFailedFits, SaveReportFits, NoteSucceededFits
  <2> QED  BY <1>3, <2>1, <2>2, <2>3, <2>4 DEF Advance
<1>4. CASE (\E p \in Proc : Fail(p)) \/ (\E p \in Caller : Crash(p))
  BY <1>4, FaultsFit DEF Proc
<1>5. CASE \E o \in Op : Finish(o) \/ Expire(o)
  BY <1>5, ServiceFits
<1>6. CASE UNCHANGED vars
  BY <1>6
  DEF vars, LInv, RecordsFit, RecordFits, OperationsFit, CallsFit, CallFits, SnapshotFits,
      ReplyFits, RecoveryFits, TurnFits, TurnsTaken, Promises, OneActiveRecord,
      JudgmentsExclusive, ReportBeforeSuccess, Earned, OnDisk, Matching, JudgmentsOf, Retained
<1> QED  BY <1>1, <1>2, <1>3, <1>4, <1>5, <1>6 DEF Next

\* The second invariant holds in every reachable state.
THEOREM LedgerInvariance == Spec => []LInv
<1>1. IInv /\ LInv /\ [Next]_vars => (IInv /\ LInv)'
  BY NextIInv, NextLInv
<1>2. Init => IInv /\ LInv
  BY InitIInv, InitLInv
<1> QED  BY <1>1, <1>2, PTL DEF Spec

\* Whatever lost responses, crashes and overlapping calls do, every record
\* file passes validate_stored and no request has two unsettled records --
\* provided no resume overlaps another call (attach_recovered_operation does
\* not compare the record with its lookup, which ledger_attach shows).
THEOREM ScanSafe ==
  ASSUME NoOverlap
  PROVE  Spec => []ScanNeverFails
<1>1. LInv => ScanNeverFails
  BY DEF LInv, Promises, ScanNeverFails, AllReadable, Readable, RecordsFit, RecordFits, OnDisk
<1> QED  BY <1>1, LedgerInvariance, PTL

----------------------------------------------------------------------------
(* Bound to the operation of the record's own key.                         *)

\* What a recovery knows when nothing overlaps it: the record it has read is
\* the one that the store selects, and the lookup is made for it.
CallOwn(me) ==
  ~Concurrent =>
    /\ me.pc = "load" => me.asks = me.pin /\ ledger[me.pin].status \notin Terminal
    /\ me.pc = "lookup" => me.asks = me.pin
    /\ me.pc = "attach" => backend[me.op].by = me.pin

CallsOwn == \A p \in Proc : CallOwn(proc[p])

KInv == CallsOwn /\ (NoOverlap => BoundToOwnOperation)

\* What a step writes to the record of its call.
LEMMA WriteChanges ==
  ASSUME IInv, NEW p \in Proc, NEW d \in OnDisk, NEW r, NEW me,
         r.key = ledger[d].key, r.op \in {ledger[d].op, proc[p].op},
         r.op = ledger[d].op \/ ((Attach(p) \/ Bind(p)) /\ d = proc[p].pin),
         \/ Write(p, d, r, me)
         \/ UNCHANGED ledger,
         NEW c \in OnDisk
  PROVE  /\ ledger'[c].key = ledger[c].key
         /\ \/ ledger'[c].op = ledger[c].op
            \/ (Attach(p) \/ Bind(p)) /\ c = proc[p].pin /\ ledger'[c].op = proc[p].op
  BY DEF Write, IInv, TypeOK, OnDisk

\* A call changes no key, and no operation but by the two steps that bind.
LEMMA StepBinds ==
  ASSUME IInv, NEW p \in Proc, Advance(p), NEW c \in OnDisk
  PROVE  /\ ledger'[c].key = ledger[c].key
         /\ \/ ledger'[c].op = ledger[c].op
            \/ (Attach(p) \/ Bind(p)) /\ c = proc[p].pin /\ ledger'[c].op = proc[p].op
<1> DEFINE pin == proc[p].pin
<1>1. CASE UNCHANGED ledger
  BY <1>1
<1>2. ASSUME Attach(p) \/ Bind(p) \/ NoteActive(p) \/ NoteFailed(p) \/ NoteSucceeded(p)
      PROVE  pin \in OnDisk /\ ledger[pin] \in Record
  BY <1>2
  DEF Attach, Bind, NoteActive, NoteFailed, NoteSucceeded, Accepted, IInv, TypeOK, CallsSound,
      CallSound, OnDisk
<1>3. CASE Attach(p) \/ Bind(p)
  <2> DEFINE r == [ledger[pin] EXCEPT !.op = proc[p].op, !.status = "active"]
  <2>1. r.key = ledger[pin].key /\ r.op = proc[p].op
    BY <1>2, <1>3 DEF Record
  <2>2. (\E me : Write(p, pin, r, me)) \/ UNCHANGED ledger
    BY <1>3 DEF Attach, Bind, Transition
  <2> HIDE DEF r
  <2> QED  BY <1>2, <1>3, <2>1, <2>2, WriteChanges
<1>4. CASE NoteActive(p)
  <2> DEFINE r == [ledger[pin] EXCEPT !.status = "active"]
  <2>1. r.key = ledger[pin].key /\ r.op = ledger[pin].op
    BY <1>2, <1>4 DEF Record
  <2>2. (\E me : Write(p, pin, r, me)) \/ UNCHANGED ledger
    BY <1>4 DEF NoteActive, Transition
  <2> HIDE DEF r
  <2> QED  BY <1>2, <1>4, <2>1, <2>2, WriteChanges
<1>5. CASE NoteFailed(p)
  <2> DEFINE r == FailedRecord(ledger[pin])
  <2>1. r.key = ledger[pin].key /\ r.op = ledger[pin].op
    BY <1>2, <1>5 DEF FailedRecord, Record
  <2>2. (\E me : Write(p, pin, r, me)) \/ UNCHANGED ledger
    BY <1>5 DEF NoteFailed, Transition
  <2> HIDE DEF r
  <2> QED  BY <1>2, <1>5, <2>1, <2>2, WriteChanges
<1>6. CASE NoteSucceeded(p)
  <2> DEFINE r == [ledger[pin] EXCEPT !.status = "succeeded", !.error = FALSE,
                                      !.locator = (proc[p].req.kind = "judgment")]
  <2>1. r.key = ledger[pin].key /\ r.op = ledger[pin].op
    BY <1>2, <1>6 DEF Record
  <2>2. (\E me : Write(p, pin, r, me)) \/ UNCHANGED ledger
    BY <1>6 DEF NoteSucceeded, Transition
  <2> HIDE DEF r
  <2> QED  BY <1>2, <1>6, <2>1, <2>2, WriteChanges
<1>7. CASE OpenNew(p)
  <2>1. PICK d, r, me : d \in FreshIds(proc[p].req) /\ Write(p, d, r, me)
    BY <1>7 DEF OpenNew
  <2>2. d # c
    BY <1>7, <2>1 DEF OpenNew, FreshIds, Selected
  <2> QED  BY <2>1, <2>2 DEF Write, IInv, TypeOK, OnDisk
<1> QED
  BY <1>1, <1>3, <1>4, <1>5, <1>6, <1>7
  DEF Advance, LoadStore, Lookup, OpenRefused, OpenExisting, Post, Poll, SaveReport

\* A new record is not bound.
LEMMA NewUnbound ==
  ASSUME IInv, NEW p \in Proc, Advance(p), NEW c \in RecordId \ OnDisk
  PROVE  ledger'[c].op = None
<1>1. ledger[c].op = None
  BY DEF IInv, RecordsIdentified, NoRecord, OnDisk
<1>2. CASE OpenNew(p)
  <2>1. PICK d, k, me :
          Write(p, d, [NoRecord EXCEPT !.req = proc[p].req, !.key = k, !.status = "prepared"], me)
    BY <1>2 DEF OpenNew
  <2> QED  BY <1>1, <2>1 DEF Write, IInv, TypeOK, NoRecord
<1>3. CASE ~OpenNew(p)
  <2>1. Attach(p) \/ Bind(p) \/ NoteActive(p) \/ NoteFailed(p) \/ NoteSucceeded(p) =>
          proc[p].pin # c
    BY DEF Attach, Bind, NoteActive, NoteFailed, NoteSucceeded, Accepted, IInv, CallsSound, CallSound
  <2>2. ledger'[c] = ledger[c]
    BY <1>3, <2>1
    DEF Advance, LoadStore, Lookup, Attach, OpenRefused, OpenExisting, Post, Bind, Poll, NoteActive,
        NoteFailed, SaveReport, NoteSucceeded, Transition, Write, IInv, TypeOK
  <2> QED  BY <1>1, <2>2
<1> QED  BY <1>2, <1>3

\* An accepted operation keeps its key and the record it was started under.
LEMMA AcceptedKept ==
  ASSUME IInv, [Next]_vars, NEW o \in Op, backend[o].status # "absent"
  PROVE  backend'[o].key = backend[o].key /\ backend'[o].by = backend[o].by
<1>1. ASSUME NEW p \in Proc, Post(p)
      PROVE  backend'[o] = backend[o]
  BY <1>1 DEF Post, IInv, TypeOK
<1>2. ASSUME NEW x \in Op, Finish(x) \/ Expire(x)
      PROVE  backend'[o].key = backend[o].key /\ backend'[o].by = backend[o].by
  BY <1>2 DEF Finish, Expire, IInv, TypeOK, Operation
<1>3. CASE UNCHANGED backend
  BY <1>3
<1> QED
  BY <1>1, <1>2, <1>3
  DEF Next, vars, CallCase, CallJudgeFirst, CallJudgeResume, CallJudgeAgain, Resume, Advance,
      LoadStore, Lookup, Attach, OpenRefused, OpenExisting, OpenNew, Bind, Poll, NoteActive,
      NoteFailed, SaveReport, NoteSucceeded, Fail, Crash

\* The store selects the record that was read, when nothing overlaps.
LEMMA SelectsRead ==
  ASSUME IInv, LInv, KInv, ~Concurrent, NEW p \in Proc, proc[p].pc = "load",
         ~SelectionFails(proc[p].req), NEW s \in Selected(proc[p].req)
  PROVE  s = proc[p].pin /\ proc[p].asks = proc[p].pin
<1> DEFINE c == proc[p].pin
           q == proc[p].req
<1>1. /\ c \in OnDisk /\ c \in RecordId /\ q \in Request
      /\ ledger[c].req = q /\ proc[p].asks = c /\ ledger[c].status \notin Terminal
  BY DEF IInv, CallsSound, CallSound, LInv, CallsFit, CallFits, SnapshotFits, Recovering, KInv,
         CallsOwn, CallOwn, OnDisk
<1>2. s \in OnDisk /\ ledger[s].req = q /\ (q.kind = "judgment" => ledger[s].status # "failed")
  BY <1>1, SelectedOwn
<1>3. NoOverlap /\ Orderly
  BY DEF NoOverlap, Orderly
<1>4. CASE q.kind = "explicit"
  <2>1. RecordFits(c, ledger[c])
    BY <1>1 DEF LInv, RecordsFit
  <2> QED  BY <1>1, <1>4, <2>1 DEF Selected, RecordFits, OnDisk
<1>5. CASE q.kind = "judgment"
  BY <1>1, <1>2, <1>3, <1>5 DEF LInv, Promises, JudgmentsExclusive, Terminal
<1>6. CASE q.kind \notin {"explicit", "judgment"}
  <2>1. ledger[s].status \notin Terminal
    BY <1>6 DEF Selected, Matching, Retained
  <2> QED  BY <1>1, <1>2, <1>3, <2>1 DEF LInv, Promises, OneActiveRecord
<1> QED  BY <1>1, <1>4, <1>5, <1>6

\* Nothing overlaps: while a call is at work, no other call takes a step that
\* changes the ledger.
LEMMA OwnKept ==
  ASSUME IInv, LInv, KInv, [Next]_vars, ~Concurrent, NEW p \in Proc, proc[p].pc # "idle",
         proc'[p] = proc[p], ~Advance(p)
  PROVE  CallOwn(proc[p])'
<1>1. CallOwn(proc[p]) /\ CallSound(proc[p])
  BY DEF KInv, CallsOwn, IInv, CallsSound
<1>2. \A x \in Proc : ~MayStart(x)
  BY DEF MayStart
<1>3. \A x \in Proc : ~Advance(x)
  <2>1. \A x \in Proc : Advance(x) => proc[x].pc # "idle"
    BY DEF Advance, LoadStore, Lookup, Attach, OpenRefused, OpenExisting, OpenNew, Post, Bind,
           Poll, NoteActive, NoteFailed, SaveReport, NoteSucceeded, Accepted
  <2> QED  BY <2>1 DEF LInv, TurnsTaken
<1>4. UNCHANGED ledger
  BY <1>2, <1>3
  DEF Next, vars, CallCase, CallJudgeFirst, CallJudgeResume, CallJudgeAgain, Resume, Fail, Crash,
      Finish, Expire, Proc
<1>5. proc[p].pc = "attach" => backend'[proc[p].op].by = backend[proc[p].op].by
  BY <1>1, AcceptedKept DEF CallSound
<1> QED  BY <1>1, <1>4, <1>5 DEF CallOwn

\* Where a call goes by a step of its own.
LEMMA OwnStep ==
  ASSUME IInv, LInv, KInv, ~Concurrent, NEW p \in Proc, Advance(p)
  PROVE  CallOwn(proc[p])'
<1>1. proc[p] \in Process /\ CallOwn(proc[p])
  BY DEF IInv, TypeOK, KInv, CallsOwn
<1>2. CASE LoadStore(p)
  <2>1. CASE Goto(p, Idle)
    BY <2>1 DEF Goto, IInv, TypeOK, CallOwn, Idle
  <2>2. ASSUME NEW s \in Selected(proc[p].req), ~SelectionFails(proc[p].req), NEW me,
               \/ me = [proc[p] EXCEPT !.pc = "lookup", !.pin = s]
               \/ me = [proc[p] EXCEPT !.pc = "open", !.pin = s, !.asks = None],
               Goto(p, me)
        PROVE  CallOwn(proc[p])'
    <3>1. proc'[p] = me
      BY <2>2 DEF Goto, IInv, TypeOK
    <3>2. s = proc[p].pin /\ proc[p].asks = proc[p].pin
      BY <1>2, <2>2, SelectsRead DEF LoadStore
    <3>3. me.pc = "open" \/ (me.pc = "lookup" /\ me.asks = proc[p].asks /\ me.pin = s)
      BY <1>1, <2>2 DEF Process
    <3> QED  BY <3>1, <3>2, <3>3 DEF CallOwn
  <2> QED  BY <1>2, <2>1, <2>2 DEF LoadStore
<1>3. CASE Lookup(p)
  <2>1. CASE Goto(p, Idle)
    BY <2>1 DEF Goto, IInv, TypeOK, CallOwn, Idle
  <2>2. ASSUME NEW o \in Op, backend[o].by = proc[p].asks,
               Goto(p, [proc[p] EXCEPT !.pc = "attach", !.op = o, !.asks = None])
        PROVE  CallOwn(proc[p])'
    <3> DEFINE me == [proc[p] EXCEPT !.pc = "attach", !.op = o, !.asks = None]
    <3>1. me.pc = "attach" /\ me.op = o /\ me.pin = proc[p].pin
      BY <1>1 DEF Process
    <3>2. proc'[p] = me
      BY <2>2 DEF Goto, IInv, TypeOK
    <3> HIDE DEF me
    <3>3. backend[o].by = proc[p].pin /\ UNCHANGED backend
      BY <1>1, <1>3, <2>2 DEF CallOwn, Lookup
    <3> QED  BY <3>1, <3>2, <3>3 DEF CallOwn
  <2> QED  BY <1>3, <2>1, <2>2 DEF Lookup
<1>4. CASE ~LoadStore(p) /\ ~Lookup(p)
  <2>1. proc'[p].pc \notin Recovering
    <3>1. Idle.pc = "idle"
      BY DEF Idle
    <3>2. ASSUME NEW me, me.pc \notin Recovering,
                 Goto(p, me) \/ \E c, r : Write(p, c, r, me)
          PROVE  proc'[p].pc \notin Recovering
      BY <3>2 DEF Goto, Write, IInv, TypeOK
    <3>3. CASE UNCHANGED proc /\ Post(p)
      BY <3>3 DEF Post, Recovering
    <3>4. \A c, k, o : Continue(proc[p], c, k, o).pc \notin Recovering
      <4>1. \A c, k, o : Continue(proc[p], c, k, o).pc \in {"idle", "post", "poll"}
        BY <1>1, <3>1 DEF Continue, Process
      <4> QED  BY <4>1 DEF Recovering
    <3>5. CASE OpenRefused(p) \/ OpenExisting(p) \/ OpenNew(p)
      BY <3>1, <3>2, <3>4, <3>5 DEF OpenRefused, OpenExisting, OpenNew, Recovering
    <3>6. CASE Attach(p)
      <4> DEFINE me == [proc[p] EXCEPT !.pc = "open"]
      <4>1. me.pc = "open"
        BY <1>1 DEF Process
      <4>2. Goto(p, Idle) \/ \E c, r : Write(p, c, r, me)
        BY <3>6 DEF Attach
      <4> HIDE DEF me
      <4> QED  BY <3>1, <3>2, <4>1, <4>2 DEF Recovering
    <3>7. CASE Bind(p)
      <4> DEFINE me == [proc[p] EXCEPT !.pc = "poll"]
      <4>1. me.pc = "poll"
        BY <1>1 DEF Process
      <4>2. Goto(p, Idle) \/ \E c, r : Write(p, c, r, me)
        BY <3>7 DEF Bind, Transition
      <4> HIDE DEF me
      <4> QED  BY <3>1, <3>2, <4>1, <4>2 DEF Recovering
    <3>8. CASE NoteActive(p)
      <4> DEFINE me == [proc[p] EXCEPT !.pc = "poll", !.reply = "absent"]
      <4>1. me.pc = "poll"
        BY <1>1 DEF Process
      <4>2. Goto(p, Idle) \/ \E c, r : Write(p, c, r, me)
        BY <3>8 DEF NoteActive, Transition
      <4> HIDE DEF me
      <4> QED  BY <3>1, <3>2, <4>1, <4>2 DEF Recovering
    <3>9. CASE NoteFailed(p) \/ NoteSucceeded(p)
      <4>1. Goto(p, Idle) \/ \E c, r : Write(p, c, r, Idle)
        BY <3>9 DEF NoteFailed, NoteSucceeded, Transition
      <4> QED  BY <3>1, <3>2, <4>1 DEF Recovering
    <3>10. CASE Poll(p)
      <4> DEFINE me == [proc[p] EXCEPT !.pc = "apply", !.reply = backend[proc[p].op].status]
      <4>1. me.pc = "apply"
        BY <1>1 DEF Process
      <4>2. Goto(p, me)
        BY <3>10 DEF Poll
      <4> HIDE DEF me
      <4> QED  BY <3>1, <3>2, <4>1, <4>2 DEF Recovering
    <3>11. CASE SaveReport(p)
      <4> DEFINE me == [proc[p] EXCEPT !.pc = "mark"]
      <4>1. me.pc = "mark"
        BY <1>1 DEF Process
      <4>2. Goto(p, Idle) \/ Goto(p, me)
        BY <3>11 DEF SaveReport
      <4> HIDE DEF me
      <4> QED  BY <3>1, <3>2, <4>1, <4>2 DEF Recovering
    <3>12. CASE Post(p) /\ ~UNCHANGED proc
      <4>1. PICK o : Goto(p, [proc[p] EXCEPT !.pc = "bind", !.op = o])
        BY <3>12 DEF Post
      <4> DEFINE me == [proc[p] EXCEPT !.pc = "bind", !.op = o]
      <4>2. me.pc = "bind"
        BY <1>1 DEF Process
      <4>3. Goto(p, me)
        BY <4>1
      <4> HIDE DEF me
      <4> QED  BY <3>2, <4>2, <4>3 DEF Recovering
    <3> QED
      BY <1>4, <3>3, <3>5, <3>6, <3>7, <3>8, <3>9, <3>10, <3>11, <3>12 DEF Advance
  <2> QED  BY <2>1 DEF CallOwn, Recovering
<1> QED  BY <1>2, <1>3, <1>4

\* How a step moves process p: by its own, not at all, into or out of a call,
\* or in what it knows of its record only.
LEMMA Moves ==
  ASSUME IInv, [Next]_vars, NEW p \in Proc
  PROVE  \/ Advance(p)
         \/ proc'[p] = proc[p]
         \/ proc'[p].pc \in {"idle", "open"}
         \/ \E c \in RecordId : Resume(p, c)
         \/ \E x \in Proc \ {p} : Advance(x) /\ proc'[p].pc = proc[p].pc
<1>1. ASSUME NEW x \in Caller, NEW q \in Request,
             CallCase(x, q) \/ CallJudgeFirst(x, q) \/ CallJudgeResume(x, q) \/ CallJudgeAgain(x, q)
      PROVE  proc'[p] = proc[p] \/ proc'[p].pc = "open"
  <2>1. PICK q2, c, k, m : Goto(x, Starting(q2, c, k, m, "open"))
    BY <1>1 DEF CallCase, CallJudgeFirst, CallJudgeResume, CallJudgeAgain
  <2>2. Starting(q2, c, k, m, "open").pc = "open"
    BY DEF Starting, Idle
  <2> QED  BY <2>1, <2>2 DEF Goto, IInv, TypeOK
<1>2. ASSUME NEW x \in Resumer, NEW c \in RecordId, Resume(x, c)
      PROVE  proc'[p] = proc[p] \/ Resume(p, c)
  BY <1>2 DEF Resume, Goto, IInv, TypeOK
<1>3. ASSUME NEW x \in Proc \ {p}, Advance(x)
      PROVE  proc'[p].pc = proc[p].pc
  <2>1. (\E me : Goto(x, me)) \/ UNCHANGED proc \/ (\E c, r, me : Write(x, c, r, me))
    BY <1>3
    DEF Advance, LoadStore, Lookup, Attach, OpenRefused, OpenExisting, OpenNew, Post, Bind, Poll,
        NoteActive, NoteFailed, SaveReport, NoteSucceeded, Transition
  <2>2. ASSUME NEW c, NEW r, NEW me, Write(x, c, r, me)
        PROVE  proc'[p].pc = proc[p].pc
    BY <2>2 DEF Write, IInv, TypeOK, Process
  <2> QED  BY <2>1, <2>2 DEF Goto, IInv, TypeOK
<1>4. ASSUME NEW x \in Proc, Fail(x) \/ (x \in Caller /\ Crash(x))
      PROVE  proc'[p] = proc[p] \/ proc'[p].pc = "idle"
  BY <1>4 DEF Fail, Crash, Goto, Idle, IInv, TypeOK
<1>5. CASE (\E o \in Op : Finish(o) \/ Expire(o)) \/ UNCHANGED vars
  BY <1>5 DEF Finish, Expire, vars
<1> QED  BY <1>1, <1>2, <1>3, <1>4, <1>5 DEF Next, Proc

LEMMA NextCallsOwn ==
  ASSUME IInv, LInv, KInv, [Next]_vars
  PROVE  CallsOwn'
<1> SUFFICES ASSUME ~Concurrent, NEW p \in Proc PROVE CallOwn(proc[p])'
  BY DEF CallsOwn, CallOwn
<1>1. CASE Advance(p)
  BY <1>1, OwnStep
<1>2. CASE proc'[p].pc \in {"idle", "open"}
  BY <1>2 DEF CallOwn
<1>3. CASE proc'[p] = proc[p] /\ proc[p].pc # "idle" /\ ~Advance(p)
  BY <1>3, OwnKept
<1>4. CASE \E c \in RecordId : Resume(p, c)
  <2>1. PICK c \in RecordId : Resume(p, c)
    BY <1>4
  <2> DEFINE me == [Starting(ledger[c].req, c, ledger[c].key, "get", "load") EXCEPT !.asks = c]
  <2>2. me.pc = "load" /\ me.asks = c /\ me.pin = c
    BY DEF Starting, Idle
  <2>3. proc'[p] = me
    BY <2>1 DEF Resume, Goto, IInv, TypeOK
  <2> HIDE DEF me
  <2>4. ledger'[c].status \notin Terminal
    BY <2>1 DEF Resume
  <2> QED  BY <2>2, <2>3, <2>4 DEF CallOwn
<1>5. CASE \E x \in Proc \ {p} : Advance(x) /\ proc'[p].pc = proc[p].pc
  <2>1. PICK x \in Proc \ {p} : Advance(x) /\ proc'[p].pc = proc[p].pc
    BY <1>5
  <2>2. proc[x].pc # "idle"
    BY <2>1
    DEF Advance, LoadStore, Lookup, Attach, OpenRefused, OpenExisting, OpenNew, Post, Bind, Poll,
        NoteActive, NoteFailed, SaveReport, NoteSucceeded, Accepted
  <2>3. proc'[p].pc = "idle"
    BY <2>1, <2>2 DEF LInv, TurnsTaken
  <2> QED  BY <1>2, <2>3
<1> QED  BY <1>1, <1>2, <1>3, <1>4, <1>5, Moves

\* The two steps that bind use the operation of the record's own key.
LEMMA BindsOwn ==
  ASSUME IInv, LInv, KInv, NoOverlap, NEW p \in Proc, Attach(p) \/ Bind(p)
  PROVE  /\ proc[p].op \in Op /\ backend[proc[p].op].status # "absent"
         /\ backend[proc[p].op].key = ledger[proc[p].pin].key
<1>1. CallSound(proc[p]) /\ RecoveryFits(p, proc[p]) /\ CallOwn(proc[p])
  BY DEF IInv, CallsSound, LInv, CallsFit, CallFits, KInv, CallsOwn
<1>2. CASE Attach(p)
  <2>1. proc[p].pc = "attach" /\ p \in Resumer
    BY <1>1, <1>2 DEF Attach, RecoveryFits, Recovering
  <2>2. /\ proc[p].op \in Op /\ backend[proc[p].op].status # "absent"
        /\ backend[proc[p].op].by = proc[p].pin
    BY <1>1, <2>1 DEF CallSound, CallOwn, NoOverlap
  <2> QED  BY <2>2 DEF IInv, OperationsRecorded
<1>3. CASE Bind(p)
  <2>1. proc[p].pc = "bind"
    BY <1>3 DEF Bind
  <2>2. /\ proc[p].op \in Op /\ proc[p].pin \in OnDisk
        /\ backend[proc[p].op].key = ledger[proc[p].pin].key
    BY <1>1, <2>1 DEF CallSound
  <2>3. ledger[proc[p].pin].key \in Key
    BY <2>2 DEF IInv, RecordsIdentified, OnDisk
  <2> QED  BY <2>2, <2>3, NoneAssumption DEF IInv, OperationsRecorded, NoOperation
<1> QED  BY <1>2, <1>3

LEMMA NextBound ==
  ASSUME IInv, LInv, KInv, NoOverlap, [Next]_vars
  PROVE  BoundToOwnOperation'
<1> SUFFICES ASSUME NEW c \in RecordId, ledger'[c].op # None
             PROVE  backend'[ledger'[c].op].key = ledger'[c].key
  BY DEF BoundToOwnOperation
<1>1. ASSUME ledger'[c].op = ledger[c].op, ledger'[c].key = ledger[c].key
      PROVE  backend'[ledger'[c].op].key = ledger'[c].key
  <2>1. ledger[c].op \in Op /\ backend[ledger[c].op].status # "absent"
    BY <1>1, BoundAccepted
  <2>2. backend[ledger[c].op].key = ledger[c].key
    BY <1>1 DEF KInv, BoundToOwnOperation
  <2> QED  BY <1>1, <2>1, <2>2, AcceptedKept
<1>2. CASE \E p \in Proc : Advance(p)
  <2>1. PICK p \in Proc : Advance(p)
    BY <1>2
  <2>2. c \in OnDisk
    BY <2>1, NewUnbound
  <2>3. CASE (Attach(p) \/ Bind(p)) /\ c = proc[p].pin /\ ledger'[c].op = proc[p].op
    <3>1. /\ proc[p].op \in Op /\ backend[proc[p].op].status # "absent"
          /\ backend[proc[p].op].key = ledger[c].key
      BY <2>3, BindsOwn
    <3>2. ledger'[c].key = ledger[c].key
      BY <2>1, <2>2, StepBinds
    <3>3. backend'[proc[p].op].key = backend[proc[p].op].key
      BY <3>1, AcceptedKept
    <3> QED  BY <2>3, <3>1, <3>2, <3>3
  <2> QED  BY <1>1, <2>1, <2>2, <2>3, StepBinds
<1>3. CASE ~ \E p \in Proc : Advance(p)
  <2>1. UNCHANGED ledger
    BY <1>3
    DEF Next, vars, CallCase, CallJudgeFirst, CallJudgeResume, CallJudgeAgain, Resume, Fail, Crash,
        Finish, Expire
  <2> QED  BY <1>1, <2>1
<1> QED  BY <1>2, <1>3

\* A record is only ever bound to the operation its own idempotency key
\* started, by set_operation_id or by attach_recovered_operation, provided no
\* resume overlaps another call: under overlap resume_request may ask for one
\* record and attach the answer to another (ledger_rebound).
THEOREM KeysBindOperations ==
  ASSUME NoOverlap
  PROVE  Spec => []BoundToOwnOperation
<1>1. Init => KInv
  <2>1. Init => CallsOwn
    BY DEF Init, CallsOwn, CallOwn, Idle
  <2>2. Init => BoundToOwnOperation
    BY DEF Init, BoundToOwnOperation, NoRecord
  <2> QED  BY <2>1, <2>2 DEF KInv
<1>2. IInv /\ LInv /\ KInv /\ [Next]_vars => KInv'
  <2> SUFFICES ASSUME IInv, LInv, KInv, [Next]_vars PROVE KInv'
    OBVIOUS
  <2>1. CallsOwn'
    BY NextCallsOwn
  <2>2. NoOverlap => BoundToOwnOperation'
    BY NextBound
  <2>3. NoOverlap'
    BY DEF NoOverlap
  <2> QED  BY <2>1, <2>2 DEF KInv
<1>3. KInv => BoundToOwnOperation
  BY DEF KInv
<1> QED  BY <1>1, <1>2, <1>3, Invariance, LedgerInvariance, PTL DEF Spec

\* One of two rivals' records has ended.
LEMMA RivalsEnd ==
  ASSUME IInv, LInv, Orderly, NEW c1 \in OnDisk, NEW c2 \in OnDisk, c1 # c2,
         Rival(ledger[c1].req, ledger[c2].req)
  PROVE  /\ ledger[c1].req.kind # "explicit"
         /\ ledger[c1].status \in Terminal \/ ledger[c2].status \in Terminal
<1>1. /\ c1 \in RecordId /\ c2 \in RecordId
      /\ ledger[c1].req.kind \in Kinds
      /\ RecordFits(c1, ledger[c1]) /\ RecordFits(c2, ledger[c2])
  BY RequestAssumption DEF OnDisk, IInv, RecordsIdentified, LInv, RecordsFit
<1>2. ledger[c1].req.kind # "explicit"
  BY <1>1 DEF Rival, RecordFits, OnDisk
<1>3. CASE ledger[c1].req.kind = "judgment"
  BY <1>3 DEF Rival, LInv, Promises, JudgmentsExclusive, Terminal
<1>4. CASE ledger[c1].req.kind = "legacy"
  BY <1>4, Degrees DEF Rival, LInv, Promises, OneActiveRecord
<1> QED  BY <1>1, <1>2, <1>3, <1>4 DEF Kinds

\* The operation that was started under a record that has ended is the one
\* the record is bound to, so the ledger has recorded its end.
LEMMA EndedIsSettled ==
  ASSUME IInv, LInv, BoundToOwnOperation, NEW o \in Op, backend[o].status # "absent",
         ledger[backend[o].by].status \in Terminal
  PROVE  Settled(o)
<1>1. /\ backend[o].by \in OnDisk /\ backend[o].by \in RecordId
      /\ ledger[backend[o].by].key = backend[o].key /\ backend[o].key \in Key
  BY DEF IInv, OperationsRecorded, OnDisk
<1>2. ledger[backend[o].by].op # None
  BY <1>1 DEF LInv, RecordsFit, RecordFits, Terminal
<1>3. ledger[backend[o].by].op \in Op
  BY <1>1, <1>2 DEF IInv, TypeOK, Record
<1>4. backend[ledger[backend[o].by].op].key = backend[o].key
  BY <1>1, <1>2 DEF BoundToOwnOperation
<1>5. ledger[backend[o].by].op = o
  BY <1>1, <1>3, <1>4, NoneAssumption DEF IInv, OneOperationPerKey
<1> QED  BY <1>1, <1>5 DEF Settled

\* Lost responses, crashes and repeated calls never buy a second operation
\* for a request while the first is unsettled, nor ever for an explicit handle
\* -- when calls take turns, or overlap without a resume and with one request
\* of each Run (load_or_create, _find_matching, Post).
THEOREM NothingBoughtTwice ==
  ASSUME Orderly
  PROVE  Spec => []NoDoublePurchase
<1>1. IInv /\ LInv /\ BoundToOwnOperation => NoDoublePurchase
  <2> SUFFICES ASSUME IInv, LInv, BoundToOwnOperation, NEW o1 \in Op, NEW o2 \in Op, o1 # o2,
                      backend[o1].status # "absent", backend[o2].status # "absent",
                      Rival(backend[o1].req, backend[o2].req)
               PROVE  /\ backend[o1].req.kind # "explicit"
                      /\ Settled(o1) \/ Settled(o2)
    BY DEF NoDoublePurchase
  <2>1. /\ backend[o1].by \in OnDisk /\ backend[o2].by \in OnDisk
        /\ ledger[backend[o1].by].key = backend[o1].key
        /\ ledger[backend[o2].by].key = backend[o2].key
        /\ backend[o1].key \in Key
    BY DEF IInv, OperationsRecorded
  <2>2. backend[o1].by # backend[o2].by
    BY <2>1, NoneAssumption DEF IInv, OneOperationPerKey
  <2>3. /\ backend[o1].req = ledger[backend[o1].by].req
        /\ backend[o2].req = ledger[backend[o2].by].req
    BY DEF LInv, OperationsFit
  <2> QED  BY <2>1, <2>2, <2>3, RivalsEnd, EndedIsSettled
<1>2. Spec => []BoundToOwnOperation
  BY Degrees, KeysBindOperations
<1> QED  BY <1>1, <1>2, Invariance, LedgerInvariance, PTL

\* A Judgment recorded as succeeded has its report on disk, made from the
\* operation the record is bound to (_accept_judgment before _record_success).
THEOREM SuccessHasReport ==
  ASSUME Quiet
  PROVE  Spec => []ReportBeforeSuccess
<1>1. LInv => ReportBeforeSuccess
  BY DEF LInv, Promises
<1> QED  BY <1>1, LedgerInvariance, PTL

\* A transition changes the call's record, or nothing.
LEMMA TransitionChanges ==
  ASSUME IInv, NEW p \in Proc, NEW r, NEW me, Transition(p, r, me), NEW c \in RecordId,
         ledger'[c] # ledger[c]
  PROVE  Commits(p) /\ c = proc[p].pin /\ ledger'[c] = r
  BY DEF Transition, Write, IInv, TypeOK

LEMMA StepKeepsTerminal ==
  ASSUME NoOverlap, ~Expiry, IInv, LInv, NEW p \in Proc, Advance(p), NEW c \in RecordId,
         ledger[c].status \in Terminal
  PROVE  ledger'[c].status = ledger[c].status
<1> SUFFICES ASSUME ledger'[c] # ledger[c] PROVE ledger'[c].status = ledger[c].status
  OBVIOUS
<1> DEFINE pin == proc[p].pin
<1>1. CASE \/ LoadStore(p) \/ Lookup(p) \/ OpenRefused(p) \/ OpenExisting(p)
           \/ Post(p) \/ Poll(p) \/ SaveReport(p)
  BY <1>1 DEF LoadStore, Lookup, OpenRefused, OpenExisting, Post, Poll, SaveReport
<1>2. c \in OnDisk /\ RecordFits(c, ledger[c])
  BY DEF OnDisk, Terminal, LInv, RecordsFit
<1>3. CASE Attach(p)
  <2>1. c = pin
    BY <1>3 DEF Attach, Write, IInv, TypeOK
  <2>2. ledger[c].op = None
    BY <1>3, <2>1 DEF Attach, LInv, CallsFit, CallFits, RecoveryFits, TurnFits, NoOverlap, Recovering
  <2> QED  BY <1>2, <2>2 DEF RecordFits, Terminal
<1>4. CASE OpenNew(p)
  <2>1. PICK d, r, me : d \in FreshIds(proc[p].req) /\ Write(p, d, r, me)
    BY <1>4 DEF OpenNew
  <2>2. c = d
    BY <2>1 DEF Write, IInv, TypeOK
  <2> QED  BY <1>2, <1>4, <2>1, <2>2 DEF OpenNew, FreshIds, Selected
<1>5. CASE Bind(p)
  <2>1. c = pin /\ proc[p].fresh
    BY <1>5, TransitionChanges DEF Bind, Commits
  <2>2. ledger[c].op = None
    BY <1>5, <2>1 DEF Bind, LInv, CallsFit, CallFits, SnapshotFits
  <2> QED  BY <1>2, <2>2 DEF RecordFits, Terminal
<1>6. CASE NoteActive(p)
  <2>1. c = pin /\ proc[p].fresh
    BY <1>6, TransitionChanges DEF NoteActive, Commits
  <2> QED  BY <1>6, <2>1 DEF NoteActive, LInv, CallsFit, CallFits, SnapshotFits
<1>7. CASE NoteFailed(p) \/ NoteSucceeded(p)
  <2>1. proc[p].pc \in {"apply", "mark"}
    BY <1>7 DEF NoteFailed, NoteSucceeded, Accepted
  <2>2. /\ ledger[pin].op = proc[p].op /\ proc[p].op \in Op
        /\ Earned(proc[p].reply, backend[proc[p].op].status)
        /\ backend[proc[p].op].status # "gone"
    BY <2>1, NoteBasis DEF LInv, OperationsFit
  <2>3. CASE NoteFailed(p)
    <3>1. c = pin /\ ledger'[c] = FailedRecord(ledger[pin])
      BY <2>3, TransitionChanges DEF NoteFailed
    <3>2. ledger'[c].status = "failed"
      BY <3>1 DEF FailedRecord, IInv, TypeOK, Record
    <3>3. ledger[c].status = "failed"
      BY <1>2, <2>2, <2>3, <3>1, NoneAssumption DEF NoteFailed, RecordFits, Earned, Terminal
    <3> QED  BY <3>2, <3>3
  <2>4. CASE NoteSucceeded(p)
    <3>1. c = pin /\ ledger'[c] = [ledger[pin] EXCEPT !.status = "succeeded", !.error = FALSE,
                                                      !.locator = (proc[p].req.kind = "judgment")]
      BY <2>4, TransitionChanges DEF NoteSucceeded
    <3>2. ledger'[c].status = "succeeded"
      BY <3>1 DEF IInv, TypeOK, Record
    <3>3. ledger[c].status = "succeeded"
      BY <1>2, <2>2, <2>4, <3>1, NoneAssumption
      DEF NoteSucceeded, Accepted, RecordFits, Earned, Terminal
    <3> QED  BY <3>2, <3>3
  <2> QED  BY <1>7, <2>3, <2>4
<1> QED  BY <1>1, <1>3, <1>4, <1>5, <1>6, <1>7 DEF Advance

\* A terminal record stays as it ended, unless the service forgets operations
\* (ledger_expiry) or a resume overlaps a call (ledger_attach).
THEOREM TerminalRecordsKept ==
  ASSUME NoOverlap, ~Expiry
  PROVE  Spec => TerminalKept
<1> DEFINE Kept == \A c \in RecordId :
                     ledger[c].status \in Terminal => ledger'[c].status = ledger[c].status
<1>1. IInv /\ LInv /\ [Next]_vars => [Kept]_vars
  <2> SUFFICES ASSUME IInv, LInv, Next, NEW c \in RecordId, ledger[c].status \in Terminal
               PROVE  ledger'[c].status = ledger[c].status
    OBVIOUS
  <2>1. CASE \E p \in Proc : Advance(p)
    BY <2>1, StepKeepsTerminal
  <2>2. CASE ~ \E p \in Proc : Advance(p)
    BY <2>2
    DEF Next, CallCase, CallJudgeFirst, CallJudgeResume, CallJudgeAgain, Resume, Fail, Crash,
        Finish, Expire
  <2> QED  BY <2>1, <2>2
<1> QED  BY <1>1, Invariance, LedgerInvariance, PTL DEF Spec, TerminalKept

\* A successful Judge record is immutable for its Run, under the same
\* conditions: without expiry the operation of a succeeded record can only be
\* found succeeded again, and the rewrite stores what was there.
THEOREM SuccessImmutable ==
  ASSUME NoOverlap, ~Expiry
  PROVE  Spec => SuccessfulJudgeImmutable
<1> DEFINE Kept == \A c \in RecordId :
                     ledger[c].status = "succeeded" /\ ledger[c].req.kind = "judgment"
                     => ledger'[c] = ledger[c]
<1>1. IInv /\ LInv /\ [Next]_vars => [Kept]_vars
  <2> SUFFICES ASSUME IInv, LInv, Next, NEW c \in RecordId, ledger[c].status = "succeeded",
                      ledger[c].req.kind = "judgment", ledger'[c] # ledger[c]
               PROVE  FALSE
    OBVIOUS
  <2>1. PICK p \in Proc : Advance(p)
    BY DEF Next, CallCase, CallJudgeFirst, CallJudgeResume, CallJudgeAgain, Resume, Fail, Crash,
           Finish, Expire
  <2>2. /\ ledger'[c].status = "succeeded"
        /\ c \in OnDisk /\ RecordFits(c, ledger[c]) /\ ledger[c] \in Record
    BY <2>1, StepKeepsTerminal DEF Terminal, OnDisk, LInv, RecordsFit, IInv, TypeOK
  <2>3. CASE NoteSucceeded(p)
    <3> DEFINE r == [ledger[c] EXCEPT !.status = "succeeded", !.error = FALSE,
                                      !.locator = (proc[p].req.kind = "judgment")]
    <3>1. c = proc[p].pin /\ ledger'[c] = r
      <4>1. c = proc[p].pin
        BY <2>3, TransitionChanges DEF NoteSucceeded
      <4> QED  BY <2>3, <4>1, TransitionChanges DEF NoteSucceeded
    <3>2. proc[p].req = ledger[c].req
      BY <2>3, <3>1, NoteBasis DEF NoteSucceeded, Accepted
    <3>3. ledger[c].error = FALSE /\ ledger[c].locator = (proc[p].req.kind = "judgment")
      BY <2>2, <3>2 DEF RecordFits, Record
    <3>4. ledger[c] = [req |-> ledger[c].req, key |-> ledger[c].key, op |-> ledger[c].op,
                       status |-> "succeeded", error |-> ledger[c].error,
                       locator |-> ledger[c].locator]
      BY <2>2 DEF Record
    <3>5. r = ledger[c]
      BY <3>3, <3>4
    <3> QED  BY <3>1, <3>5
  <2>4. CASE NoteFailed(p)
    <3>1. ledger'[c] = FailedRecord(ledger[proc[p].pin]) /\ c = proc[p].pin
      BY <2>4, TransitionChanges DEF NoteFailed
    <3> QED  BY <2>2, <3>1 DEF FailedRecord, Record
  <2>5. CASE ~NoteSucceeded(p) /\ ~NoteFailed(p)
    <3>1. CASE Attach(p)
      <4>1. c = proc[p].pin /\ ledger'[c] = [ledger[c] EXCEPT !.op = proc[p].op, !.status = "active"]
        BY <3>1 DEF Attach, Write, IInv, TypeOK
      <4> QED  BY <2>2, <4>1 DEF Record
    <3>2. CASE OpenNew(p)
      <4>1. PICK d, r, me : d \in FreshIds(proc[p].req) /\ Write(p, d, r, me)
        BY <3>2 DEF OpenNew
      <4> QED  BY <2>2, <3>2, <4>1 DEF OpenNew, FreshIds, Selected, Write, IInv, TypeOK
    <3>3. CASE Bind(p)
      <4>1. c = proc[p].pin /\ ledger'[c] = [ledger[c] EXCEPT !.op = proc[p].op, !.status = "active"]
        BY <3>3, TransitionChanges DEF Bind
      <4> QED  BY <2>2, <4>1 DEF Record
    <3>4. CASE NoteActive(p)
      <4>1. c = proc[p].pin /\ ledger'[c] = [ledger[c] EXCEPT !.status = "active"]
        BY <3>4, TransitionChanges DEF NoteActive
      <4> QED  BY <2>2, <4>1 DEF Record
    <3> QED
      BY <2>1, <2>5, <3>1, <3>2, <3>3, <3>4
      DEF Advance, LoadStore, Lookup, OpenRefused, OpenExisting, Post, Poll, SaveReport
  <2> QED  BY <2>3, <2>4, <2>5
<1> QED  BY <1>1, Invariance, LedgerInvariance, PTL DEF Spec, SuccessfulJudgeImmutable

=============================================================================

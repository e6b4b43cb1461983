------------------------ MODULE OperationPollingProofs ------------------------
(***************************************************************************)
(* What the wait of an operation promises whatever its budget, time-outs,  *)
(* retry limit, poll guidance and delays: DeadlineHolds, PacingHolds and   *)
(* OpenIsPending.                                                          *)
(*                                                                         *)
(* The inductive invariant carries each floor that the Backend named       *)
(* through the steps of a wait: before the delay is computed the floor is  *)
(* at most the reason of the wait away, from then on at most the delay, or *)
(* the deadline is.                                                        *)
(***************************************************************************)
EXTENDS OperationPolling, TLAPS

CallRecord ==
  [at : {"idle", "send", "backoff", "nap", "measure", "sleep", "waitout"}, posting : BOOLEAN,
   attempts : 0..MaxRetries, interval : Nat \ {0}, final : BOOLEAN,
   hint : Hints \cup {0}, delay : Nat]

OwedRecord ==
  [open : 0..MaxKeys, asked : Nat, poll : Nat, first : BOOLEAN, auth : Nat,
   short : {0, 1}, lost : Nat, heard : Nat]

\* The types, and what the retry counter, the interval and the delay are bounded by.
Typed ==
  /\ wait \in CallRecord /\ pending \in Pending \cup {Nothing} /\ clock \in Nat
  /\ keys \in 0..MaxKeys /\ owed \in OwedRecord
  /\ wait.interval >= ShortestPoll
  /\ wait.at = "backoff" => wait.attempts < MaxRetries
  /\ wait.at # "idle" => pending \in Pending
  /\ wait.at \notin {"sleep", "waitout"} => wait.delay = 0

\* The delay that was computed reaches a time, or the deadline.
Reaches(time) == time <= clock + wait.delay \/ Wait <= clock + wait.delay

\* How far a Retry-After may still be away.
AuthFloor ==
  /\ wait.at = "sleep" => Reaches(owed.auth)
  /\ Left > 0 =>
       /\ wait.at \in {"send", "measure"} => owed.auth <= clock
       /\ wait.at \in {"backoff", "nap"} => owed.auth <= clock + wait.hint

\* The poller is about to wait an interval.
Pausing == wait.at = "measure" \/ (wait.at = "nap" /\ wait.hint = 0)

\* How far a poll_after_ms may still be away.
PollFloor ==
  ~wait.final =>
    /\ wait.at = "sleep" => owed.first \/ Reaches(owed.poll)
    /\ Left > 0 =>
         /\ Pausing => owed.poll <= clock + wait.interval
         /\ ~Pausing /\ wait.at \in {"send", "backoff", "nap"} => owed.first \/ owed.poll <= clock

\* A wait is cut short once, for the final poll.
CutOnce == owed.short = 1 /\ wait.at # "idle" => wait.final

\* The interval never falls below what the Backend may expect.
Paced == wait.at # "idle" => wait.interval >= Expected(owed.asked)

IInv ==
  /\ Typed /\ OpenIsPending /\ DeadlineHolds /\ AuthFloor /\ PollFloor /\ CutOnce /\ Paced

----------------------------------------------------------------------------
(* The operators.                                                          *)

\* Retry waits are numbers.
LEMMA DoubledIsInt ==
  ASSUME NEW n \in Nat
  PROVE  Doubled(n) \in Int
<1>1. 2^n \in Int
  OBVIOUS
<1>2. BackoffBase \in Int /\ BackoffCap \in Int
  BY PollingAssumption
<1>3. BackoffBase * 2^n \in Int
  BY <1>1, <1>2
<1> QED  BY <1>2, <1>3 DEF Doubled, Lesser

\* A retry waits as long as it was told to, or up to the deadline.
LEMMA RetryDelayBounds ==
  ASSUME NEW n \in Nat, NEW hint \in Nat, clock \in Nat
  PROVE  /\ RetryDelay(n, hint) \in Nat
         /\ RetryDelay(n, hint) > 0 => clock + RetryDelay(n, hint) <= Wait
         /\ Left > 0 => RetryDelay(n, hint) >= hint \/ RetryDelay(n, hint) = Left
<1> DEFINE d == Doubled(n)
<1>1. d \in Int
  BY DoubledIsInt
<1> HIDE DEF d
<1>2. Wait \in Nat
  BY PollingAssumption
<1>3. RetryDelay(n, hint) = Lesser(Greater(d, hint), Greater(0, Left))
  BY DEF RetryDelay, d
<1> QED  BY <1>1, <1>2, <1>3 DEF Lesser, Greater, Left

\* Between two polls the interval is waited out, or the reserve is kept, also
\* when nothing or less remains.
LEMMA PollDelayBounds ==
  ASSUME NEW interval \in Nat, NEW final \in BOOLEAN, clock \in Nat
  PROVE  /\ PollDelay(interval, final) \in Nat
         /\ PollDelay(interval, final) > 0 => clock + PollDelay(interval, final) <= Wait
         /\ ~final /\ ~Clipped(interval) => PollDelay(interval, final) = interval
<1>1. Wait \in Nat /\ Reserve \in Nat /\ Reserve > 0
  BY PollingAssumption
<1>2. Left \in Int
  BY <1>1 DEF Left
<1>3. Half(Left) \in Int /\ (Left > 0 => Half(Left) \in 1..Left) /\ (~(Left > 0) => Half(Left) >= Left)
  BY <1>2 DEF Half
<1>4. /\ Left - Lesser(Reserve, Half(Left)) \in Int
      /\ Left > 0 => Left - Lesser(Reserve, Half(Left)) <= Left
      /\ ~(Left > 0) => Left - Lesser(Reserve, Half(Left)) <= 0
  BY <1>1, <1>2, <1>3 DEF Lesser
<1>5. CASE final
  <2>1. PollDelay(interval, final) = Greater(0, Left)
    BY <1>5 DEF PollDelay
  <2>2. Greater(0, Left) \in Nat /\ (Greater(0, Left) > 0 => clock + Greater(0, Left) <= Wait)
    BY <1>1, <1>2 DEF Greater, Left
  <2> QED  BY <1>5, <2>1, <2>2
<1>6. CASE ~final /\ interval >= Left
  <2> DEFINE r == Left - Lesser(Reserve, Half(Left))
  <2>1. PollDelay(interval, final) = Greater(0, r)
    BY <1>6 DEF PollDelay
  <2>2. r \in Int /\ (Left > 0 => r <= Left) /\ (~(Left > 0) => r <= 0)
    BY <1>4
  <2> HIDE DEF r
  <2> QED  BY <1>1, <1>2, <1>6, <2>1, <2>2 DEF Greater, Left, Clipped
<1>7. CASE ~final /\ ~(interval >= Left)
  <2>1. PollDelay(interval, final) = interval
    BY <1>7 DEF PollDelay
  <2> QED  BY <1>1, <1>2, <1>7, <2>1 DEF Left
<1> QED  BY <1>5, <1>6, <1>7

\* What the poller looks at in a failure.
LEMMA ReportTyped ==
  ASSUME NEW o \in Reports
  PROVE  o.hint \in Hints \cup {0} /\ o.hint \in Nat /\ o.retry \in BOOLEAN /\ o.gone \in BOOLEAN
<1>1. PICK f \in Failures : o = Reported(f)
  BY DEF Reports
<1>2. f.after \in Hints \cup {0} /\ f.retryable \in BOOLEAN
  <2>1. CASE f \in ErrorReply
    BY <2>1 DEF ErrorReply
  <2>2. CASE f \in {Unreached, Unusable}
    <3>1. /\ Unreached.after = 0 /\ Unreached.retryable = TRUE
          /\ Unusable.after = 0 /\ Unusable.retryable = FALSE
      BY DEF Unreached, Unusable, WireError
    <3> QED  BY <2>2, <3>1
  <2>3. f \in ErrorReply \cup {Unreached, Unusable}
    BY DEF Failures
  <2> QED  BY <2>1, <2>2, <2>3
<1> QED  BY <1>1, <1>2, PollingAssumption DEF Reported, RetryBlocked

\* What the typing says of the numbers.
LEMMA Numbers ==
  ASSUME Typed
  PROVE  /\ wait.hint \in Nat /\ wait.interval \in Nat /\ wait.attempts \in Nat /\ clock \in Nat
         /\ Wait \in Nat /\ MaxRetries \in Nat /\ MaxKeys \in Nat /\ ShortestPoll \in Nat \ {0}
         /\ ResumePoll >= ShortestPoll /\ FallbackCap >= ShortestPoll
         /\ ResumePoll \in Nat /\ FallbackCap \in Nat /\ Late \in Nat /\ RequestTime \in Nat
<1>1. wait.hint \in Hints \cup {0} /\ wait.interval \in Nat /\ wait.attempts \in 0..MaxRetries
      /\ clock \in Nat
  BY DEF Typed, CallRecord
<1> QED  BY <1>1, PollingAssumption

\* Between two calls.
LEMMA RestingTyped ==
  /\ Resting \in CallRecord /\ Resting.at = "idle" /\ Resting.interval = ResumePoll
  /\ Resting.hint = 0 /\ Resting.final = FALSE /\ Resting.delay = 0
  /\ ResumePoll \in Nat /\ ResumePoll >= ShortestPoll
BY PollingAssumption DEF CallRecord, Resting

\* A call that ends keeps nothing to pace.
LEMMA LeaveKeeps ==
  ASSUME wait' = Resting, pending' \in Pending \cup {Nothing}, clock' \in Nat,
         keys' \in 0..MaxKeys, owed' \in OwedRecord,
         owed'.open # 0 => pending'.key = owed'.open,
         clock' <= Wait + owed'.lost, owed'.heard > 0 => owed'.heard < Wait
  PROVE  IInv'
<1>1. /\ wait' \in CallRecord /\ wait'.at = "idle" /\ wait'.delay = 0
      /\ wait'.interval >= ShortestPoll
  BY RestingTyped
<1>2. Typed'
  BY <1>1 DEF Typed
<1>3. OpenIsPending'
  BY DEF OpenIsPending
<1>4. DeadlineHolds'
  BY <1>1 DEF DeadlineHolds
<1>5. AuthFloor' /\ PollFloor' /\ CutOnce' /\ Paced'
  BY <1>1 DEF AuthFloor, PollFloor, Pausing, CutOnce, Paced
<1> QED  BY <1>2, <1>3, <1>4, <1>5 DEF IInv

\* A read of the clock changes only the count of lost time.
LEMMA ReadTyped ==
  ASSUME owed \in OwedRecord
  PROVE  /\ Read(owed) \in OwedRecord
         /\ Read(owed) = [owed EXCEPT !.lost = Read(owed).lost]
         /\ Read(owed).lost = IF Left > 0 THEN 0 ELSE owed.lost
BY DEF Read, OwedRecord

\* What one attempt costs, and what its request leaves at the Backend.
LEMMA AttemptSpends ==
  ASSUME IInv, NEW d \in Durations, Attempt(d), NEW sent \in {Reached(d), Spent(d)}
  PROVE  /\ d \in Nat /\ clock \in Nat /\ clock' = clock + d /\ clock' \in Nat
         /\ Left > 0 /\ wait.at = "send" /\ wait.delay = 0 /\ Wait \in Nat
         /\ sent \in OwedRecord
         /\ sent = [owed EXCEPT !.open = sent.open, !.lost = sent.lost]
         /\ sent.open # 0 => pending.key = sent.open
         /\ clock' <= Wait + sent.lost
<1>0. Typed /\ owed \in OwedRecord /\ pending \in Pending \cup {Nothing}
  BY DEF IInv, Typed
<1>n. clock \in Nat /\ Wait \in Nat /\ Late \in Nat /\ RequestTime \in Nat
  BY <1>0, Numbers
<1>1. d \in Nat /\ clock' = clock + d /\ Left > 0 /\ wait.at = "send"
  BY <1>n DEF Durations, Attempt
<1>2. wait.delay = 0
  BY <1>0, <1>1 DEF Typed
<1> DEFINE l == Greater(0, d - Lesser(RequestTime, Left))
<1>3. l \in Nat /\ clock + d <= Wait + l
  BY <1>n, <1>1 DEF Greater, Lesser, Left
<1> HIDE DEF l
<1>4. Spent(d) = [owed EXCEPT !.lost = l]
  BY DEF Spent, l
<1>5. pending.key \in 0..MaxKeys
  BY <1>0, PollingAssumption DEF Pending, Nothing
<1>6. owed.open # 0 => pending.key = owed.open
  BY DEF IInv, OpenIsPending
<1>7. \E k \in {owed.open, pending.key} : sent = [owed EXCEPT !.open = k, !.lost = l]
  <2>1. CASE sent = Spent(d)
    BY <1>0, <1>4, <2>1 DEF OwedRecord
  <2>2. CASE sent = [Spent(d) EXCEPT !.open = pending.key]
    BY <1>0, <1>4, <2>2 DEF OwedRecord
  <2> QED  BY <2>1, <2>2 DEF Reached
<1>8. PICK k \in {owed.open, pending.key} : sent = [owed EXCEPT !.open = k, !.lost = l]
  BY <1>7
<1>9. k \in 0..MaxKeys /\ (k # 0 => pending.key = k)
  BY <1>0, <1>5, <1>6, <1>8 DEF OwedRecord
<1>10. sent \in OwedRecord /\ sent.open = k /\ sent.lost = l
  BY <1>0, <1>3, <1>8, <1>9 DEF OwedRecord
<1> QED  BY <1>n, <1>1, <1>2, <1>3, <1>8, <1>9, <1>10

----------------------------------------------------------------------------
(* The invariant holds.                                                    *)

\* A call starts with a fresh record of what it owes.
LEMMA BeginKeeps ==
  ASSUME IInv, Begin
  PROVE  IInv'
<1>0. Typed  BY DEF IInv
<1>p. pending' \in Pending /\ keys' \in 0..MaxKeys
  <2>1. CASE pending # Nothing /\ UNCHANGED <<pending, keys>>
    BY <1>0, <2>1 DEF Typed
  <2>2. CASE keys < MaxKeys /\ keys' = keys + 1 /\ pending' = Created(keys')
    BY <1>0, <2>2, Numbers DEF Typed, Pending, Created
  <2> QED  BY <2>1, <2>2 DEF Begin
<1>w. /\ wait' \in CallRecord /\ wait'.at = "send" /\ wait'.interval >= ShortestPoll
      /\ wait'.final = FALSE /\ wait'.hint = 0 /\ wait'.delay = 0 /\ wait'.interval = ResumePoll
  <2>1. pending'.op \in BOOLEAN
    BY <1>p DEF Pending
  <2>2. wait' = [Resting EXCEPT !.at = "send", !.posting = ~pending'.op]
    BY DEF Begin
  <2> QED  BY <2>1, <2>2, RestingTyped DEF CallRecord
<1>1. Typed'
  <2>1. owed' \in OwedRecord /\ clock' = 0
    BY <1>0, Numbers DEF Begin, Owed, Typed, OwedRecord
  <2> QED  BY <1>p, <1>w, <2>1 DEF Typed
<1>2. OpenIsPending'
  BY DEF IInv, Nothing, OpenIsPending, Begin
<1>3. DeadlineHolds'
  BY <1>w, PollingAssumption DEF Owed, DeadlineHolds, Begin
<1>4. AuthFloor'
  BY <1>w DEF Owed, AuthFloor, Begin
<1>5. PollFloor'
  BY <1>w DEF Owed, PollFloor, Pausing, Begin
<1>6. CutOnce'
  BY DEF Owed, CutOnce, Begin
<1>7. Paced'
  BY <1>w, PollingAssumption DEF Owed, Paced, Expected, Lesser, Begin
<1> QED  BY <1>1, <1>2, <1>3, <1>4, <1>5, <1>6, <1>7 DEF IInv

\* At the deadline the call ends.
LEMMA ForgetKeyKeeps ==
  ASSUME IInv, ForgetKey
  PROVE  IInv'
<1>1. Typed /\ OpenIsPending /\ DeadlineHolds
  BY DEF IInv
<1>2. wait.delay = 0
  BY <1>1 DEF ForgetKey, Typed
<1> QED  BY <1>1, <1>2, LeaveKeeps DEF ForgetKey, Leave, Typed, OpenIsPending, DeadlineHolds

\* An interrupted call leaves its file, and its lost time.
LEMMA InterruptKeeps ==
  ASSUME IInv, Interrupt
  PROVE  IInv'
<1>1. Typed /\ OpenIsPending /\ DeadlineHolds
  BY DEF IInv
<1>2. clock <= Wait + owed.lost
  BY <1>1, Numbers DEF Typed, CallRecord, OwedRecord, DeadlineHolds
<1> QED  BY <1>1, <1>2, LeaveKeeps DEF Interrupt, Leave, Typed, OpenIsPending, DeadlineHolds

\* Time that passes brings the floors nearer, and is lost.
LEMMA LagKeeps ==
  ASSUME IInv, Lag
  PROVE  IInv'
<1>0. Typed /\ owed \in OwedRecord /\ wait.delay \in Nat
  BY DEF IInv, Typed, CallRecord
<1>n. clock \in Nat /\ Wait \in Nat /\ wait.hint \in Nat /\ wait.interval \in Nat
  BY <1>0, Numbers
<1>o. /\ owed' \in OwedRecord /\ owed'.lost = owed.lost + 1 /\ owed'.open = owed.open
      /\ owed'.asked = owed.asked /\ owed'.poll = owed.poll /\ owed'.first = owed.first
      /\ owed'.auth = owed.auth /\ owed'.short = owed.short /\ owed'.heard = owed.heard
  BY <1>0 DEF Lag, OwedRecord
<1>p. wait' = wait /\ pending' = pending /\ keys' = keys /\ clock' = clock + 1
  BY DEF Lag
<1>1. Typed'
  BY <1>0, <1>n, <1>o, <1>p DEF Typed
<1>2. OpenIsPending'
  BY <1>o, <1>p DEF IInv, OpenIsPending
<1>3. DeadlineHolds'
  BY <1>0, <1>n, <1>o, <1>p DEF IInv, DeadlineHolds, OwedRecord
<1>4. AuthFloor'
  BY <1>0, <1>n, <1>o, <1>p DEF IInv, AuthFloor, Reaches, OwedRecord, Left
<1>5. PollFloor'
  BY <1>0, <1>n, <1>o, <1>p DEF IInv, PollFloor, Pausing, Reaches, OwedRecord, Left
<1>6. CutOnce' /\ Paced'
  BY <1>o, <1>p DEF IInv, CutOnce, Paced
<1> QED  BY <1>1, <1>2, <1>3, <1>4, <1>5, <1>6 DEF IInv

\* An answer in time ends the operation.
LEMMA TerminalKeeps ==
  ASSUME IInv, NEW d \in Durations, Terminal(d)
  PROVE  IInv'
<1>0. Typed /\ DeadlineHolds /\ Attempt(d)
  BY DEF IInv, Terminal
<1>t. /\ clock' \in Nat /\ Wait \in Nat /\ Spent(d) \in OwedRecord
      /\ Spent(d) = [owed EXCEPT !.open = Spent(d).open, !.lost = Spent(d).lost]
      /\ Spent(d).open # 0 => pending.key = Spent(d).open
      /\ clock' <= Wait + Spent(d).lost
  BY <1>0, AttemptSpends
<1>h. /\ wait' = Resting /\ keys' \in 0..MaxKeys
      /\ Spent(d).heard > 0 => Spent(d).heard < Wait
  BY <1>0, <1>t DEF Terminal, Leave, Typed, DeadlineHolds, OwedRecord
<1>1. CASE Taken(clock') /\ owed' = [Ended(Spent(d)) EXCEPT !.heard = clock'] /\ pending' = Nothing
  <2>1. 0 \in 0..MaxKeys
    BY PollingAssumption
  <2>2. /\ owed' \in OwedRecord /\ owed'.open = 0 /\ owed'.lost = Spent(d).lost
        /\ owed'.heard = clock'
    BY <1>t, <1>1, <2>1 DEF Ended, OwedRecord
  <2> QED  BY <1>t, <1>h, <1>1, <2>2, LeaveKeeps DEF Taken
<1>2. CASE owed' = Spent(d) /\ pending' = pending
  BY <1>0, <1>t, <1>h, <1>2, LeaveKeeps DEF Typed
<1> QED  BY <1>1, <1>2 DEF Terminal

\* A start names the first interval; its first poll does not wait for it.
LEMMA StartedKeeps ==
  ASSUME IInv, NEW d \in Durations, NEW g \in Guidance, Started(d, g)
  PROVE  IInv'
<1>0. Typed /\ DeadlineHolds /\ Attempt(d) /\ keys' = keys
  BY DEF IInv, Started
<1>t. /\ d \in Nat /\ clock \in Nat /\ clock' = clock + d /\ clock' \in Nat /\ Wait \in Nat
      /\ Left > 0 /\ wait.at = "send" /\ wait.delay = 0
      /\ Reached(d) \in OwedRecord
      /\ Reached(d) = [owed EXCEPT !.open = Reached(d).open, !.lost = Reached(d).lost]
      /\ Reached(d).open # 0 => pending.key = Reached(d).open
      /\ clock' <= Wait + Reached(d).lost
  BY <1>0, AttemptSpends
<1>g. g \in Nat /\ g >= ShortestPoll /\ ShortestPoll \in Nat \ {0} /\ FallbackCap \in Nat
  BY PollingAssumption
<1>o. /\ owed' \in OwedRecord /\ owed'.open = Reached(d).open /\ owed'.lost = Reached(d).lost
      /\ owed'.asked = g /\ owed'.first = TRUE /\ owed'.auth = owed.auth
      /\ owed'.short = owed.short /\ owed'.heard = owed.heard
  <2>1. owed' = [Reached(d) EXCEPT !.asked = g, !.poll = clock' + g, !.first = TRUE]
    BY DEF Started
  <2>2. clock' + g \in Nat
    BY <1>t, <1>g
  <2>3. /\ owed' \in OwedRecord /\ owed'.open = Reached(d).open /\ owed'.lost = Reached(d).lost
        /\ owed'.asked = g /\ owed'.first = TRUE /\ owed'.auth = Reached(d).auth
        /\ owed'.short = Reached(d).short /\ owed'.heard = Reached(d).heard
    BY <1>t, <1>g, <2>1, <2>2 DEF OwedRecord
  <2>4. /\ Reached(d).auth = owed.auth /\ Reached(d).short = owed.short
        /\ Reached(d).heard = owed.heard
    <3>1. owed \in OwedRecord
      BY <1>0 DEF Typed
    <3> QED  BY <1>t, <3>1 DEF OwedRecord
  <2> QED  BY <2>3, <2>4
<1>h. owed'.heard > 0 => owed'.heard < Wait
  BY <1>0, <1>o DEF DeadlineHolds
<1>p. pending \in Pending
  BY <1>0, <1>t DEF Typed
<1>1. CASE wait' = Resting /\ pending' = pending
  BY <1>0, <1>t, <1>o, <1>h, <1>p, <1>1, LeaveKeeps DEF Typed
<1>2. CASE /\ pending' = [pending EXCEPT !.op = TRUE]
           /\ wait' = [wait EXCEPT !.posting = FALSE, !.attempts = 0, !.interval = g]
  <2>w. /\ wait' \in CallRecord /\ wait'.interval = g /\ wait'.at = "send"
        /\ wait'.final = wait.final /\ wait'.delay = 0
    <3>1. wait \in CallRecord /\ 0 \in 0..MaxRetries /\ g \in Nat \ {0}
      BY <1>0, <1>g, Numbers DEF Typed
    <3> QED  BY <1>t, <1>2, <3>1 DEF CallRecord
  <2>q. pending' \in Pending /\ pending'.key = pending.key
    BY <1>2, <1>p DEF Pending
  <2>1. Typed'
    BY <1>0, <1>t, <1>g, <1>o, <2>w, <2>q DEF Typed
  <2>2. OpenIsPending'
    BY <1>t, <1>o, <2>q DEF OpenIsPending
  <2>3. DeadlineHolds'
    BY <1>t, <1>o, <1>h, <2>w DEF DeadlineHolds
  <2>4. AuthFloor'
    BY <1>0, <1>t, <1>o, <2>w DEF AuthFloor, IInv, Left, Typed, OwedRecord
  <2>5. PollFloor' /\ Paced'
    BY <1>g, <1>o, <2>w DEF PollFloor, Pausing, Paced, Expected, Lesser
  <2>6. CutOnce'
    BY <1>t, <1>o, <2>w DEF CutOnce, IInv
  <2> QED  BY <2>1, <2>2, <2>3, <2>4, <2>5, <2>6 DEF IInv
<1> QED  BY <1>1, <1>2 DEF Started, Leave, Bound

\* An active answer names the floor of the next poll, and the interval with it.
LEMMA ActiveKeeps ==
  ASSUME IInv, NEW d \in Durations, NEW g \in Guidance \cup {0}, Active(d, g)
  PROVE  IInv'
<1>0. /\ Typed /\ DeadlineHolds /\ Attempt(d) /\ keys' = keys /\ pending' = pending
      /\ wait \in CallRecord /\ owed \in OwedRecord
  BY DEF IInv, Active, Typed
<1>n. clock \in Nat /\ Wait \in Nat /\ wait.hint \in Nat /\ wait.interval \in Nat
  BY <1>0, Numbers
<1>t. /\ d \in Nat /\ clock' = clock + d /\ clock' \in Nat
      /\ Left > 0 /\ wait.at = "send" /\ wait.delay = 0
      /\ Spent(d) \in OwedRecord
      /\ Spent(d) = [owed EXCEPT !.open = Spent(d).open, !.lost = Spent(d).lost]
      /\ Spent(d).open # 0 => pending.key = Spent(d).open
      /\ clock' <= Wait + Spent(d).lost
  BY <1>0, AttemptSpends
<1>s. /\ Spent(d).auth = owed.auth /\ Spent(d).short = owed.short /\ Spent(d).heard = owed.heard
      /\ Spent(d).asked = owed.asked
  BY <1>0, <1>t DEF OwedRecord
<1>h. Spent(d).heard > 0 => Spent(d).heard < Wait
  BY <1>0, <1>s DEF DeadlineHolds
<1>1. CASE wait' = Resting /\ owed' = Spent(d)
  BY <1>0, <1>t, <1>h, <1>1, LeaveKeeps DEF Typed
<1>2. CASE /\ wait' = [wait EXCEPT !.at = "nap", !.attempts = 0, !.hint = 0,
                                   !.interval = Revised(wait.interval, g)]
           /\ owed' = [Spent(d) EXCEPT !.asked = Revised(owed.asked, g),
                                       !.poll = clock' + Revised(Expected(owed.asked), g)]
  <2>g. /\ g \in Nat /\ (g = 0 \/ g >= ShortestPoll) /\ ShortestPoll \in Nat \ {0}
        /\ FallbackCap \in Nat /\ owed.asked \in Nat /\ wait.interval >= ShortestPoll
    BY <1>0, PollingAssumption DEF OwedRecord, Typed
  <2>p. wait.interval >= Expected(owed.asked) /\ Expected(owed.asked) \in Nat
    BY <1>t, <2>g DEF IInv, Paced, Expected, Lesser
  <2>i. /\ Revised(wait.interval, g) \in Nat \ {0} /\ Revised(wait.interval, g) >= ShortestPoll
        /\ Revised(wait.interval, g) >= Revised(Expected(owed.asked), g)
        /\ Revised(wait.interval, g) >= Expected(Revised(owed.asked, g))
        /\ Revised(Expected(owed.asked), g) \in Nat /\ Revised(owed.asked, g) \in Nat
    <3>1. CASE g = 0
      BY <1>n, <2>g, <2>p, <3>1 DEF Revised
    <3>2. CASE g # 0
      BY <2>g, <3>2 DEF Revised, Expected, Lesser
    <3> QED  BY <3>1, <3>2
  <2>o. /\ owed' \in OwedRecord /\ owed'.open = Spent(d).open /\ owed'.lost = Spent(d).lost
        /\ owed'.asked = Revised(owed.asked, g)
        /\ owed'.poll = clock' + Revised(Expected(owed.asked), g)
        /\ owed'.auth = owed.auth /\ owed'.short = owed.short /\ owed'.heard = owed.heard
    <3>1. clock' + Revised(Expected(owed.asked), g) \in Nat
      BY <1>t, <2>i
    <3> QED  BY <1>t, <1>s, <1>2, <2>i, <3>1 DEF OwedRecord
  <2>w. /\ wait' \in CallRecord /\ wait'.at = "nap" /\ wait'.hint = 0 /\ wait'.delay = 0
        /\ wait'.final = wait.final /\ wait'.interval = Revised(wait.interval, g)
    <3>1. 0 \in 0..MaxRetries
      BY PollingAssumption
    <3> QED  BY <1>0, <1>t, <1>2, <2>i, <3>1 DEF CallRecord
  <2>1. Typed'
    BY <1>0, <1>t, <2>i, <2>o, <2>w DEF Typed
  <2>2. OpenIsPending'
    BY <1>0, <1>t, <2>o DEF OpenIsPending
  <2>3. DeadlineHolds'
    BY <1>t, <1>h, <1>s, <2>o, <2>w DEF DeadlineHolds
  <2>4. AuthFloor'
    BY <1>0, <1>n, <1>t, <2>o, <2>w DEF AuthFloor, IInv, Left, OwedRecord
  <2>5. PollFloor'
    BY <1>t, <2>i, <2>o, <2>w DEF PollFloor, Pausing
  <2>6. CutOnce' /\ Paced'
    BY <1>t, <2>i, <2>o, <2>w DEF CutOnce, Paced, IInv
  <2> QED  BY <2>1, <2>2, <2>3, <2>4, <2>5, <2>6 DEF IInv
<1> QED  BY <1>1, <1>2 DEF Active, Leave

\* What a failure that is waited for leaves owed.
LEMMA HintedTyped ==
  ASSUME NEW o \in OwedRecord, NEW hint \in Nat, NEW now \in Nat
  PROVE  /\ Hinted(o, hint, now) \in OwedRecord
         /\ Hinted(o, hint, now) = [o EXCEPT !.auth = Hinted(o, hint, now).auth]
         /\ Hinted(o, hint, now).auth = IF hint = 0 THEN o.auth ELSE now + hint
<1>1. now + hint \in Nat
  OBVIOUS
<1>2. CASE hint = 0
  BY <1>2 DEF Hinted, OwedRecord
<1>3. CASE hint # 0
  BY <1>1, <1>3 DEF Hinted, OwedRecord
<1> QED  BY <1>2, <1>3

\* A failure sets the floor of a Retry-After, or that of the interval to wait.
LEMMA ServiceRefusesKeeps ==
  ASSUME IInv, NEW d \in Durations, NEW o \in Reports, ServiceRefuses(d, o)
  PROVE  IInv'
<1>0. /\ Typed /\ DeadlineHolds /\ Attempt(d) /\ keys' = keys
      /\ wait \in CallRecord /\ owed \in OwedRecord
  BY DEF IInv, ServiceRefuses, Typed
<1>n. clock \in Nat /\ Wait \in Nat /\ wait.hint \in Nat /\ wait.interval \in Nat /\ wait.attempts \in Nat
  BY <1>0, Numbers
<1>o. o.hint \in Hints \cup {0} /\ o.hint \in Nat
  BY ReportTyped
<1>s. PICK sent \in {Reached(d), Spent(d)} :
        \/ /\ MayRetry(wait.attempts)
           /\ wait' = [wait EXCEPT !.at = "backoff", !.hint = o.hint]
           /\ owed' = Hinted(sent, o.hint, clock') /\ pending' = pending
        \/ /\ wait' = [wait EXCEPT !.at = "nap", !.attempts = 0, !.hint = o.hint]
           /\ owed' = (IF o.hint # 0 THEN Hinted(sent, o.hint, clock')
                       ELSE [sent EXCEPT !.poll = clock' + Expected(sent.asked)])
           /\ pending' = pending
        \/ wait' = Resting /\ owed' = sent /\ pending' = pending
        \/ wait' = Resting /\ owed' = [sent EXCEPT !.open = 0] /\ pending' = Nothing
  BY DEF ServiceRefuses, Leave, Ended
<1>t. /\ d \in Nat /\ clock' = clock + d /\ clock' \in Nat
      /\ Left > 0 /\ wait.at = "send" /\ wait.delay = 0
      /\ sent \in OwedRecord
      /\ sent = [owed EXCEPT !.open = sent.open, !.lost = sent.lost]
      /\ sent.open # 0 => pending.key = sent.open
      /\ clock' <= Wait + sent.lost
  BY <1>0, AttemptSpends
<1>r. /\ sent.auth = owed.auth /\ sent.short = owed.short /\ sent.heard = owed.heard
      /\ sent.asked = owed.asked /\ sent.poll = owed.poll /\ sent.first = owed.first
  BY <1>0, <1>t DEF OwedRecord
<1>h. owed.heard > 0 => owed.heard < Wait
  BY <1>0 DEF DeadlineHolds
<1>e. /\ Expected(sent.asked) \in Nat /\ wait.interval >= Expected(sent.asked)
  <2>1. owed.asked \in Nat /\ FallbackCap \in Nat
    BY <1>0, PollingAssumption DEF OwedRecord
  <2>2. Expected(sent.asked) \in Nat
    BY <1>r, <2>1 DEF Expected, Lesser
  <2> QED  BY <1>r, <1>t, <2>2 DEF IInv, Paced
<1>u. /\ Hinted(sent, o.hint, clock') \in OwedRecord
      /\ Hinted(sent, o.hint, clock') = [sent EXCEPT !.auth = Hinted(sent, o.hint, clock').auth]
      /\ Hinted(sent, o.hint, clock').auth = IF o.hint = 0 THEN sent.auth ELSE clock' + o.hint
  <2> DEFINE now == clock'  h == o.hint
  <2>1. now \in Nat /\ h \in Nat /\ sent \in OwedRecord
    BY <1>o, <1>t
  <2> HIDE DEF now, h
  <2>2. /\ Hinted(sent, h, now) \in OwedRecord
        /\ Hinted(sent, h, now) = [sent EXCEPT !.auth = Hinted(sent, h, now).auth]
        /\ Hinted(sent, h, now).auth = IF h = 0 THEN sent.auth ELSE now + h
    BY <2>1, HintedTyped
  <2> QED  BY <2>2 DEF now, h
<1>1. CASE wait' = Resting /\ owed' = sent /\ pending' = pending
  BY <1>0, <1>t, <1>r, <1>h, <1>1, LeaveKeeps DEF Typed
<1>2. CASE wait' = Resting /\ owed' = [sent EXCEPT !.open = 0] /\ pending' = Nothing
  <2>1. owed' \in OwedRecord /\ owed'.open = 0 /\ owed'.lost = sent.lost /\ owed'.heard = sent.heard
    BY <1>t, <1>2, PollingAssumption DEF OwedRecord
  <2>2. keys' \in 0..MaxKeys /\ pending' \in Pending \cup {Nothing}
    BY <1>0, <1>2 DEF Typed
  <2> QED  BY <1>t, <1>r, <1>h, <1>2, <2>1, <2>2, LeaveKeeps
<1>3. CASE /\ wait'.at \in {"backoff", "nap"} /\ wait' \in CallRecord /\ pending' = pending
           /\ wait'.at = "backoff" => wait'.attempts < MaxRetries
           /\ wait'.hint = o.hint /\ wait'.delay = 0
           /\ wait'.final = wait.final /\ wait'.interval = wait.interval
           /\ owed' \in OwedRecord /\ owed'.open = sent.open /\ owed'.lost = sent.lost
           /\ owed'.short = sent.short /\ owed'.heard = sent.heard /\ owed'.asked = sent.asked
           /\ owed'.first = sent.first
           /\ owed'.auth = IF o.hint = 0 THEN sent.auth ELSE clock' + o.hint
           /\ owed'.poll = IF wait'.at = "nap" /\ o.hint = 0 THEN clock' + Expected(sent.asked)
                           ELSE sent.poll
  <2>1. Typed'
    BY <1>0, <1>t, <1>3 DEF Typed
  <2>2. OpenIsPending'
    BY <1>t, <1>3 DEF OpenIsPending
  <2>3. DeadlineHolds'
    BY <1>t, <1>r, <1>h, <1>3 DEF DeadlineHolds
  <2>4. AuthFloor'
    BY <1>0, <1>n, <1>t, <1>o, <1>r, <1>3 DEF AuthFloor, IInv, Left, OwedRecord
  <2>5. PollFloor'
    <3>1. CASE wait'.at = "nap" /\ o.hint = 0
      BY <1>n, <1>t, <1>e, <1>3, <3>1 DEF PollFloor, Pausing
    <3>2. CASE ~(wait'.at = "nap" /\ o.hint = 0)
      <4>1. owed.poll \in Nat /\ (~wait.final => owed.first \/ owed.poll <= clock)
        BY <1>0, <1>t DEF IInv, PollFloor, Pausing, OwedRecord
      <4>2. owed'.poll = owed.poll /\ owed'.first = owed.first /\ ~Pausing' /\ wait'.at # "sleep"
        BY <1>r, <1>3, <3>2 DEF Pausing
      <4> QED  BY <1>n, <1>t, <1>3, <4>1, <4>2 DEF PollFloor
    <3> QED  BY <3>1, <3>2
  <2>6. CutOnce' /\ Paced'
    BY <1>t, <1>r, <1>e, <1>3 DEF CutOnce, Paced, IInv
  <2> QED  BY <2>1, <2>2, <2>3, <2>4, <2>5, <2>6 DEF IInv
<1>4. CASE /\ MayRetry(wait.attempts)
           /\ wait' = [wait EXCEPT !.at = "backoff", !.hint = o.hint]
           /\ owed' = Hinted(sent, o.hint, clock') /\ pending' = pending
  <2>1. /\ wait' \in CallRecord /\ wait'.at = "backoff" /\ wait'.attempts < MaxRetries
        /\ wait'.hint = o.hint /\ wait'.delay = 0
        /\ wait'.final = wait.final /\ wait'.interval = wait.interval
    BY <1>0, <1>t, <1>o, <1>4 DEF CallRecord, MayRetry
  <2>2. /\ owed' \in OwedRecord /\ owed'.open = sent.open /\ owed'.lost = sent.lost
        /\ owed'.short = sent.short /\ owed'.heard = sent.heard /\ owed'.asked = sent.asked
        /\ owed'.first = sent.first /\ owed'.poll = sent.poll
        /\ owed'.auth = IF o.hint = 0 THEN sent.auth ELSE clock' + o.hint
    BY <1>t, <1>u, <1>4 DEF OwedRecord
  <2> QED  BY <1>3, <1>4, <2>1, <2>2
<1>5. CASE /\ wait' = [wait EXCEPT !.at = "nap", !.attempts = 0, !.hint = o.hint]
           /\ owed' = (IF o.hint # 0 THEN Hinted(sent, o.hint, clock')
                       ELSE [sent EXCEPT !.poll = clock' + Expected(sent.asked)])
           /\ pending' = pending
  <2>1. /\ wait' \in CallRecord /\ wait'.at = "nap" /\ wait'.hint = o.hint /\ wait'.delay = 0
        /\ wait'.final = wait.final /\ wait'.interval = wait.interval
    <3>1. 0 \in 0..MaxRetries
      BY PollingAssumption
    <3> QED  BY <1>0, <1>t, <1>o, <1>5, <3>1 DEF CallRecord
  <2>2. CASE o.hint # 0
    <3>1. owed' = Hinted(sent, o.hint, clock')
      BY <1>5, <2>2
    <3>2. /\ owed' \in OwedRecord /\ owed'.open = sent.open /\ owed'.lost = sent.lost
          /\ owed'.short = sent.short /\ owed'.heard = sent.heard /\ owed'.asked = sent.asked
          /\ owed'.first = sent.first /\ owed'.poll = sent.poll
          /\ owed'.auth = IF o.hint = 0 THEN sent.auth ELSE clock' + o.hint
      BY <1>t, <1>u, <3>1 DEF OwedRecord
    <3> QED  BY <1>3, <1>5, <2>1, <2>2, <3>2
  <2>3. CASE o.hint = 0
    <3>1. owed' = [sent EXCEPT !.poll = clock' + Expected(sent.asked)]
      BY <1>5, <2>3
    <3>2. clock' + Expected(sent.asked) \in Nat
      BY <1>t, <1>e
    <3>3. /\ owed' \in OwedRecord /\ owed'.open = sent.open /\ owed'.lost = sent.lost
          /\ owed'.short = sent.short /\ owed'.heard = sent.heard /\ owed'.asked = sent.asked
          /\ owed'.first = sent.first /\ owed'.auth = sent.auth
          /\ owed'.poll = clock' + Expected(sent.asked)
      BY <1>t, <3>1, <3>2 DEF OwedRecord
    <3> QED  BY <1>3, <1>5, <2>1, <2>3, <3>3
  <2> QED  BY <2>2, <2>3
<1> QED  BY <1>s, <1>1, <1>2, <1>4, <1>5

\* A delay computed for a hint reaches the floor or the deadline.
LEMMA DelayKeeps ==
  ASSUME IInv, NEW n \in Nat, wait.at \in {"backoff", "nap"},
         wait.at = "nap" => wait.hint # 0,
         wait' \in CallRecord, wait'.at = "sleep", wait'.final = wait.final,
         wait'.interval = wait.interval, wait'.delay = RetryDelay(n, wait.hint),
         owed' = Read(owed), UNCHANGED <<pending, clock, keys>>
  PROVE  IInv'
<1>0. Typed /\ owed \in OwedRecord
  BY DEF IInv, Typed
<1>n. clock \in Nat /\ Wait \in Nat /\ wait.hint \in Nat /\ wait.interval \in Nat
  BY <1>0, Numbers
<1> DEFINE d == RetryDelay(n, wait.hint)
<1>d. d \in Nat /\ (d > 0 => clock + d <= Wait) /\ (Left > 0 => d >= wait.hint \/ d = Left)
  BY <1>n, RetryDelayBounds
<1>w. wait'.delay = d
  OBVIOUS
<1> HIDE DEF d
<1>o. /\ owed' \in OwedRecord /\ owed'.lost = (IF Left > 0 THEN 0 ELSE owed.lost)
      /\ owed'.open = owed.open /\ owed'.asked = owed.asked /\ owed'.poll = owed.poll
      /\ owed'.first = owed.first /\ owed'.auth = owed.auth /\ owed'.short = owed.short
      /\ owed'.heard = owed.heard
  BY <1>0, ReadTyped DEF OwedRecord
<1>1. Typed'
  BY <1>0, <1>o DEF Typed
<1>2. OpenIsPending'
  BY <1>o DEF IInv, OpenIsPending
<1>3. DeadlineHolds'
  <2>1. clock <= Wait + owed.lost /\ owed.lost \in Nat /\ (owed.heard > 0 => owed.heard < Wait)
    BY <1>0, <1>n DEF IInv, DeadlineHolds, Typed, OwedRecord, CallRecord
  <2> QED  BY <1>n, <1>d, <1>w, <1>o, <2>1 DEF DeadlineHolds, Left
<1>4. AuthFloor'
  <2>1. owed.auth \in Nat /\ (Left > 0 => owed.auth <= clock + wait.hint)
    BY <1>0 DEF IInv, AuthFloor, OwedRecord
  <2>2. Left > 0 \/ Wait <= clock
    BY <1>n DEF Left
  <2>3. owed'.auth <= clock' + wait'.delay \/ Wait <= clock' + wait'.delay
    BY <1>n, <1>d, <1>w, <1>o, <2>1, <2>2 DEF Left
  <2> QED  BY <2>3 DEF AuthFloor, Reaches
<1>5. PollFloor'
  <2>1. owed.poll \in Nat /\ (~wait.final /\ Left > 0 => owed.first \/ owed.poll <= clock)
    BY <1>0 DEF IInv, PollFloor, Pausing, OwedRecord
  <2>2. Left > 0 \/ Wait <= clock
    BY <1>n DEF Left
  <2>3. ~wait.final => owed'.first \/ owed'.poll <= clock' + wait'.delay \/ Wait <= clock' + wait'.delay
    BY <1>n, <1>d, <1>w, <1>o, <2>1, <2>2
  <2> QED  BY <2>3 DEF PollFloor, Pausing, Reaches
<1>6. CutOnce' /\ Paced'
  BY <1>o DEF IInv, CutOnce, Paced
<1> QED  BY <1>1, <1>2, <1>3, <1>4, <1>5, <1>6 DEF IInv

\* _send computes the delay of its retry.
LEMMA BackoffKeeps ==
  ASSUME IInv, Backoff
  PROVE  IInv'
<1>0. Typed /\ wait \in CallRecord
  BY DEF IInv, Typed
<1>1. wait.attempts \in Nat /\ wait.attempts + 1 \in 0..MaxRetries /\ wait.hint \in Nat /\ clock \in Nat
  BY <1>0, Numbers DEF Typed, Backoff
<1>2. RetryDelay(wait.attempts, wait.hint) \in Nat
  BY <1>1, RetryDelayBounds
<1>3. wait' = [wait EXCEPT !.at = "sleep", !.attempts = wait.attempts + 1, !.hint = 0,
                           !.delay = RetryDelay(wait.attempts, wait.hint)]
  BY DEF Backoff
<1>4. /\ wait' \in CallRecord /\ wait'.at = "sleep" /\ wait'.final = wait.final
      /\ wait'.interval = wait.interval /\ wait'.delay = RetryDelay(wait.attempts, wait.hint)
  BY <1>0, <1>1, <1>2, <1>3 DEF CallRecord
<1>5. wait.at = "backoff" /\ owed' = Read(owed) /\ UNCHANGED <<pending, clock, keys>>
  BY DEF Backoff
<1> QED  BY <1>1, <1>4, <1>5, DelayKeeps

\* So does the poller for the hint of an outage.
LEMMA NapHintKeeps ==
  ASSUME IInv, NapHint
  PROVE  IInv'
<1>0. Typed /\ wait \in CallRecord
  BY DEF IInv, Typed
<1>1. RetryDelay(0, wait.hint) \in Nat
  BY <1>0, Numbers, RetryDelayBounds
<1>2. /\ wait' \in CallRecord /\ wait'.at = "sleep" /\ wait'.final = wait.final
      /\ wait'.interval = wait.interval /\ wait'.delay = RetryDelay(0, wait.hint)
  BY <1>0, <1>1 DEF CallRecord, NapHint
<1>3. wait.at = "nap" /\ wait.hint # 0 /\ owed' = Read(owed) /\ UNCHANGED <<pending, clock, keys>>
  BY DEF NapHint
<1> QED  BY <1>2, <1>3, DelayKeeps

\* The poller finds time left.
LEMMA NapKeeps ==
  ASSUME IInv, Nap
  PROVE  IInv'
<1>0. Typed /\ owed \in OwedRecord /\ wait \in CallRecord
  BY DEF IInv, Typed
<1>n. clock \in Nat /\ Wait \in Nat /\ Left > 0
  BY <1>0, Numbers DEF Nap
<1>o. /\ owed' \in OwedRecord /\ owed'.lost = 0
      /\ owed'.open = owed.open /\ owed'.asked = owed.asked /\ owed'.poll = owed.poll
      /\ owed'.first = owed.first /\ owed'.auth = owed.auth /\ owed'.short = owed.short
      /\ owed'.heard = owed.heard
  BY <1>0, <1>n, ReadTyped DEF Nap, OwedRecord
<1>w. /\ wait' \in CallRecord /\ wait'.at = "measure" /\ wait'.final = wait.final
      /\ wait'.interval = wait.interval /\ wait'.delay = wait.delay /\ wait'.hint = wait.hint
      /\ wait.delay = 0 /\ wait.at = "nap" /\ wait.hint = 0
      /\ pending' = pending /\ clock' = clock /\ keys' = keys
  BY <1>0 DEF Nap, CallRecord, Typed
<1>1. Typed'
  BY <1>0, <1>o, <1>w DEF Typed
<1>2. OpenIsPending'
  BY <1>o, <1>w DEF IInv, OpenIsPending
<1>3. DeadlineHolds'
  BY <1>n, <1>o, <1>w DEF IInv, DeadlineHolds, Left
<1>4. AuthFloor'
  BY <1>0, <1>n, <1>o, <1>w DEF IInv, AuthFloor, OwedRecord
<1>5. PollFloor'
  BY <1>n, <1>o, <1>w DEF IInv, PollFloor, Pausing, Left
<1>6. CutOnce' /\ Paced'
  BY <1>o, <1>w DEF IInv, CutOnce, Paced
<1> QED  BY <1>1, <1>2, <1>3, <1>4, <1>5, <1>6 DEF IInv

\* The delay between two polls reaches the floor, or the next poll is the
\* final one.
LEMMA MeasureKeeps ==
  ASSUME IInv, Measure
  PROVE  IInv'
<1>0. Typed /\ owed \in OwedRecord /\ wait \in CallRecord /\ wait.final \in BOOLEAN
  BY DEF IInv, Typed, CallRecord
<1>n. /\ clock \in Nat /\ Wait \in Nat /\ wait.interval \in Nat \ {0} /\ ShortestPoll \in Nat \ {0}
      /\ FallbackCap \in Nat /\ FallbackCap >= ShortestPoll /\ wait.interval >= ShortestPoll
  BY <1>0, Numbers DEF Typed, CallRecord
<1> DEFINE d == PollDelay(wait.interval, wait.final)
<1>d. /\ d \in Nat /\ (d > 0 => clock + d <= Wait)
      /\ ~wait.final /\ ~Clipped(wait.interval) => d = wait.interval
  BY <1>0, <1>n, PollDelayBounds
<1>m. \/ /\ wait.final = TRUE
         /\ wait' = [wait EXCEPT !.at = "waitout", !.delay = d]
         /\ owed' = Read(owed)
      \/ /\ wait.final = FALSE
         /\ wait' = [wait EXCEPT !.at = "sleep", !.delay = d, !.interval = Grown(wait.interval),
                                 !.final = Clipped(wait.interval)]
         /\ owed' = [Read(owed) EXCEPT !.first = FALSE,
                                       !.short = IF d < ShortestPoll THEN Lesser(@ + 1, 2) ELSE @]
  BY <1>0 DEF Measure
<1> HIDE DEF d
<1>c. wait.at = "measure" /\ pending' = pending /\ clock' = clock /\ keys' = keys
  BY DEF Measure
<1>r. /\ Read(owed) \in OwedRecord /\ Read(owed) = [owed EXCEPT !.lost = Read(owed).lost]
      /\ Read(owed).lost = (IF Left > 0 THEN 0 ELSE owed.lost)
  BY <1>0, ReadTyped
<1>x. /\ Read(owed).open = owed.open /\ Read(owed).heard = owed.heard
      /\ Read(owed).asked = owed.asked /\ Read(owed).poll = owed.poll
      /\ Read(owed).auth = owed.auth /\ Read(owed).short = owed.short
  BY <1>0, <1>r DEF OwedRecord
<1>g. Grown(wait.interval) \in Nat \ {0} /\ Grown(wait.interval) >= ShortestPoll
  BY <1>n DEF Grown, Lesser
<1>s. wait.final = FALSE => owed.short = 0
  BY <1>0, <1>c DEF IInv, CutOnce, OwedRecord
<1>w. /\ wait' \in CallRecord /\ wait'.interval >= ShortestPoll /\ wait'.delay = d
      /\ \/ /\ wait'.at = "waitout" /\ wait'.final = TRUE /\ wait'.interval = wait.interval
         \/ /\ wait'.at = "sleep" /\ wait.final = FALSE /\ wait'.final = Clipped(wait.interval)
            /\ wait'.interval = Grown(wait.interval)
            /\ owed'.short = (IF d < ShortestPoll THEN 1 ELSE 0)
      /\ owed' \in OwedRecord /\ owed'.lost = Read(owed).lost
      /\ owed'.open = owed.open /\ owed'.asked = owed.asked /\ owed'.poll = owed.poll
      /\ owed'.auth = owed.auth /\ owed'.heard = owed.heard
  <2>1. CASE wait.final = TRUE
    BY <1>0, <1>n, <1>d, <1>m, <1>r, <1>x, <2>1 DEF CallRecord
  <2>2. CASE wait.final = FALSE
    <3>1. Clipped(wait.interval) \in BOOLEAN
      BY DEF Clipped
    <3>2. /\ wait' \in CallRecord /\ wait'.delay = d /\ wait'.at = "sleep"
          /\ wait'.final = Clipped(wait.interval) /\ wait'.interval = Grown(wait.interval)
      BY <1>0, <1>d, <1>m, <1>g, <2>2, <3>1 DEF CallRecord
    <3>3. owed' = [Read(owed) EXCEPT !.first = FALSE, !.short = IF d < ShortestPoll THEN 1 ELSE 0]
      <4>1. Lesser(0 + 1, 2) = 1 /\ Read(owed).short = 0
        BY <1>s, <1>x, <2>2 DEF Lesser
      <4> QED  BY <1>m, <2>2, <4>1
    <3>4. (IF d < ShortestPoll THEN 1 ELSE 0) \in {0, 1}
      OBVIOUS
    <3>5. /\ owed' \in OwedRecord /\ owed'.lost = Read(owed).lost
          /\ owed'.short = (IF d < ShortestPoll THEN 1 ELSE 0)
          /\ owed'.open = owed.open /\ owed'.asked = owed.asked /\ owed'.poll = owed.poll
          /\ owed'.auth = owed.auth /\ owed'.heard = owed.heard
      BY <1>r, <1>x, <3>3, <3>4 DEF OwedRecord
    <3> QED  BY <1>g, <2>2, <3>2, <3>5
  <2> QED  BY <1>0, <2>1, <2>2
<1>1. Typed'
  BY <1>0, <1>c, <1>w DEF Typed
<1>2. OpenIsPending'
  BY <1>c, <1>w DEF IInv, OpenIsPending
<1>3. DeadlineHolds'
  <2>1. /\ clock <= Wait + owed.lost /\ owed.lost \in Nat
        /\ owed.heard > 0 => owed.heard < Wait
    BY <1>0, <1>n DEF IInv, DeadlineHolds, CallRecord, OwedRecord
  <2> QED  BY <1>n, <1>d, <1>c, <1>r, <1>w, <2>1 DEF DeadlineHolds, Left
<1>l. Left > 0 \/ Wait <= clock
  BY <1>n DEF Left
<1>4. AuthFloor'
  <2>1. owed.auth \in Nat /\ (Left > 0 => owed.auth <= clock)
    BY <1>0, <1>c DEF IInv, AuthFloor, OwedRecord
  <2>2. owed'.auth <= clock' + wait'.delay \/ Wait <= clock' + wait'.delay
    BY <1>n, <1>d, <1>c, <1>w, <1>l, <2>1
  <2> QED  BY <1>w, <2>2 DEF AuthFloor, Reaches
<1>5. PollFloor'
  <2>1. owed.poll \in Nat /\ (~wait.final /\ Left > 0 => owed.poll <= clock + wait.interval)
    BY <1>0, <1>c DEF IInv, PollFloor, Pausing, OwedRecord
  <2>2. ~wait'.final => owed'.poll <= clock' + wait'.delay \/ Wait <= clock' + wait'.delay
    <3>1. ASSUME ~wait'.final PROVE wait.final = FALSE /\ d = wait.interval
      BY <1>0, <1>w, <1>d, <3>1
    <3>2. owed'.poll = owed.poll /\ clock' = clock /\ wait'.delay = d
      BY <1>c, <1>w
    <3>3. ASSUME ~wait'.final PROVE owed.poll <= clock + d \/ Wait <= clock + d
      <4>1. d = wait.interval /\ (Left > 0 => owed.poll <= clock + wait.interval)
        BY <2>1, <3>1, <3>3
      <4>2. CASE Left > 0
        BY <4>1, <4>2
      <4>3. CASE Wait <= clock
        BY <1>n, <1>d, <4>3
      <4> QED  BY <1>l, <4>2, <4>3
    <3> QED  BY <3>2, <3>3
  <2> QED  BY <1>w, <2>2 DEF PollFloor, Pausing, Reaches
<1>6. CutOnce'
  <2>1. ~Clipped(wait.interval) /\ wait.final = FALSE => ~(d < ShortestPoll)
    BY <1>n, <1>d
  <2> QED  BY <1>w, <2>1 DEF CutOnce
<1>7. Paced'
  <2>1. owed.asked \in Nat /\ wait.interval >= Expected(owed.asked)
    BY <1>0, <1>c DEF IInv, Paced, OwedRecord
  <2>2. Grown(wait.interval) >= Expected(owed.asked)
    BY <1>n, <2>1 DEF Grown, Expected, Lesser
  <2> QED  BY <1>w, <2>1, <2>2 DEF Paced
<1> QED  BY <1>1, <1>2, <1>3, <1>4, <1>5, <1>6, <1>7 DEF IInv

\* After the sleep the floor is reached, or the deadline is.
LEMMA SleepKeeps ==
  ASSUME IInv, Sleep
  PROVE  IInv'
<1>0. Typed /\ owed \in OwedRecord /\ wait \in CallRecord
  BY DEF IInv, Typed
<1>n. clock \in Nat /\ Wait \in Nat /\ Late \in Nat /\ wait.delay \in Nat /\ owed.lost \in Nat
  BY <1>0, Numbers DEF CallRecord, OwedRecord
<1>1. PICK late \in 0..Late : /\ clock' = clock + wait.delay + late
                              /\ owed' = [owed EXCEPT !.lost = owed.lost + late]
  BY DEF Sleep
<1>o. /\ owed' \in OwedRecord /\ owed'.lost = owed.lost + late
      /\ owed'.open = owed.open /\ owed'.asked = owed.asked /\ owed'.poll = owed.poll
      /\ owed'.first = owed.first /\ owed'.auth = owed.auth /\ owed'.short = owed.short
      /\ owed'.heard = owed.heard
  BY <1>0, <1>n, <1>1 DEF OwedRecord
<1>c. /\ late \in Nat /\ clock' \in Nat /\ clock' >= clock + wait.delay
      /\ clock' <= Wait + owed'.lost /\ (owed'.heard > 0 => owed'.heard < Wait)
      /\ pending' = pending /\ keys' = keys
  BY <1>n, <1>1, <1>o DEF IInv, DeadlineHolds, Sleep
<1>l. Wait <= clock' => ~(Left' > 0)
  <2> DEFINE now == clock'
  <2>1. Wait \in Nat /\ now \in Nat
    BY <1>n, <1>c
  <2>2. Left' = Wait - now
    BY DEF Left
  <2> HIDE DEF now
  <2>3. Wait <= now => ~(Left' > 0)
    BY <2>1, <2>2
  <2> QED  BY <2>3 DEF now
<1>2. CASE wait' = Resting
  BY <1>0, <1>o, <1>c, <1>2, LeaveKeeps DEF IInv, OpenIsPending, Typed
<1>3. CASE wait.at = "sleep" /\ wait' = [wait EXCEPT !.at = "send", !.delay = 0]
  <2>w. /\ wait' \in CallRecord /\ wait'.at = "send" /\ wait'.delay = 0
        /\ wait'.final = wait.final /\ wait'.interval = wait.interval
    BY <1>0, <1>3 DEF CallRecord
  <2>1. Typed'
    BY <1>0, <1>o, <1>c, <1>3, <2>w DEF Typed
  <2>2. OpenIsPending'
    BY <1>o, <1>c DEF IInv, OpenIsPending
  <2>3. DeadlineHolds'
    BY <1>n, <1>c, <2>w DEF DeadlineHolds
  <2>4. AuthFloor'
    <3>1. owed.auth \in Nat /\ (owed.auth <= clock + wait.delay \/ Wait <= clock + wait.delay)
      BY <1>0, <1>3 DEF IInv, AuthFloor, Reaches, OwedRecord
    <3>2. owed'.auth = owed.auth
      BY <1>o
    <3>3. owed'.auth <= clock' \/ Wait <= clock'
      BY <1>n, <1>c, <3>1, <3>2
    <3> QED  BY <1>l, <2>w, <3>3 DEF AuthFloor
  <2>5. PollFloor'
    <3>1. /\ owed.poll \in Nat
          /\ ~wait.final => owed.first \/ owed.poll <= clock + wait.delay \/ Wait <= clock + wait.delay
      BY <1>0, <1>3 DEF IInv, PollFloor, Reaches, OwedRecord
    <3>2. owed'.poll = owed.poll /\ owed'.first = owed.first
      BY <1>o
    <3>3. ~wait.final => owed'.first \/ owed'.poll <= clock' \/ Wait <= clock'
      BY <1>n, <1>c, <3>1, <3>2
    <3> QED  BY <1>l, <2>w, <3>3 DEF PollFloor, Pausing
  <2>6. CutOnce' /\ Paced'
    BY <1>o, <1>3, <2>w DEF IInv, CutOnce, Paced
  <2> QED  BY <2>1, <2>2, <2>3, <2>4, <2>5, <2>6 DEF IInv
<1> QED  BY <1>2, <1>3 DEF Sleep, Leave

----------------------------------------------------------------------------
(* The theorems.                                                           *)

\* Before the first call nothing is owed.
LEMMA InitKeeps == PollingInit => IInv
<1> SUFFICES ASSUME PollingInit PROVE IInv
  OBVIOUS
<1>1. Wait \in Nat /\ Wait # 0 /\ 0 \in 0..MaxKeys /\ ResumePoll \in Nat
  BY PollingAssumption
<1>2. owed \in OwedRecord
  BY <1>1 DEF PollingInit, Owed, OwedRecord
<1>3. Typed
  BY <1>1, <1>2, RestingTyped DEF PollingInit, Typed
<1>4. OpenIsPending /\ DeadlineHolds
  BY <1>1, RestingTyped DEF PollingInit, Owed, OpenIsPending, DeadlineHolds
<1>5. AuthFloor /\ PollFloor /\ CutOnce /\ Paced
  BY RestingTyped DEF PollingInit, Owed, AuthFloor, PollFloor, Pausing, CutOnce, Paced
<1> QED  BY <1>3, <1>4, <1>5 DEF IInv

\* Every step keeps the invariant.
LEMMA StepKeeps == IInv /\ [PollingNext]_pollingVars => IInv'
<1> SUFFICES ASSUME IInv, [PollingNext]_pollingVars PROVE IInv'
  OBVIOUS
<1>1. CASE Begin \/ ForgetKey \/ Backoff \/ NapHint \/ Nap \/ Measure \/ Sleep \/ Lag \/ Interrupt
  BY <1>1, BeginKeeps, ForgetKeyKeeps, BackoffKeeps, NapHintKeeps, NapKeeps, MeasureKeeps,
     SleepKeeps, LagKeeps, InterruptKeeps
<1>2. ASSUME NEW d \in Durations, Terminal(d) PROVE IInv'
  BY <1>2, TerminalKeeps
<1>3. ASSUME NEW d \in Durations, NEW g \in Guidance, Started(d, g) PROVE IInv'
  BY <1>3, StartedKeeps
<1>4. ASSUME NEW d \in Durations, NEW g \in Guidance \cup {0}, Active(d, g) PROVE IInv'
  BY <1>4, ActiveKeeps
<1>5. ASSUME NEW d \in Durations, NEW o \in Reports, ServiceRefuses(d, o) PROVE IInv'
  BY <1>5, ServiceRefusesKeeps
<1>6. CASE UNCHANGED pollingVars
  BY <1>6 DEF pollingVars, IInv, Typed, OpenIsPending, DeadlineHolds, AuthFloor, PollFloor,
    Pausing, Reaches, CutOnce, Paced, Left
<1> QED  BY <1>1, <1>2, <1>3, <1>4, <1>5, <1>6 DEF PollingNext

\* The invariant holds in every state of every behaviour of await_operation.
THEOREM PollingInvariance == PollingSpec => []IInv
<1> QED  BY InitKeeps, StepKeeps, PTL DEF PollingSpec

\* The types of the call, the pending file and the clock.
THEOREM PollingTypeCorrect == PollingSpec => []PollingTypeOK
<1>1. IInv => PollingTypeOK
  BY DEF IInv, Typed, CallRecord, OwedRecord, PollingTypeOK
<1> QED  BY <1>1, PollingInvariance, PTL

\* A call of await_operation outlives its budget by no more than the time its
\* process lost since it last saw time left, and no late answer is taken,
\* whatever the budget, the time-outs, the retries and the overruns.
THEOREM DeadlineAlwaysHolds == PollingSpec => []DeadlineHolds
<1>1. IInv => DeadlineHolds
  BY DEF IInv
<1> QED  BY <1>1, PollingInvariance, PTL

\* The poller never spins.  After its first poll, which goes out at once, every
\* request but the one final poll keeps the interval that the 202 or an answer
\* named, up to the cap of the fallback, and every request keeps a heeded
\* Retry-After, whatever the guidance, the hints and the overruns.
THEOREM PacingAlwaysHolds == PollingSpec => []PacingHolds
<1>1. ASSUME IInv PROVE PacingHolds
  <2>1. /\ clock \in Nat /\ owed.poll \in Nat /\ owed.auth \in Nat
        /\ owed.short \in {0, 1}
    BY <1>1 DEF IInv, Typed, CallRecord, OwedRecord
  <2>2. FloorsHold
    BY <1>1, <2>1 DEF IInv, AuthFloor, PollFloor, Pausing, FloorsHold
  <2> QED  BY <2>1, <2>2 DEF PacingHolds
<1> QED  BY <1>1, PollingInvariance, PTL

\* While the Backend has an operation whose end nobody heard, the pending file
\* holds its key, through time-outs, lost replies and deaths of the process.
THEOREM OpenAlwaysPending == PollingSpec => []OpenIsPending
<1>1. IInv => OpenIsPending
  BY DEF IInv
<1> QED  BY <1>1, PollingInvariance, PTL

=============================================================================

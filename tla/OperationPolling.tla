-------------------------- MODULE OperationPolling --------------------------
(***************************************************************************)
(* The wait of one operation against one deadline: await_operation of      *)
(* transport/operations.py over the retry loop of BackendClient._send      *)
(* (transport/backend.py) and the pending file of PendingOperationStore.   *)
(* Time is counted in small units from the start of the call.  Each read   *)
(* of the clock that a sleep depends on is a step of its own, and what the *)
(* process does between two steps takes time (Lag): a remaining time may   *)
(* be zero or negative when it is read, and is stale when it is slept.  A  *)
(* call can end, or the process die, anywhere; the next call resumes from  *)
(* the file.                                                               *)
(***************************************************************************)
EXTENDS Integers, FiniteSets

CONSTANTS Wait,         \* operation_wait_timeout, the budget of one call
          RequestTime,      \* the client's timeout of one HTTP attempt
          Late,         \* how far an attempt or a pause in the process overruns
          MaxRetries,   \* the client's max_retries
          Reserve,      \* _FINAL_POLL_RESERVE_SECONDS
          ShortestPoll, \* _MIN_POLL_MS
          ResumePoll,   \* _DEFAULT_RESUME_POLL_MS
          FallbackCap,  \* _MAX_FALLBACK_POLL_MS
          BackoffBase, BackoffCap, \* _RETRY_BACKOFF_BASE_SECONDS, _MAX_
          Guidance,     \* the poll_after_ms values a reply may carry
          Hints,        \* the Retry-After values an outage may carry
          MaxKeys       \* bound: idempotency keys made

ASSUME PollingAssumption ==
  /\ {Wait, RequestTime, Reserve, ShortestPoll, BackoffBase} \subseteq Nat \ {0}
  /\ {Late, MaxRetries, MaxKeys, ResumePoll, FallbackCap, BackoffCap} \subseteq Nat
  /\ Reserve <= ShortestPoll
  /\ ResumePoll >= ShortestPoll /\ FallbackCap >= ShortestPoll
  /\ BackoffCap >= BackoffBase
  /\ \A g \in Guidance : g \in Nat /\ g >= ShortestPoll
  /\ \A h \in Hints : h \in Nat /\ h >= Reserve

VARIABLES wait,    \* the call: where it is and what await_operation holds
          pending, \* the pending file, or Nothing
          clock,   \* time since the call began
          owed,    \* history: what the Backend asked and what is open there
          keys     \* idempotency keys made so far

pollingVars == <<wait, pending, clock, owed, keys>>

\* What the pending file may hold: a key, and perhaps the id of its operation.
Pending == [key : 1..MaxKeys, op : BOOLEAN]
Nothing == [key |-> 0, op |-> FALSE]   \* no pending file
Created(key) == [key |-> key, op |-> FALSE]
Bound(state) == [state EXCEPT !.op = TRUE]

\* at:       "idle", "send" (about to attempt), "backoff" (_send is to compute
\*           the delay before its next attempt), "nap" (the poller is to check
\*           the time left), "measure" (it is to read what remains), "sleep" (a
\*           delay is computed, time.sleep is called), "waitout" (the same, and
\*           the call raises after it)
\* posting:  the request under way is the start POST, not a GET
\* attempts: retries _send has used for it
\* interval: poll_after_ms, final: final_poll
\* hint:     the Retry-After that a failed GET left to the poller, or 0
\* delay:    the sleep that was computed
Resting == [at |-> "idle", posting |-> FALSE, attempts |-> 0,
            interval |-> ResumePoll, final |-> FALSE, hint |-> 0, delay |-> 0]

\* open:  the key under which the Backend has an operation nobody heard the
\*        end of, or 0
\* asked: the last poll_after_ms of this call, ResumePoll while there is none
\* poll:  when the interval asked for is over, counted from the 202 or from the
\*        last answer or failure that the poller met with a wait
\* first: the poller has not waited an interval yet
\* auth:  when the last heeded Retry-After is over
\* short: waits between two polls below ShortestPoll in this call
\* lost:  time the process lost (Lag, a sleep or an attempt that overran) since
\*        a read of the clock last found time left for a sleep or an attempt
\* heard: when an answer was taken
Owed == [open |-> 0, asked |-> ResumePoll, poll |-> 0, first |-> TRUE, auth |-> 0,
         short |-> 0, lost |-> 0, heard |-> 0]

Lesser(a, b) == IF a < b THEN a ELSE b
Greater(a, b) == IF a > b THEN a ELSE b
\* Half of a time, rounded up: rounding must not hide ever smaller waits.
Half(t) == (t + 1) \div 2
Left == Wait - clock

PollingInit == /\ wait = Resting /\ pending = Nothing /\ clock = 0
               /\ owed = Owed /\ keys = 0

---------------------------------------------------------------------------
(* The two sleeping policies.                                              *)

Doubled(n) == Lesser(BackoffBase * 2^n, BackoffCap)

\* retry_delay: backoff, raised to the hint, clipped to the deadline.
RetryDelay(n, hint) == Lesser(Greater(Doubled(n), hint), Greater(0, Left))

\* Mutant: the poller does not remember that its reserved poll is under way.
MutClipped(interval) == FALSE
\* The wait would reach the deadline, so the next poll is the final one.
Clipped(interval) == interval >= Left

\* Mutant: the rest of the budget is slept as it was read.
MutPollDelay(interval, final) ==
  IF final THEN Left
  ELSE IF interval >= Left THEN Left - Lesser(Reserve, Half(Left))
  ELSE interval

\* _sleep_then_grow: a final poll waits the rest out, a clipped wait leaves a
\* reserve for the final poll, any other waits the interval.
PollDelay(interval, final) ==
  IF final THEN Greater(0, Left)
  ELSE IF interval >= Left THEN Greater(0, Left - Lesser(Reserve, Half(Left)))
  ELSE interval

Grown(interval) == Lesser(2 * interval, FallbackCap)

\* What the Backend may expect of a wait whose reply names no interval: the
\* last one it named, up to the cap of the client's own fallback.
Expected(asked) == Lesser(asked, FallbackCap)

\* A read of the clock that finds time left ends the count of lost time.
Read(o) == [o EXCEPT !.lost = IF Left > 0 THEN 0 ELSE @]

---------------------------------------------------------------------------
(* How one HTTP attempt fails.                                             *)

\* An error reply of the service; after is its Retry-After, 0 for none or an
\* invalid one.  "blocked" stands for the codes no retry may repeat,
\* "auth" for api_key_service_unavailable.
ErrorReply ==
  [status : {400, 503}, code : {"blocked", "auth", "operation_not_found", "other"},
   retryable : BOOLEAN, after : Hints \cup {0}]

WireError(code, retryable) ==
  [status |-> 0, code |-> code, retryable |-> retryable, after |-> 0]

\* No connection, a broken one, a timeout.
Unreached == WireError("network", TRUE)
\* A redirect, too large a body, none that is a JSON object, a wrong status,
\* malformed error details; or an OSError in the answer that is no URLError.
Unusable == WireError("invalid", FALSE)

Failures == ErrorReply \cup {Unreached, Unusable}

\* _automatic_retry_blocked.
RetryBlocked(failure) == failure.code = "blocked"

\* What _send and the poller look at: whether the attempt may be repeated, after
\* which time, and whether the operation is gone.
Reported(failure) ==
  [retry |-> failure.retryable /\ ~RetryBlocked(failure),
   hint |-> IF failure.status = 503 /\ failure.code = "auth" /\ failure.retryable
            THEN failure.after ELSE 0,
   gone |-> failure.code = "operation_not_found"]

Reports == {Reported(f) : f \in Failures}

MayRetry(attempts) == attempts < MaxRetries

---------------------------------------------------------------------------
(* await_operation.                                                        *)

\* A call raises or returns; the pending file stays as it is.
Leave == wait' = Resting

\* load_or_create: an existing file is resumed, else one is written with a
\* fresh key.  A known operation is polled at once.
Begin ==
  /\ wait.at = "idle"
  /\ \/ /\ pending # Nothing
        /\ UNCHANGED <<pending, keys>>
     \/ /\ pending = Nothing /\ keys < MaxKeys
        /\ keys' = keys + 1
        /\ pending' = Created(keys')
  /\ wait' = [Resting EXCEPT !.at = "send", !.posting = ~pending'.op]
  /\ clock' = 0
  /\ owed' = [Owed EXCEPT !.open = owed.open]

\* Mutant: a wait that timed out drops the file of its operation.
MutForgetKey ==
  /\ wait.at = "send" \/ (wait.at = "nap" /\ wait.hint = 0)
  /\ Left <= 0
  /\ Leave
  /\ pending' = Nothing
  /\ UNCHANGED <<clock, owed, keys>>

\* _ensure_time_remaining and request_timeout: nothing starts at the deadline.
ForgetKey ==
  /\ wait.at = "send" \/ (wait.at = "nap" /\ wait.hint = 0)
  /\ Left <= 0
  /\ Leave
  /\ UNCHANGED <<pending, clock, owed, keys>>

\* One attempt: the socket timeout is clipped to the deadline, but reading the
\* body may overrun it.
Attempt(d) ==
  /\ wait.at = "send"
  /\ Left > 0
  /\ d <= Lesser(RequestTime, Left) + Late
  /\ clock' = clock + d

Spent(d) == [owed EXCEPT !.lost = Greater(0, d - Lesser(RequestTime, Left))]

\* The attempt reaches the Backend, which is idempotent in the key: a POST
\* opens the operation of its key, whether or not the answer comes back.
Reached(d) == IF wait.posting THEN [Spent(d) EXCEPT !.open = pending.key] ELSE Spent(d)

\* _record_success and _record_failure drop the legacy file.
Ended(o) == [o EXCEPT !.open = 0]

\* 202 to the start: the operation id is stored, and its poll_after_ms is the
\* next interval; the first GET does not wait for it.  An invalid envelope, or
\* an id the file cannot take, raises.
Started(d, guidance) ==
  /\ wait.posting
  /\ Attempt(d)
  /\ owed' = [Reached(d) EXCEPT !.asked = guidance, !.poll = clock' + guidance, !.first = TRUE]
  /\ \/ /\ pending' = Bound(pending)
        /\ wait' = [wait EXCEPT !.posting = FALSE, !.attempts = 0, !.interval = guidance]
     \/ /\ Leave
        /\ UNCHANGED pending
  /\ UNCHANGED keys

\* poll_after_ms of an active answer, when there is one (else 0).
Revised(interval, guidance) == IF guidance = 0 THEN interval ELSE guidance

\* 200 with an active status: the revision is taken and the poller sleeps.
Active(d, guidance) ==
  /\ ~wait.posting
  /\ Attempt(d)
  /\ IF clock' >= Wait THEN Leave /\ owed' = Spent(d)
     ELSE /\ wait' = [wait EXCEPT !.at = "nap", !.attempts = 0, !.hint = 0,
                                  !.interval = Revised(wait.interval, guidance)]
          /\ owed' = [Spent(d) EXCEPT
               !.asked = Revised(owed.asked, guidance),
               !.poll = clock' + Revised(Expected(owed.asked), guidance)]
  /\ UNCHANGED <<pending, keys>>

\* The check between the answer of a poll and its validation.
Taken(t) == t < Wait

\* 200 with a terminal status: accept_result may still refuse a result, which
\* leaves the file; otherwise the file goes.
Terminal(d) ==
  /\ ~wait.posting
  /\ Attempt(d)
  /\ Leave
  /\ \/ /\ Taken(clock')
        /\ owed' = [Ended(Spent(d)) EXCEPT !.heard = clock']
        /\ pending' = Nothing
     \/ /\ owed' = Spent(d)
        /\ UNCHANGED pending
  /\ UNCHANGED keys

\* A Retry-After that is heeded is a floor from then on.
Hinted(o, hint, now) == IF hint = 0 THEN o ELSE [o EXCEPT !.auth = now + hint]

\* An attempt that fails.  _send repeats it while it may; then a POST raises; a
\* GET ends the operation that is gone, in time or not, raises what may not be
\* retried, and leaves the rest to the poller, which waits the hint of an
\* outage or an interval.
ServiceRefuses(d, o) ==
  /\ Attempt(d)
  /\ \E sent \in {Reached(d), Spent(d)} :
       IF o.retry /\ MayRetry(wait.attempts)
       THEN /\ wait' = [wait EXCEPT !.at = "backoff", !.hint = o.hint]
            /\ owed' = Hinted(sent, o.hint, clock')
            /\ UNCHANGED pending
       ELSE IF wait.posting
       THEN Leave /\ owed' = sent /\ UNCHANGED pending
       ELSE IF o.gone
       THEN Leave /\ owed' = Ended(sent) /\ pending' = Nothing
       ELSE IF ~o.retry \/ clock' >= Wait
       THEN Leave /\ owed' = sent /\ UNCHANGED pending
       ELSE /\ wait' = [wait EXCEPT !.at = "nap", !.attempts = 0, !.hint = o.hint]
            /\ owed' = IF o.hint # 0 THEN Hinted(sent, o.hint, clock')
                       ELSE [sent EXCEPT !.poll = clock' + Expected(sent.asked)]
            /\ UNCHANGED pending
  /\ UNCHANGED keys

\* _send computes the delay before its next attempt; no check goes before it.
Backoff ==
  /\ wait.at = "backoff"
  /\ wait' = [wait EXCEPT !.at = "sleep", !.attempts = @ + 1, !.hint = 0,
                          !.delay = RetryDelay(wait.attempts, wait.hint)]
  /\ owed' = Read(owed)
  /\ UNCHANGED <<pending, clock, keys>>

\* _sleep_after_transport_failure: an outage's hint is slept out, the interval
\* and the final poll stay.
NapHint ==
  /\ wait.at = "nap" /\ wait.hint # 0
  /\ wait' = [wait EXCEPT !.at = "sleep", !.hint = 0, !.delay = RetryDelay(0, wait.hint)]
  /\ owed' = Read(owed)
  /\ UNCHANGED <<pending, clock, keys>>

\* _sleep_then_grow, after an active answer or another failure, finds time left.
Nap ==
  /\ wait.at = "nap" /\ wait.hint = 0
  /\ Left > 0
  /\ wait' = [wait EXCEPT !.at = "measure"]
  /\ owed' = Read(owed)
  /\ UNCHANGED <<pending, clock, keys>>

\* It reads what remains, which by now may be nothing or less.
Measure ==
  /\ wait.at = "measure"
  /\ LET d == PollDelay(wait.interval, wait.final)
     IN IF wait.final
        THEN /\ wait' = [wait EXCEPT !.at = "waitout", !.delay = d]
             /\ owed' = Read(owed)
        ELSE /\ wait' = [wait EXCEPT !.at = "sleep", !.delay = d,
                                     !.interval = Grown(wait.interval),
                                     !.final = Clipped(wait.interval)]
             /\ owed' = [Read(owed) EXCEPT !.first = FALSE,
                                           !.short = IF d < ShortestPoll
                                                     THEN Lesser(@ + 1, 2) ELSE @]
  /\ UNCHANGED <<pending, clock, keys>>

\* time.sleep, from which the process may return late.
Sleep ==
  /\ wait.at \in {"sleep", "waitout"}
  /\ \E late \in 0..Late :
       /\ clock' = clock + wait.delay + late
       /\ owed' = [owed EXCEPT !.lost = @ + late]
  /\ IF wait.at = "waitout" THEN Leave ELSE wait' = [wait EXCEPT !.at = "send", !.delay = 0]
  /\ UNCHANGED <<pending, keys>>

\* The process is slow between two of its steps.
Lag ==
  /\ wait.at # "idle"
  /\ clock < Wait + Late
  /\ clock' = clock + 1
  /\ owed' = [owed EXCEPT !.lost = @ + 1]
  /\ UNCHANGED <<wait, pending, keys>>

\* The caller is interrupted or its process dies; the file stays.
Interrupt ==
  /\ wait.at # "idle"
  /\ Leave
  /\ UNCHANGED <<pending, clock, owed, keys>>

Durations == 0..(RequestTime + Late)

PollingNext ==
  \/ Begin \/ ForgetKey \/ Backoff \/ NapHint \/ Nap \/ Measure \/ Sleep \/ Lag \/ Interrupt
  \/ \E d \in Durations :
       \/ Terminal(d)
       \/ \E g \in Guidance : Started(d, g)
       \/ \E g \in Guidance \cup {0} : Active(d, g)
       \/ \E o \in Reports : ServiceRefuses(d, o)

PollingSpec == PollingInit /\ [][PollingNext]_pollingVars

---------------------------------------------------------------------------
(* Properties.                                                             *)

PollingTypeOK ==
  /\ wait \in [at : {"idle", "send", "backoff", "nap", "measure", "sleep", "waitout"},
               posting : BOOLEAN, attempts : 0..MaxRetries, interval : Nat \ {0},
               final : BOOLEAN, hint : Hints \cup {0}, delay : Int]
  /\ pending \in Pending \cup {Nothing}
  /\ clock \in Nat /\ keys \in 0..MaxKeys
  /\ owed.open \in 0..MaxKeys

\* A call outlives its budget by no more than the time its process lost by
\* itself since it last saw time left, through every chain of attempts, retry
\* delays and waits, the sleep it is about to make included; no sleep is
\* negative (time.sleep would raise), though what remains may be negative when
\* it is read; and no answer that came at or after the deadline is taken.
DeadlineHolds ==
  /\ wait.delay >= 0
  /\ clock + wait.delay <= Wait + owed.lost
  /\ owed.heard > 0 => owed.heard < Wait

\* Once the poller has waited (the first poll goes out at once, as
\* docs/operation-polling.md:4 says), a request waits for the last interval
\* that a reply named, the 202's included: in full when the answer before it
\* named it, else up to the cap of the fallback.  The one final poll may come
\* sooner, but no request comes sooner than a heeded Retry-After (that of a
\* retryable 503 api_key_service_unavailable; others are not heeded).
FloorsHold ==
  (wait.at = "send" /\ Left > 0) =>
     /\ clock >= owed.auth
     /\ clock >= owed.poll \/ owed.first \/ wait.final

\* A call paces its polls: it never spins at the end of its budget (at most
\* one wait is shorter than the shortest interval, the one before the final
\* poll), and it keeps the floors above.
PacingHolds == owed.short <= 1 /\ FloorsHold

\* While the Backend has an operation whose end nobody heard, the pending file
\* holds its key: time-outs, lost replies, refused results and dead processes
\* all lead the next call back to it, and none opens a second one.
OpenIsPending == owed.open # 0 => pending.key = owed.open

=============================================================================

---------------------------- MODULE Orchestrator ----------------------------
(***************************************************************************)
(* The fetcher's main loop, Scheduler::run_forever_by_category             *)
(* (crates/core/src/app/scheduler/orchestrator.rs): on every tick of a 5 s *)
(* interval one run_tick per category, in order.  run_tick fails only when *)
(* its due query fails; then the loop pauses, longer after each failure in *)
(* a row, and begins again with the first category.                        *)
(*                                                                         *)
(* Time is counted in seconds, relative to the interval's next deadline.   *)
(* Elapse does not pass a deadline somebody waits for.  The interval       *)
(* itself is tokio's (external), set to MissedTickBehavior::Skip.          *)
(***************************************************************************)
EXTENDS Integers

CONSTANTS
  N,         \* how many categories there are
  Broken,    \* the categories whose due query always fails
  MaxBatch   \* bound: how many seconds one run_tick takes at most

Categories == 1..N

ASSUME OrchestratorAssumption ==
  /\ N \in Nat \ {0}
  /\ Broken \subseteq Categories
  /\ MaxBatch \in Nat

TickInterval == 5     \* TICK_INTERVAL_SECS
RetryBase == 2        \* RETRY_BASE_SECS
RetryMax == 60        \* RETRY_MAX_SECS
RetryExpCap == 5      \* RETRY_EXP_CAP

VARIABLES
  phase,     \* "waiting" for the tick, "running" run_tick, or "pausing"
  category,  \* the category run_tick works on, or will work on next
  errors,    \* consecutive_errors; above the cap all values act alike
  late,      \* seconds since the interval's next deadline, negative before it
  left,      \* seconds left of the pause
  spent,     \* seconds run_tick has taken
  position,  \* history: seconds into the current period since the start
  ticked,    \* history: the current period has seen a tick
  gap        \* history: seconds since each category was last begun, or since
             \*          the last failure, pauses not counted

history == <<position, ticked, gap>>
vars == <<phase, category, errors, late, left, spent, history>>

Phases == {"waiting", "running", "pausing"}

TypeOK ==
  /\ phase \in Phases
  /\ category \in Categories
  /\ errors \in 0..RetryExpCap
  /\ late \in Int
  /\ left \in 0..RetryMax
  /\ spent \in 0..MaxBatch
  /\ position \in 0..(TickInterval - 1)
  /\ ticked \in BOOLEAN
  /\ gap \in [Categories -> Nat]

\* The first tick of a tokio interval completes at once.
Init ==
  /\ phase = "waiting"
  /\ category = 1
  /\ errors = 0
  /\ late = 0
  /\ left = 0
  /\ spent = 0
  /\ position = 0
  /\ ticked = FALSE
  /\ gap = [c \in Categories |-> 0]

----------------------------------------------------------------------------
Smaller(x, y) == IF x < y THEN x ELSE y

\* A plausible slip: the pause is not capped.
RetryBackoffUncapped(n) == RetryBase * 2 ^ Smaller(n, RetryExpCap)

\* retry_backoff: 4, 8, 16, 32 and then 60 seconds.
RetryBackoff(n) == Smaller(RetryBase * 2 ^ Smaller(n, RetryExpCap), RetryMax)

\* Two plausible slips: the default MissedTickBehavior::Burst, and the wrong
\* sign in the distance to the next deadline.
RescheduleBurst(l) == l - TickInterval
RescheduleTooFar(l) == - (l % TickInterval) - TickInterval

\* MissedTickBehavior::Skip: the next deadline is the first multiple of the
\* period after now; the result is how late (negative: early) now is for it.
Reschedule(l) == (l % TickInterval) - TickInterval

\* interval.tick() completes, and the loop begins with the first category.
Tick ==
  /\ phase = "waiting"
  /\ late >= 0
  /\ phase' = "running"
  /\ category' = 1
  /\ spent' = 0
  /\ late' = Reschedule(late)
  /\ ticked' = TRUE
  /\ gap' = [gap EXCEPT ![1] = 0]
  /\ UNCHANGED <<errors, left, position>>

\* A plausible slip: a half-open range over the categories.
IsLastOffByOne(c) == c >= N - 1

IsLast(c) == c = N

\* A plausible slip: only a loop without failures resets the error count.
ErrorsAfterSuccessAtEnd(c) == IF IsLast(c) THEN 0 ELSE errors

ErrorsAfterSuccess(c) == 0

\* run_tick answers Ok: the next category, or the next tick.
RunTickEnds(c) ==
  /\ phase = "running"
  /\ category = c
  /\ c \notin Broken
  /\ errors' = ErrorsAfterSuccess(c)
  /\ spent' = 0
  /\ IF IsLast(c)
     THEN /\ phase' = "waiting"
          /\ category' = 1
          /\ UNCHANGED gap
     ELSE /\ category' = c + 1
          /\ gap' = [gap EXCEPT ![c + 1] = 0]
          /\ UNCHANGED phase
  /\ UNCHANGED <<late, left, position, ticked>>

\* run_tick answers Err: a pause, and the categories that follow are skipped.
RunTickFails ==
  /\ phase = "running"
  /\ errors' = Smaller(errors + 1, RetryExpCap)
  /\ phase' = "pausing"
  /\ left' = RetryBackoff(errors + 1)
  /\ spent' = 0
  /\ gap' = [c \in Categories |-> 0]
  /\ UNCHANGED <<category, late, position, ticked>>

\* tokio::time::sleep is over; `continue` goes back to interval.tick().
PauseEnds ==
  /\ phase = "pausing"
  /\ left = 0
  /\ phase' = "waiting"
  /\ category' = 1
  /\ UNCHANGED <<errors, late, left, spent, history>>

\* A second passes.
Elapse ==
  /\ \/ phase = "waiting" /\ late < 0 /\ UNCHANGED <<left, spent>>
     \/ /\ phase = "running" /\ spent < MaxBatch
        /\ spent' = spent + 1 /\ UNCHANGED left
     \/ /\ phase = "pausing" /\ left > 0
        /\ left' = left - 1 /\ UNCHANGED spent
  /\ late' = late + 1
  /\ position' = (position + 1) % TickInterval
  /\ ticked' = IF position' = 0 THEN FALSE ELSE ticked
  /\ gap' = IF phase = "pausing" THEN gap ELSE [c \in Categories |-> gap[c] + 1]
  /\ UNCHANGED <<phase, category, errors>>

Next ==
  \/ Tick \/ PauseEnds \/ Elapse \/ RunTickFails
  \/ \E c \in Categories : RunTickEnds(c)

Spec == Init /\ [][Next]_vars

\* Time passes and a timer that is due fires; run_tick ends (every request has
\* a timeout); a due query that is tried again and again succeeds some time.
Fairness ==
  /\ WF_vars(Tick \/ PauseEnds \/ Elapse)
  /\ WF_vars(RunTickFails \/ \E c \in Categories : RunTickEnds(c))
  /\ \A c \in Categories : SF_vars(RunTickEnds(c))

FairSpec == Spec /\ Fairness

----------------------------------------------------------------------------
(* Properties. *)

\* Ticks missed during a pause or a long batch are skipped, never replayed in
\* a burst (orchestrator.rs:60-66): one tick at most in any period.
OneTickPerPeriod == [][Tick => ~ticked]_vars

\* While no due query fails, the time between two looks at a category is at most
\* that of the other batches and one more batch or one period, whichever is
\* longer: a tick missed during long batches comes at once, and once only.
GapBounded ==
  LET longest == IF MaxBatch > TickInterval THEN MaxBatch ELSE TickInterval IN
  \A c \in Categories : gap[c] <= (N - 1) * MaxBatch + longest

\* Only failures of the first category add up to longer pauses: a later one is
\* reached through a success, which resets the count (orchestrator.rs:87-89).
OnlyFirstAddsUp == errors > 1 => category = 1

\* If the due queries recover time and again, each category is served time and
\* again, although every failure starts over with the first.
EveryCategoryServed == \A c \in Categories : []<><<RunTickEnds(c)>>_vars

\* CHANGELOG: "each category runs its own scheduler loop": a category whose
\* queries work is served whatever happens to the others.
OwnLoopPerCategory ==
  \A c \in Categories \ Broken : []<><<RunTickEnds(c)>>_vars
============================================================================

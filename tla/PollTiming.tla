----------------------------- MODULE PollTiming -----------------------------
(***************************************************************************)
(* When one feed is polled again: compute_delay_seconds and the backoff    *)
(* index of its link state (crates/core/src/domain/link_state.rs), over    *)
(* any sequence of answers.  The numbers of the code have their width:     *)
(* products of u64 saturate, casts of floats to i64 saturate, sums and     *)
(* products of i64 wrap, and the backoff index ends at U32Max.  (They wrap *)
(* in a release build.  A debug build panics there, which ends the         *)
(* fetcher: its behaviours are a part of these.)                           *)
(*                                                                         *)
(* link.next is the wait in milliseconds from the last request to the next *)
(* one, so that 0 and less is due at once.  That later requests start on a *)
(* tick and wait for permits is left to Orchestrator and TickBatch.        *)
(***************************************************************************)
EXTENDS LinkState, Integers

CONSTANTS
  U64Bits,         \* the width of u64
  Bases,           \* the values of base_poll_seconds to choose from
  Maxima,          \* the values of max_poll_seconds to choose from
  JitterPercent,   \* jitter_fraction, in percent
  Instants,        \* the instants of a request to choose from, in milliseconds
  MsPerSecond,     \* 1000
  MaxErrorSeconds  \* max_error_seconds

I64Max == 2 ^ (U64Bits - 1) - 1
U64Max == 2 * I64Max + 1

\* The integers of TOML are i64 and the schema lets polling.max_seconds be any
\* of them but the negative ones (crates/schemas/fetcher/config.schema.json:60-75).
ASSUME PollTimingAssumption ==
  /\ U64Bits \in Nat \ {0}
  /\ Bases \subseteq 0..U64Max
  /\ Maxima \subseteq 0..I64Max
  /\ JitterPercent \in Nat
  /\ Instants \subseteq 0..I64Max
  /\ MsPerSecond \in Nat \ {0}
  /\ MaxErrorSeconds \in Nat

VARIABLES
  base, max,  \* base_poll_seconds and max_poll_seconds, fixed
  checkGet,   \* the feed is a watch with check_method GET, fixed
  link,       \* the stored link state
  version,    \* the content the origin serves, 1 or 2
  pending,    \* history: that content awaits its GET, and no request has failed since
  stale       \* history: for how many milliseconds it has, at the last request

configVars == <<base, max, checkGet>>
vars == <<configVars, link, version, pending, stale>>

Smaller(x, y) == IF x < y THEN x ELSE y
Larger(x, y) == IF x > y THEN x ELSE y

----------------------------------------------------------------------------
(* compute_delay_seconds. *)

\* A plausible slip: a power that wraps to 0.
SatPow2Wrapping(n) == (2 ^ n) % (U64Max + 1)

SatPow2(n) == IF n < U64Bits THEN 2 ^ n ELSE U64Max   \* 2u64.saturating_pow

SatMul(x, y) == Smaller(x * y, U64Max)                 \* saturating_mul

\* The delay before jitter.
Clamped(backoff) == Smaller(SatMul(base, SatPow2(backoff)), max)

\* The most that jitter adds or takes away: the product, rounded.
Jitter(delay) == (2 * delay * JitterPercent + 100) \div 200

\* A sum or product of i64 that leaves its range comes back at the other end.
WrapI64(x) == ((x + I64Max + 1) % (U64Max + 1)) - (I64Max + 1)

\* centered.round() as i64: the cast of a float saturates.
Jitters(delay) == {Smaller(Larger(j, -I64Max - 1), I64Max) : j \in -Jitter(delay)..Jitter(delay)}

\* (clamped as i64 + jitter_seconds).max(0)
Delays(backoff) ==
  LET d == Clamped(backoff) IN {Larger(0, WrapI64(d + j)) : j \in Jitters(d)}

\* next_action_at_ms, which is now_ms + total_seconds as i64 * 1000, less now_ms.
Wait(now, seconds) == WrapI64(now + WrapI64(seconds * MsPerSecond)) - now

Waits(backoff) == {Wait(now, seconds) : now \in Instants, seconds \in Delays(backoff)}

----------------------------------------------------------------------------
Times == (-2 * I64Max - 1)..I64Max

TypeOK ==
  /\ base \in Bases /\ max \in Maxima
  /\ checkGet \in BOOLEAN
  /\ link \in LinkStates({None, 200, 500}, {None, 1, 2}, Times)
  /\ version \in {1, 2}
  /\ pending \in BOOLEAN
  /\ stale \in Nat

Init ==
  /\ base \in Bases /\ max \in Maxima
  /\ checkGet \in BOOLEAN
  /\ link = Initial(0)
  /\ version = 1
  /\ pending = TRUE
  /\ stale = 0

Good == [status |-> 200, error |-> FALSE, etag |-> version, lastModified |-> None]
Bad == {[status |-> c, error |-> TRUE, etag |-> None, lastModified |-> None] : c \in {None, 500}}

\* The origin publishes other content, one change at a time, and none before
\* its etag is known: what is lost otherwise is FeedFetch's HeadDecidesChange.
Publish ==
  /\ ~pending
  /\ link.etag = version
  /\ version' = 3 - version
  /\ pending' = TRUE
  /\ stale' = 0
  /\ UNCHANGED <<configVars, link>>

\* The next action when link.next has passed.
Action == DecideNextAction([link EXCEPT !.next = 0], 0)

\* The request that is made of it: a watch with check_method GET makes its HEAD
\* a GET (processing.rs:395-414).
Heads == Action = "DoHead" /\ ~checkGet
Gets == Action = "DoGet" \/ (Action = "DoHead" /\ checkGet)

Watch == stale' = IF pending THEN stale + Larger(0, link.next) ELSE 0

HeadSucceeds ==
  /\ Heads
  /\ \E d \in Waits(HeadBackoff(link, Good)) : link' = ApplyHeadResult(link, Good, 0, d)
  /\ Watch
  /\ UNCHANGED <<configVars, version, pending>>

\* The body of content that was there before may count as changed again: for a
\* feed every body that is not empty does.
GetSucceeds ==
  /\ Gets
  /\ \E bodyChanged \in BOOLEAN :
       /\ pending => bodyChanged
       /\ \E d \in Waits(GetBackoff(link, Good, bodyChanged)) :
            link' = ApplyGetResult(link, Good, 0, bodyChanged, d)
  /\ pending' = FALSE
  /\ stale' = 0
  /\ UNCHANGED <<configVars, version>>

\* The request fails, and what becomes of a pending change is FeedFetch's.
RequestFails ==
  /\ \E r \in Bad :
       \/ /\ Heads
          /\ \E d \in Waits(HeadBackoff(link, r)) : link' = ApplyHeadResult(link, r, 0, d)
       \/ /\ Gets
          /\ \E d \in Waits(GetBackoff(link, r, FALSE)) :
               link' = ApplyGetResult(link, r, 0, FALSE, d)
  /\ pending' = FALSE
  /\ stale' = 0
  /\ UNCHANGED <<configVars, version>>

Next == Publish \/ HeadSucceeds \/ GetSucceeds \/ RequestFails

Spec == Init /\ [][Next]_vars

----------------------------------------------------------------------------
(* Properties. *)

\* The longest interval, in milliseconds.
Longest == MsPerSecond * (max + Jitter(max))

\* The maximum is such that no sum and no product of i64 overflows: the instant
\* that lies the longest interval after a request is one of the code's.  Without
\* that a feed may be due at once, or never, and nothing below is claimed.
Fits == \A now \in Instants : now + Longest <= I64Max

\* However long a feed stays quiet or fails, its wait neither collapses nor
\* exceeds the maximum, jitter aside: the products of u64 saturate, and a maximum
\* that fits is enough for all that is computed after the clamp
\* (link_state.rs:221-223, 383-402).  Jitter comes after the clamp, so that the
\* upper bound is max_poll_seconds and the jitter on it.
DelayBounded ==
  LET shortest == Smaller(base, max) IN
  Fits /\ link # Initial(0) =>
    link.next \in (MsPerSecond * (shortest - Jitter(shortest)))..Longest

\* Only a successful GET shortens the interval of a feed: no error, no HEAD, and
\* no overflow of the backoff index or of the products does
\* (link_state.rs:142-178, 245-284, 383-389).
OnlyChangeSpeedsUp ==
  [][Clamped(link'.backoff) < Clamped(link.backoff)
       => Gets /\ link'.phase = "NeedsHead"]_vars

\* While the requests succeed, a change is fetched within two of the longest
\* intervals: one until the HEAD that notices it and, since that HEAD does not
\* shorten the interval (link_state.rs:162-170), one more until the GET.
StalenessBounded == Fits /\ pending => stale + link.next <= 2 * Longest

\* README: "[backoff] error_base_seconds, max_error_seconds": after an error the
\* next attempt is at most max_error_seconds away, jitter aside.
ErrorWithinMaxError ==
  link.phase = "ErrorBackoff" => Clamped(link.backoff) <= MaxErrorSeconds
============================================================================

----------------------------- MODULE LinkState -----------------------------
(***************************************************************************)
(* The link state machine of one feed (crates/core/src/domain/             *)
(* link_state.rs): which request comes next, and how the answer to a HEAD  *)
(* or a GET moves the state.  These are pure operators; the modules that   *)
(* run them (FeedFetch, PollTiming) own the variables.                     *)
(*                                                                         *)
(* An optional value of the code is None (0) or a positive number: a       *)
(* status is its code, an etag or a last-modified time is the number of    *)
(* the content version it stands for.  An answer is a record               *)
(*   [status, error, etag, lastModified, body].                            *)
(* The instants and notes kept only for display are left out.              *)
(***************************************************************************)
EXTENDS Naturals

CONSTANT U32Max   \* the largest u32: backoff_index and the error count saturate there

ASSUME U32MaxAssumption == U32Max \in Nat \ {0}

None == 0

LinkPhase ==
  {"NeedsInitialGet", "NeedsHead", "NeedsGet", "Sleeping", "ErrorBackoff"}

NextAction == {"DoHead", "DoGet", "SleepUntil"}

\* The link states over a set Statuses of status codes, Tags of validators
\* and Times of instants.
LinkStates(Statuses, Tags, Times) ==
  [phase: LinkPhase, headStatus: Statuses, getStatus: Statuses,
   etag: Tags, lastModified: Tags,
   backoff: 0..U32Max, next: Times, errors: 0..U32Max]

\* LinkState::initial: a feed nobody has fetched is due at once.
Initial(now) ==
  [phase |-> "NeedsInitialGet", headStatus |-> None, getStatus |-> None,
   etag |-> None, lastModified |-> None,
   backoff |-> 0, next |-> now, errors |-> 0]

\* A plausible slip: an elapsed sleep is not taken for a wake-up.
DecideNextActionNoWake(s, now) ==
  CASE now < s.next \/ s.phase \in {"Sleeping", "ErrorBackoff"} -> "SleepUntil"
    [] now >= s.next /\ s.phase \in {"NeedsInitialGet", "NeedsGet"} -> "DoGet"
    [] OTHER -> "DoHead"

DecideNextAction(s, now) ==
  CASE now < s.next -> "SleepUntil"
    [] now >= s.next /\ s.phase \in {"NeedsInitialGet", "NeedsGet"} -> "DoGet"
    [] OTHER -> "DoHead"

----------------------------------------------------------------------------
\* A plausible slip: += 1 in place of saturating_add(1).
SatIncPlain(n) == n + 1

SatInc(n) == IF n < U32Max THEN n + 1 ELSE U32Max   \* saturating_add(1)

IsErrorStatus(code) == code \in 400..599

IsError(r) == r.error \/ IsErrorStatus(r.status)

Differs(known, seen) == known # None /\ seen # None /\ known # seen

\* A plausible slip: the etags are not compared.
HasChangedByDate(s, r) ==
  \/ r.status = 200 /\ s.headStatus = 304
  \/ Differs(s.lastModified, r.lastModified)

HasChanged(s, r) ==
  \/ r.status = 200 /\ s.headStatus = 304
  \/ Differs(s.etag, r.etag)
  \/ Differs(s.lastModified, r.lastModified)

\* The validator kept after an answer: a missing one never erases a known one.
Learn(known, seen) == IF seen # None THEN seen ELSE known

\* A plausible slip: noticing a change already resets the backoff index.
HeadBackoffResets(s, r) ==
  IF ~IsError(r) /\ HasChanged(s, r) THEN 0 ELSE SatInc(s.backoff)

\* A HEAD that reports a change keeps the backoff index, any other raises it.
HeadBackoff(s, r) ==
  IF ~IsError(r) /\ HasChanged(s, r) THEN s.backoff ELSE SatInc(s.backoff)

HeadPhase(s, r) ==
  CASE IsError(r) -> "ErrorBackoff"
    [] ~IsError(r) /\ HasChanged(s, r) -> "NeedsGet"
    [] OTHER -> "Sleeping"

ErrorsAfter(s, r) == IF IsError(r) THEN SatInc(s.errors) ELSE 0

ApplyHeadResult(s, r, now, delay) ==
  [s EXCEPT !.phase = HeadPhase(s, r),
            !.headStatus = r.status,
            !.backoff = HeadBackoff(s, r),
            !.etag = Learn(@, r.etag),
            !.lastModified = Learn(@, r.lastModified),
            !.next = now + delay,
            !.errors = ErrorsAfter(s, r)]

\* Only a body that changed resets the backoff index.
GetBackoff(s, r, bodyChanged) ==
  IF ~IsError(r) /\ bodyChanged THEN 0 ELSE SatInc(s.backoff)

\* After a successful GET the feed sleeps, and the sleep is stored as NeedsHead.
ApplyGetResult(s, r, now, bodyChanged, delay) ==
  [s EXCEPT !.phase = IF IsError(r) THEN "ErrorBackoff" ELSE "NeedsHead",
            !.getStatus = r.status,
            !.backoff = GetBackoff(s, r, bodyChanged),
            !.etag = Learn(@, r.etag),
            !.lastModified = Learn(@, r.lastModified),
            !.next = now + delay,
            !.errors = ErrorsAfter(s, r)]
============================================================================

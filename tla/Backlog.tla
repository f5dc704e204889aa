------------------------------ MODULE Backlog ------------------------------
(***************************************************************************)
(* Which due feeds of a category a tick takes when there are more than the *)
(* batch holds: the due query (crates/core/src/infra/sqlite_repo/feeds.rs, *)
(* and the same in postgres_repo) orders them by COALESCE(next_action_at,  *)
(* now) and takes the first due_batch_size of them (processing.rs:51-69).  *)
(*                                                                         *)
(* Instants are left out, only their order is kept: a feed whose time      *)
(* comes is behind all that have been due, and feeds of one millisecond    *)
(* tie.  But an interval counts from an instant that process_feed reads    *)
(* before it waits for permits and an answer (processing.rs:305), so that  *)
(* it may be over when the row is written: such a feed has its place       *)
(* between those that came due since the tick that took it.  (An interval  *)
(* of 0 that starts in the very millisecond of the query, and intervals    *)
(* that overflow, see PollTiming, are left out.)  A feed without a state   *)
(* row counts as due just now.                                             *)
(*                                                                         *)
(* Its specification carries the name of the module because                *)
(* SchedulingProofs extends it together with PollTiming.                   *)
(***************************************************************************)
EXTENDS Integers, FiniteSets

CONSTANTS
  Feeds,     \* the feeds of the category
  Limit,     \* due_batch_size
  Poison     \* the feeds whose processing may end in a database error

ASSUME BacklogAssumption ==
  /\ IsFiniteSet(Feeds)
  /\ Poison \subseteq Feeds /\ Poison # Feeds
  /\ Limit \in Nat /\ Limit > Cardinality(Poison)

VARIABLES
  fresh,     \* the feeds that have no state row
  asleep,    \* those whose next_action_at is to come
  excluded,  \* those in error_feeds
  ahead,     \* for a due feed with a row, those with an earlier next_action_at
  batch,     \* those the running tick took and has not processed
  recent,    \* those polled, or come due, since the last tick
  missed     \* history: how many ticks in a row left out a due feed with a row

backlogVars == <<fresh, asleep, excluded, ahead, batch, recent, missed>>

\* The due feeds with a row.
Due == Feeds \ (fresh \cup asleep \cup excluded)

\* ahead is the order of instants, some of them equal.
Ordered ==
  \A f \in Feeds :
    /\ ahead[f] \subseteq Due \ {f}
    /\ f \notin Due => ahead[f] = {}
    /\ \A g \in ahead[f] : ahead[g] \subseteq ahead[f]
    /\ f \in Due => \A g \in Due : g \in ahead[f] \/ f \in ahead[g] \/ ahead[f] = ahead[g]

BacklogTypeOK ==
  /\ fresh \subseteq Feeds /\ asleep \subseteq Feeds /\ excluded \subseteq Feeds
  /\ fresh \cap (asleep \cup excluded) = {} /\ asleep \cap excluded = {}
  /\ ahead \in [Feeds -> SUBSET Feeds]
  /\ Ordered
  /\ batch \subseteq Due \cup fresh
  /\ Cardinality(batch) <= Limit
  /\ recent \subseteq Feeds
  /\ missed \in [Feeds -> Nat]

\* The fetcher starts on a database from an earlier run.
BacklogInit ==
  /\ fresh \in SUBSET Feeds
  /\ asleep \in SUBSET (Feeds \ fresh)
  /\ excluded = {}
  /\ \E nextActionAt \in [Feeds -> 1..Cardinality(Feeds)] :
       ahead = [f \in Feeds |->
                  IF f \in Due THEN {g \in Due : nextActionAt[g] < nextActionAt[f]} ELSE {}]
  /\ batch = {}
  /\ recent = {}
  /\ missed = [f \in Feeds |-> 0]

\* The order with the feeds of now behind those of before, level with those of
\* level, and ahead of the other due feeds.
Inserted(now, before, level) ==
  [f \in Feeds |-> CASE f \in now -> before
                     [] f \in Due \ (before \cup level) -> ahead[f] \cup now
                     [] OTHER -> ahead[f]]

\* The order with the feeds of now at its end.
Joined(now) == Inserted(now, Due, {})

\* The instants a poll may have ended its interval at: after those of the feeds
\* that were due at the tick that took it.
InBetween(before, level) ==
  /\ Due \ recent \subseteq before
  /\ \A g \in Due \ before : before \subseteq ahead[g]
  /\ level \in {{}, {g \in Due \ before : ahead[g] = before}}

\* The next_action_at of some feeds comes, in one millisecond.
Wake(now) ==
  /\ now \subseteq asleep
  /\ asleep' = asleep \ now
  /\ \/ ahead' = Joined(now)
     \/ /\ now \subseteq recent
        /\ \E before, level \in SUBSET Due :
             InBetween(before, level) /\ ahead' = Inserted(now, before, level)
  /\ recent' = recent \cup now
  /\ UNCHANGED <<fresh, excluded, batch, missed>>

----------------------------------------------------------------------------
(* The due query. *)

\* A plausible slip: an inner join with feed_state_current.
WithoutRowNone == {}

WithoutRow == fresh

\* A plausible slip: one row more than the limit.
SizeOneMore(n) == IF n <= Limit THEN n ELSE Limit + 1

Size(n) == IF n < Limit THEN n ELSE Limit

\* A plausible slip: the latest first.
TakenDescending(line, before) ==
  {some \in SUBSET line :
     /\ Cardinality(some) = Size(Cardinality(line))
     /\ \A f \in line \ some : before[f] \cap some = {}}

\* What the query may return of the feeds of line, if those of before[f] sort
\* before f.
Taken(line, before) ==
  {some \in SUBSET line :
     /\ Cardinality(some) = Size(Cardinality(line))
     /\ \A f \in some : before[f] \subseteq some}

\* A tick of the category.  Rows due in the very millisecond of the query tie
\* with the feeds without a row, and a tie may go either way.
Tick ==
  /\ batch = {}
  /\ \E now \in SUBSET asleep :
       LET rows == Due \cup now
           line == rows \cup WithoutRow
       IN /\ line # {}
          /\ batch' \in Taken(line, [f \in line |-> IF f \in WithoutRow THEN Due ELSE Joined(now)[f]])
          /\ asleep' = asleep \ now
          /\ ahead' = Joined(now)
          /\ recent' = {}
          /\ missed' = [f \in Feeds |-> IF f \in rows \ batch' THEN missed[f] + 1 ELSE 0]
  /\ UNCHANGED <<fresh, excluded>>

----------------------------------------------------------------------------
(* The batch: FeedFetch and TickBatch, seen from here. *)

\* Processing writes a state row, and perhaps an error mark.
Processed(f) ==
  /\ f \in batch
  /\ batch' = batch \ {f}
  /\ fresh' = fresh \ {f}
  /\ \/ asleep' = asleep \cup {f} /\ UNCHANGED excluded
     \/ excluded' = excluded \cup {f} /\ UNCHANGED asleep
  /\ ahead' = [g \in Feeds |-> IF g = f THEN {} ELSE ahead[g] \ {f}]
  /\ recent' = recent \cup {f}
  /\ UNCHANGED missed

\* Processing fails before the row is written: the feed is as due as before.
Fails(f) ==
  /\ f \in batch \cap Poison
  /\ batch' = batch \ {f}
  /\ UNCHANGED <<fresh, asleep, excluded, ahead, recent, missed>>

Work == \E f \in Feeds : Processed(f) \/ Fails(f)

BacklogNext == Tick \/ Work \/ \E now \in SUBSET asleep : Wake(now)

BacklogSpec == BacklogInit /\ [][BacklogNext]_backlogVars

\* The orchestrator keeps ticking, and a batch ends (TickBatch).  Nothing is
\* assumed about when feeds wake.
FairSpec == BacklogSpec /\ WF_backlogVars(Tick) /\ WF_backlogVars(Work)

----------------------------------------------------------------------------
(* Properties. *)

\* A due feed with a row waits for a bounded number of ticks, however much is
\* due, however many new feeds there are and whatever instants the others count
\* their intervals from, since none gets ahead of a feed that a tick left out.
\* Feeds whose processing keeps failing hold their places in every batch, and
\* only the rest of it counts.
WaitBounded ==
  LET others == Cardinality(Feeds) - 1 - Cardinality(Poison)
  IN \A f \in Feeds : missed[f] <= others \div (Limit - Cardinality(Poison))

\* A new feed gets its turn if again and again a tick has room left by the feeds
\* with a row and by the new ones that keep failing.  Without that room it
\* waits for ever: the query serves every feed with a row before it.
Room ==
  /\ Tick
  /\ Cardinality(Due) + Cardinality(asleep \ asleep') + Cardinality(Poison \cap fresh) < Limit

NewFeedServed ==
  ([]<><<Room>>_backlogVars) => \A f \in Feeds \ Poison : f \in fresh ~> f \notin fresh
============================================================================

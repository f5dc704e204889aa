----------------------------- MODULE FeedFetch -----------------------------
(***************************************************************************)
(* One feed (or one ad-hoc watch) polled by process_feed, do_head and      *)
(* do_get (crates/core/src/app/scheduler/processing.rs, actions.rs)        *)
(* against a changing origin, a database whose statements may fail, and a  *)
(* process that may be killed between any two of them.                     *)
(*                                                                         *)
(* Every awaited database statement is a step of its own, in the order of  *)
(* the code: read the state, request, event, cookies, payload, state,      *)
(* error mark.  Time is reduced to whether the stored next_action_at has   *)
(* come: 0 is now or the past, 1 the future, and Wake lets it come.        *)
(* Two processes of one feed never overlap (see TickBatch), so one set of  *)
(* local variables is enough.                                              *)
(***************************************************************************)
EXTENDS LinkState, FiniteSets

CONSTANTS
  MaxVersion,             \* bound: how many contents the origin publishes
  MaxFaults,              \* bound: wrong answers, database errors and kills
  MaxConsecutiveErrors,   \* cfg.max_consecutive_errors, 0 for "never exclude"
  ImmediateErrorStatuses, \* cfg.immediate_error_statuses
  ErrorStatuses,          \* the error codes the origin may answer
  Sources                 \* the feeds and watches to choose from, see SourceType

Versions == 1..MaxVersion
Statuses == {None, 200, 304} \cup ErrorStatuses
Foreign == MaxVersion + 1                 \* the validator of an error page
Tags == {None, Foreign} \cup Versions
Bodies == {"none", "empty", "page", "feed"}
Detectors == {"Etag", "LastModified", "ContentHash"}

\* validators: the headers the origin sends; content: what its body is to the
\* feed parser.  detectors, checkGet and fetchBody are those of a watch.
SourceType ==
  [watch: BOOLEAN, checkGet: BOOLEAN, fetchBody: BOOLEAN,
   detectors: SUBSET Detectors, content: {"feed", "page"},
   validators: SUBSET {"etag", "lastModified"}]

AnswerType ==
  [status: Statuses, error: BOOLEAN, etag: Tags, lastModified: Tags,
   body: Bodies, of: {None} \cup Versions]

ASSUME FeedFetchAssumption ==
  /\ MaxVersion \in Nat \ {0}
  /\ MaxFaults \in Nat
  /\ MaxConsecutiveErrors \in Nat
  /\ ErrorStatuses \subseteq 400..599
  /\ ImmediateErrorStatuses \subseteq Nat \ {None}
  /\ Sources \subseteq SourceType

VARIABLES
  source,   \* the feed's configuration and its origin's habits, fixed
  version,  \* the content the origin serves now
  gone,     \* the origin answers every request with an error
  row,      \* feed_state_current; Initial(0) stands for no row at all
  stored,   \* the versions that have a payload with items; None is an error page or an empty body
  marked,   \* the feed is in error_feeds
  pc,       \* where process_feed stands, "idle" when it does not run
  method,   \* the request it makes
  link,     \* the link state it works on
  answer,   \* the answer it got
  emit,     \* persist_payload has something to insert
  acked,    \* history: the versions whose storing a written row relies on
  faults    \* how many faults are left

dbVars == <<row, stored, marked, acked>>
originVars == <<source, version, gone>>
localVars == <<method, link, answer, emit>>
vars == <<originVars, dbVars, localVars, pc, faults>>

Steps == {"idle", "reading", "requesting", "event", "cookies", "payload",
          "state", "mark"}

NoAnswer == [status |-> None, error |-> FALSE, etag |-> None,
             lastModified |-> None, body |-> "none", of |-> None]

TypeOK ==
  /\ source \in Sources
  /\ version \in Versions
  /\ gone \in BOOLEAN
  /\ row \in LinkStates(Statuses, Tags, {0, 1})
  /\ stored \subseteq {None} \cup Versions
  /\ marked \in BOOLEAN
  /\ pc \in Steps
  /\ method \in {"HEAD", "GET"}
  /\ link \in LinkStates(Statuses, Tags, {0, 1})
  /\ answer \in AnswerType
  /\ emit \in BOOLEAN
  /\ acked \subseteq {None} \cup Versions
  /\ faults \in 0..MaxFaults

Init ==
  /\ source \in Sources
  /\ version = 1
  /\ gone = FALSE
  /\ row = Initial(0)
  /\ stored = {}
  /\ marked = FALSE
  /\ pc = "idle"
  /\ method = "HEAD"
  /\ link = Initial(0)
  /\ answer = NoAnswer
  /\ emit = FALSE
  /\ acked = {}
  /\ faults = MaxFaults

----------------------------------------------------------------------------
(* The origin. *)

Served(m) ==
  [status |-> 200, error |-> FALSE,
   etag |-> IF "etag" \in source.validators THEN version ELSE None,
   lastModified |-> IF "lastModified" \in source.validators THEN version ELSE None,
   body |-> IF m = "GET" THEN source.content ELSE "none",
   of |-> version]

\* A failed request: no answer, or an error status, whose body is an error page.
\* The validators of an answer are read whatever its status
\* (reqwest_http.rs:187-194, 270-277): an error may carry none, those of the
\* content, or some of its own.
Failures(m) ==
  {[NoAnswer EXCEPT !.error = TRUE]} \cup
  {[status |-> c, error |-> TRUE, etag |-> tags[1], lastModified |-> tags[2],
    body |-> IF m = "GET" THEN "page" ELSE "none", of |-> None] :
     c \in ErrorStatuses,
     tags \in {<<None, None>>, <<Served(m).etag, Served(m).lastModified>>, <<Foreign, Foreign>>}}

\* Answers that are no failure to the code and yet not the content: 304, and
\* for a GET a body that broke off (reqwest_http.rs turns it into None).  What a
\* watch makes of the empty body of a 304 is not the content.
Deviations(m) ==
  IF m = "HEAD"
  THEN {[Served(m) EXCEPT !.status = 304]}
  ELSE {[Served(m) EXCEPT !.status = 304, !.body = "empty", !.of = None],
        [Served(m) EXCEPT !.body = "none"]}

Publish ==
  /\ ~gone
  /\ version < MaxVersion
  /\ version' = version + 1
  /\ UNCHANGED <<source, gone, dbVars, localVars, pc, faults>>

Vanish ==
  /\ ~gone
  /\ gone' = TRUE
  /\ UNCHANGED <<source, version, dbVars, localVars, pc, faults>>

----------------------------------------------------------------------------
(* What do_get makes of an answer. *)

BodyChanged(s, r) ==
  IF ~source.watch
  THEN r.body \in {"page", "feed"}
  ELSE \/ "Etag" \in source.detectors /\ r.etag # None /\ r.etag # s.etag
       \/ /\ "LastModified" \in source.detectors
          /\ r.lastModified # None
          /\ r.lastModified # s.lastModified
       \/ "ContentHash" \in source.detectors /\ r.body # "none"
       \/ source.fetchBody /\ r.body # "none"

\* persist_payload: a parsed body always gives a payload, one that cannot be
\* parsed only for a watch that saw a change.
Emits(s, r) ==
  \/ r.body = "feed"
  \/ source.watch /\ r.body \in {"page", "empty"} /\ BodyChanged(s, r)

\* Two plausible slips: one error too early, and only on the exact count.
ShouldMarkEarly(s, r) ==
  \/ r.status \in ImmediateErrorStatuses
  \/ MaxConsecutiveErrors > 0 /\ s.errors + 1 >= MaxConsecutiveErrors

ShouldMarkExactly(s, r) ==
  \/ r.status \in ImmediateErrorStatuses
  \/ MaxConsecutiveErrors > 0 /\ s.errors = MaxConsecutiveErrors

ShouldMark(s, r) ==
  \/ r.status \in ImmediateErrorStatuses
  \/ MaxConsecutiveErrors > 0 /\ s.errors >= MaxConsecutiveErrors

----------------------------------------------------------------------------
(* The process. *)

\* A plausible slip: the due query forgets the feeds in error_feeds.
DueUnlessMarkedDropped == row.next = 0

\* due_feeds: not excluded, and no row or next_action_at reached.
Due == ~marked /\ row.next = 0

\* The process ends: its locals are gone.
Return ==
  /\ pc' = "idle"
  /\ method' = "HEAD"
  /\ link' = Initial(0)
  /\ answer' = NoAnswer
  /\ emit' = FALSE

\* The process goes on to another step with the locals it has.
Goto(steps) == pc' \in steps /\ UNCHANGED localVars

Dispatch ==
  /\ pc = "idle"
  /\ Due
  /\ Goto({"reading"})
  /\ UNCHANGED <<originVars, dbVars, faults>>

\* latest_state and latest_cookie_header read, next action decided.  A watch
\* with check_method GET makes its HEAD a GET.
ReadState ==
  LET action == DecideNextAction(row, 0) IN
  /\ pc = "reading"
  /\ IF action = "SleepUntil"
     THEN Return
     ELSE /\ pc' = "requesting"
          /\ link' = row
          /\ method' = IF action = "DoHead" /\ ~(source.watch /\ source.checkGet)
                       THEN "HEAD" ELSE "GET"
          /\ UNCHANGED <<answer, emit>>
  /\ UNCHANGED <<originVars, dbVars, faults>>

\* The answer r arrives; what is to be written is computed before any write.
\* The delay is computed from the instant read before the request, so that the
\* next action may be due already when the row is written.
Receive(r) ==
  \E next \in {0, 1} :
    /\ answer' = r
    /\ IF method = "HEAD"
       THEN /\ emit' = FALSE
            /\ link' = ApplyHeadResult(link, r, 0, next)
       ELSE /\ emit' = Emits(link, r)
            /\ link' = ApplyGetResult(link, r, 0, BodyChanged(link, r), next)
    /\ pc' = "event"
    /\ UNCHANGED <<originVars, dbVars, method>>

RequestServed ==
  /\ pc = "requesting"
  /\ ~gone
  /\ Receive(Served(method))
  /\ UNCHANGED faults

RequestFails ==
  /\ pc = "requesting"
  /\ \/ gone /\ UNCHANGED faults
     \/ ~gone /\ faults > 0 /\ faults' = faults - 1
  /\ \E r \in Failures(method) : Receive(r)

RequestDeviates ==
  /\ pc = "requesting"
  /\ ~gone
  /\ faults > 0
  /\ faults' = faults - 1
  /\ \E r \in Deviations(method) : Receive(r)

\* A plausible slip: the state is written without the payload before it.
AfterCookiesStateFirst == "state"

AfterCookies == IF emit THEN "payload" ELSE "state"

\* insert_event; the answer may or may not carry cookies to persist.
InsertEvent ==
  /\ pc = "event"
  /\ Goto({"cookies", AfterCookies})
  /\ UNCHANGED <<originVars, dbVars, faults>>

PersistCookies ==
  /\ pc = "cookies"
  /\ Goto({AfterCookies})
  /\ UNCHANGED <<originVars, dbVars, faults>>

\* insert_payload_with_items, one transaction.
InsertPayload ==
  /\ pc = "payload"
  /\ stored' = stored \cup {answer.of}
  /\ Goto({"state"})
  /\ UNCHANGED <<originVars, row, marked, acked, faults>>

\* insert_state: the optional history row and then the current row.  That the
\* first succeeds and the second fails leaves what the others see unchanged.
InsertState ==
  /\ pc = "state"
  /\ row' = link
  /\ acked' = IF emit THEN acked \cup {answer.of} ELSE acked
  /\ IF ShouldMark(link, answer) THEN Goto({"mark"}) ELSE Return
  /\ UNCHANGED <<originVars, stored, marked, faults>>

\* maybe_mark_feed_error, when it has something to write.
MarkFeedError ==
  /\ pc = "mark"
  /\ marked' = TRUE
  /\ Return
  /\ UNCHANGED <<originVars, row, stored, acked, faults>>

\* A statement fails: `?` leaves do_head or do_get, and run_tick only logs it.
\* A kill of the fetcher has the same effect on the database.
Abort ==
  /\ pc # "idle"
  /\ faults > 0
  /\ faults' = faults - 1
  /\ Return
  /\ UNCHANGED <<originVars, dbVars>>

\* The stored next_action_at comes.
Wake ==
  /\ row.next = 1
  /\ row' = [row EXCEPT !.next = 0]
  /\ UNCHANGED <<originVars, stored, marked, acked, localVars, pc, faults>>

Proceed ==
  \/ ReadState \/ RequestServed \/ RequestFails \/ RequestDeviates
  \/ InsertEvent \/ PersistCookies \/ InsertPayload \/ InsertState
  \/ MarkFeedError \/ Abort

Next == Publish \/ Vanish \/ Wake \/ Dispatch \/ Proceed

Spec == Init /\ [][Next]_vars

\* Time passes, the scheduler keeps ticking (Orchestrator), and an awaited call
\* ends one way or the other: the HTTP client has a timeout of 30 s.
Fairness == WF_vars(Wake) /\ WF_vars(Dispatch) /\ WF_vars(Proceed)

FairSpec == Spec /\ Fairness

----------------------------------------------------------------------------
(* Properties. *)

\* A written state row never relies on a body that is not in the database: the
\* payload is committed before the state moves past it (actions.rs:268-301), so
\* a failure or a kill between the two repeats a GET and loses nothing.
AckedIsStored == acked \subseteq stored

\* A feed is in error_feeds only if its stored row shows why: as many
\* consecutive errors as configured, or an immediate error status.  The row is
\* written before the mark, so the evidence survives a kill between the two.
ShowsWhy(s) ==
  \/ MaxConsecutiveErrors > 0 /\ s.errors >= MaxConsecutiveErrors
  \/ {s.headStatus, s.getStatus} \cap ImmediateErrorStatuses # {}

MarkJustified == marked => ShowsWhy(row)

\* Exclusion is permanent: an excluded feed is never polled again and nothing
\* of it changes in the database, whatever its schedule says.
ExcludedForGood ==
  [][marked => UNCHANGED <<pc, marked, stored, acked>>]_<<pc, dbVars>>

\* A feed whose origin answers only errors ends up excluded, even if database
\* errors or kills lose a mark or a count on the way.
DeadFeedExcluded == (MaxConsecutiveErrors > 0 /\ gone) ~> marked

\* The validators the origin sends for version v are those of the stored row,
\* which awaits no GET: for the code, version v is old news.
KnowsValidators(v) ==
  /\ row.phase \notin {"NeedsInitialGet", "NeedsGet"}
  /\ "etag" \in source.validators => row.etag = v
  /\ "lastModified" \in source.validators => row.lastModified = v

\* A version the origin goes on serving is stored, or the feed is excluded, or
\* the row already knows its validators: polling never just stops, and a known
\* validator is the only way past a change that is not stored.  (An origin that
\* sends no validators is in that last case for every version, and so is a
\* version whose validators came with an error.)
UnstoredIsNoticed ==
  \A v \in Versions :
    (version = v /\ v \notin stored) ~>
      (v \in stored \/ version # v \/ gone \/ marked \/ KnowsValidators(v))

\* README: "HEAD decides whether content changed; GET parses the body [...] and
\* stores payload + items": a HEAD judged unmodified describes stored content.
HeadDecidesChange ==
  pc = "state" /\ method = "HEAD" /\ link.phase = "Sleeping" => answer.of \in stored

Service == INSTANCE FeedService WITH excluded <- marked

\* Polling one feed implements the abstract service: only published content is
\* stored, stored before acknowledged, and exclusion is final.
ImplementsService == Service!ASpec
============================================================================

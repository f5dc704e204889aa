# Pulsewire in TLA+

Pulsewire polls feeds (RSS, Atom, watched pages), stores what they publish in
SQLite or PostgreSQL, and serves it to readers. This directory holds a model of
the parts of it that are hard to test: when and how a feed is polled, what
becomes of the configuration over several starts, what survives failures and
kills, how requests share permits, who is served when there is too much to do,
what paging through changing entries leaves out, and what a reader's client
shows while its requests overtake each other.

Paths below are relative to the repository; `scheduler/` stands for
`crates/core/src/app/scheduler/`, `infra/` for `crates/core/src/infra/`.

## The system

| Part | State it keeps | Operations | Modelled by |
| --- | --- | --- | --- |
| Link state machine, `crates/core/src/domain/link_state.rs` | phase, last statuses, validators, backoff index, next action, error count of a feed | decide the next action; apply the answer to a HEAD or a GET; compute a delay | `LinkState`, `PollTiming` |
| Polling one feed, `scheduler/processing.rs`, `scheduler/actions.rs` | locals between awaits | read state, request, write event, cookies, payload, state, error mark | `FeedFetch`, abstractly `FeedService` |
| Batch and permits, `scheduler/processing.rs`, `scheduler/concurrency.rs` | global semaphore, one semaphore per domain made on demand | run a batch of due feeds as a bounded stream; acquire and drop a pair of permits | `TickBatch`, abstractly `BoundedFetch` |
| Main loop, `scheduler/orchestrator.rs` | interval, category in turn, count of failures | tick, run one batch per category, pause after a failure | `Orchestrator` |
| Due query, `infra/sqlite_repo/feeds.rs`, `infra/postgres_repo/feeds.rs` | order of the due feeds | take the first of them | `Backlog` |
| Repository, `infra/sqlite_repo`, `infra/postgres_repo` | tables of feeds, current states, payloads, items, events, cookies, error feeds | one statement or transaction per method | steps of `FeedFetch` |
| HTTP client, `infra/reqwest_http.rs` | none | HEAD, GET; what counts as an answer | answers in `FeedFetch` |
| Configuration, `infra/config` | none | read a bundle of files, inherit defaults, resolve categories, refuse what does not fit | `SourceConfig` |
| Ingest and start-up, `crates/fetcher/src/main.rs`, `infra/*/feeds.rs` | tables of categories, feeds, cookies, error feeds; maps of the process | load, development wipe, upsert categories and chunks of sources, poll | `Ingest` |
| Terminal client, marks, `crates/tui/src/app` | shown subscriptions, favourites and read flags; threads on the way; events | toggle, apply an answer, load lists | `MarkToggles` |
| Terminal client, folders, `folders.rs`, `modal.rs`, `pagination.rs` there | folder list, selected folder, its feeds, open menu | create, rename, delete, assign; move, page, refresh; apply an answer | `FolderTab` |
| Terminal client, entries, `api/entries.rs` there | mode, filter, offset, next offset | open, next and previous page, filter, refresh | `EntryPages` |
| Server, reader's data, `crates/server/src/handlers` | subscriptions, favourites, folders and their feeds, read marks | one statement per request | its statements in `MarkToggles`, `FolderTab` and `EntryPages` |
| Server, entry queries, `handlers/entries`, `handlers/folders/entries.rs` | none | scope, filter, order, limit and offset | `EntryPages` |
| Server, accounts and sessions | users, tokens, resets | one or a few statements per request | not modelled |
| Parsers, counts, metrics, logs, command line, drawing | | | not modelled: third-party parsing, single queries, I/O and layout |

How they interact. The main loop calls one batch at a time and awaits it. A
batch asks the due query for feeds and polls them concurrently, each poll as a
future on the same task; futures share the semaphores and nothing else. A poll
reaches other polls, later polls and the server only through the database, one
statement at a time. The fetcher's start writes the rows its batches will poll,
and fills the maps (cookies, headers, watches) that a request takes its other
half from. The server's handlers run concurrently and share only the
database. The terminal client has one event loop; each request of its own is a
thread that reports back through a channel.

What is hard. Between any two statements of a poll the process may be killed or
a statement may fail, and what comes after must make up for it. A poll works on
a state it read before it waited for permits and an answer. An origin may
change, fail, send error pages, lie with a 304 or break off a body at any
moment. Each request holds one permit while it waits for another. Ticks are
missed, categories fail, more feeds are due than a batch holds. Delays grow
exponentially in numbers with a width. A start may be killed between any two of
its transactions and the next one may bring another configuration. Pages are
asked for by offset in lists that change. In the client, nothing orders the
threads. `PROJECT.json` lists these hazards at the lines where they bite, with
the properties that cover each, or the reason why none does yet.

## Modules

**LinkState** has the pure operators of `link_state.rs`, one per idea: the phase
after a HEAD, the backoff index after a GET, what counts as an error or a
change. `FeedFetch` and `PollTiming` extend it, so what is proved and checked
about them concerns the same definitions. Optional values are 0 or a positive
number; an etag or a modification time is the number of the content it was sent
with. Instants and notes kept for display are left out.

**FeedFetch** is one feed or ad-hoc watch under `process_feed`, `do_head` and
`do_get`. `pc` is the statement the code awaits: `reading` the stored state,
`requesting`, then the writes in the order of the code, `event`, `cookies`,
`payload`, `state`, `mark`. `row` is the feed's line of `feed_state_current`,
`stored` the versions with a payload, `marked` membership of `error_feeds`. The
origin's actions are `Publish` and `Vanish`; `RequestFails` and
`RequestDeviates` are its errors, with no validators, with those of the content or
with some of their own (`Foreign`), and its misleading answers; `Abort` is a failed
statement or a kill, at any step. `source` fixes, at the start, whether it is a
feed or a watch, the watch's detectors, which validators the origin sends, and
whether its body can be parsed. Time is one bit, due or not due, and `Wake`
sets it. Two polls of one feed cannot overlap, because a batch holds a feed
once (its `batch` is a set in `Backlog`) and the loop runs one batch at a time.

**FeedService** is the promise in four variables: stored content was published,
acknowledged content is stored, exclusion is final. `acked`, a history variable
of `FeedFetch`, holds the versions whose storing a written row relies on.

**TickBatch** is the parallel part: `buffer_unordered` starts futures, each
looks its domain's semaphore up under a read lock, makes it under a write lock
when it is missing, and then queues for the global and the domain's permit.
Queues are first in, first out, as tokio's are. **BoundedFetch** is the promise:
the number of requests on the way stays below the cap and the domain limits.

**Orchestrator** is the loop with its clock, in seconds relative to the next
deadline of tokio's interval; `Reschedule` is what `MissedTickBehavior::Skip`
does. `position`, `ticked` and `gap` are history variables. The unused
`run_forever_category` is not modelled.

**PollTiming** runs the link state machine over any sequence of answers with the
numbers of `compute_delay_seconds` at a small width: saturating powers and
products of u64, rounding jitter after the clamp, and the sums and the product of
i64 that make the next instant of it, which wrap (`WrapI64`) when the maximum is
near the end of the range. `Instants` are the times a request may be made at.
`checkGet` is a watch whose HEAD is a GET (`processing.rs:395`). The exact value
of the jitter fraction stands for its f64.

**Backlog** is the order of the due query and what it leaves for later ticks.
Of the instants only their order is kept: `ahead` has for a due feed those with
an earlier `next_action_at`. Feeds whose time comes (`Wake`, or within `Tick`) are
behind all that have been due, and several may have one millisecond: then the
query may take either first. But an interval counts from before the permits and the
request (`processing.rs:305`): one that is over when its row is written gives
the feed a place between those that came due since its tick (`recent`, `InBetween`). Feeds without a
state row (`fresh`) count as due now.
A feed whose processing fails before its row is written (`Poison`) stays the
longest due.

**MarkToggles** is one mark of a reader (a subscription, a favourite, a read
entry) in the terminal client, with the server's statements for it. A key
changes `shown` and sends; requests are counted, not ordered, since each has a
thread; `ApplyAnswer` takes a failed change back; lists come by keys (blocking,
one step) and by the background load after login (read first, applied later).
A list of favourites ends after 50 (`favorites.rs:218`), so that a reading of it
(`Readings`) may lack a favourite the server has. The mark's history variables
(`disturbed`, `cut`, `failed`, `burst`) say for which histories a property makes its
promise. One bit, `shown`, stands for the set of ids and the list that is drawn from it,
which a failed unsetting restores only for a feed that is loaded.

**SourceConfig** has the configuration as operators on a bundle of files. Every
field that can be inherited is in a function from field names to values, so
`Merge` is the one idea behind the many hand-written merges of `feeds.rs`; `Entries`
are the feeds and watches with what they inherit, `Loads` is everything that
makes a load fail after the JSON schemas, `Sources` what the rest of the fetcher
gets. The model has eight of the two dozen fields, those that other parts of
the code read; the code merges the others in the same way.

**Ingest** is the fetcher's life over several starts: `Edit` changes the files,
`Start` loads them, then `Wipe`, `UpsertCategories`, `UpsertChunk` and
`BeginPolling` in the order of `main`, with `Kill` between any two. A `Wipe` may leave
everything, since `main` ignores a file it could not remove. `feeds`,
`categories`, `jar` and `excluded` are tables; `current` is the version that the
process loaded. `Request` is what `process_feed` sends: the URL of the row, the
rest from the maps. It extends `SourceConfig`. When a source is polled is
`FeedFetch`'s matter.

**FolderTab** composes the folder tab of the client with the server's statements
on folders. `requests` has the thread of each request with its answer; `Perform`,
`ReadList` and `ReadFeeds` are the server's side, `ApplyList` and `ApplyFeeds` the
event loop's, the other actions are keys. A change goes on with a GET of the list in
the same thread. `listDoubt` and `panelDoubt` are history variables that tell
when the code promises nothing. `panel` is the set of ids; what is drawn
is the part of it among the feeds the client has loaded.

**EntryPages** composes the entries tab with the server's queries: a page is the
set of its entries, `Rank` is a place in the order, `Loaded` is `refresh_entries`
with an answer. Between pages, entries are stored (also with a lower id than
others, as Postgres may commit them), marked, and their feeds moved. `walking`,
`due` and `departed` are history variables: the entries that a reader who goes on
paging has a right to.

**MCFeedFetch**, **MCTickBatch**, **MCIngest**, **MCEntryPages** and **MCFolderTab** give their modules finite
parameters; the other modules are instantiated by their `.cfg` alone. The modules whose names
end in **Proofs** hold theorems.

Definitions named as a plausible slip or a plausible change (`AcquireDomainAnyway`
and the like) are wrong variants of the definition that follows them. No
specification uses them; they are there to show that a property notices.

## Runs

| Run | What it asks | Bounds |
| --- | --- | --- |
| `feed_fetch` | `AckedIsStored`, `MarkJustified`, `ExcludedForGood`; `DeadFeedExcluded` and `UnstoredIsNoticed` under fairness; implements `FeedService` | seven sources: a feed for each choice of validators the origin sends, and three watches of a page, with a detector each, one polled by GET and one that keeps bodies; two contents; two faults anywhere; two errors exclude, 404 at once |
| `feed_fetch_lost` | `HeadDecidesChange`, expected to fail (finding 1) | an origin with etags, one fault |
| `tick_batch` | `PermitsConserved`, `GlobalNeverWaits`, `EveryDueFeedServed`; implements `BoundedFetch` | five feeds, three in a domain configured for two requests and two in one that is not configured, no cap (four futures) and a cap of 3, any sequence of batches |
| `orchestrator` | `OneTickPerPeriod`, `GapBounded`, `OnlyFirstAddsUp`, `EveryCategoryServed` | three categories, batches of up to 6 s against a period of 5 s |
| `orchestrator_broken` | `OwnLoopPerCategory`, expected to fail (finding 2) | two categories, the first one broken |
| `poll_timing` | `DelayBounded`, `StalenessBounded`, `OnlyChangeSpeedsUp` | integers of 6 bits, backoff up to 6, two ms to a second; five maxima, of which 13 and 31 overflow an i64 |
| `poll_timing_errors` | `ErrorWithinMaxError`, expected to fail (finding 3) | as above |
| `backlog` | `WaitBounded`, `NewFeedServed` | four feeds, batches of two, one feed that may keep failing |
| `ingest` | `MostSpecificWins`, `IngestAccepted`, `RowsAgree`, `RequestAsConfigured`; `EverySourceDue` under fairness | nine configurations, three of which do not load and one in development mode; two edits, one kill, chunks of one source, answers with and without cookies |
| `entry_pages` | `SkipsOnlyForDeparted` | four entries of two feeds in all states of the tables, pages of two (the client asks for three, the server gives two), two changes, any number of keys |
| `folder_tab` | `SelectionVisible`, `FolderListAgrees`, `PanelAgrees`, `MenuMeansWhatItShows` | two folders, two names, a feed, pages of one folder, two requests at a time, one failure or change by another client; threads are symmetric |
| `mark_toggles` | `SettledAgrees`, `FavoriteStandsOvertaking` | each kind of mark, three requests on the way, two faults |

Why the bounds are enough. Two contents let a change overtake anything a poll
does with the first; two faults let a failure meet the attempt to make up for an
earlier one (a lost mark, then a lost count). Five feeds on two domains let two
futures make one semaphore while a third waits and a fourth finishes, with a cap
below the number of feeds. A batch of 6 s exceeds the period and three
categories make it miss up to three deadlines. Widths of 6 bits put every
saturation, wrap and conversion of the 64-bit code within reach of six backoff
steps; `base` 0 and `max` 0 are included, and so are a maximum whose longest
instant just overflows and the largest there is. Four feeds and batches of two let a
failing feed hold a place while two feeds wait for the other, with every tie of
instants. Three requests
let one overtake two. Two edits and one kill let a start be killed halfway
through a second configuration and go on with a third or with the first; with
chunks of one source every cut is possible. Of the configurations, one changes
URLs and categories, one a cookie file, one an id, one shares an id with a file
that was disabled, one writes every field in another layer of a watch with a
profile. Two changes between pages of two
let one entry leave and another come, and more pages than changes follow. Two
threads let each answer overtake another, and one fault meets every request
and every menu.

Where deadlock is not checked. In `FeedFetch` a feed that is excluded, on an
origin that is gone, has nothing left to do. In `Backlog` every feed may end up
excluded, and then no tick finds anything. In `Ingest` a fetcher that is down, with a configuration that does
not load and no edits left, stays down. The run of the error delay stops at
its counterexample. All other runs check deadlock.

Fairness. `FeedFetch`: time passes (`Wake`), the loop keeps ticking (`Dispatch`;
`Orchestrator` and `TickBatch` show when that holds), and an awaited call ends,
since the HTTP client is built with a timeout and the database answers or
fails. Faults are not fair: they may, but need not, happen. `TickBatch`: the
runtime polls every future that can go on; which queued feed starts first is
left open. `Orchestrator`: timers fire, `run_tick` ends, and, for
`EveryCategoryServed` only in effect, a due query that is tried time and again
succeeds some time (strong fairness; a category in `Broken` never does).
`Backlog`: ticks and batches go on; nothing is assumed about when feeds wake.
`Ingest`: a start that is not killed goes on; kills, edits, starts and polls are not
fair. In particular nothing says that each due source is polled, since a source
may starve behind full batches (`Backlog`) or a failing category (`Orchestrator`).
`EverySourceDue` therefore ends where their matter begins. The other
specifications state safety only.

## Theorems

| Module | Theorem | For every value of the constants |
| --- | --- | --- |
| `FeedFetchProofs` | `TypeCorrect`, `NothingAckedIsLost`, `MarksAreJustified`, `ExclusionIsFinal`, `Implementation`, `NoUpdateLost`, `DeadFeedCountsUp`, `HeadLetsNothingGo` | any sources, versions, faults, error limits and immediate statuses |
| `TickBatchProofs` | `TypeCorrect`, `PermitsAreConserved`, `GlobalWaitsNowhere`, `Implementation`, `NoDeadlock` | any finite set of feeds, any domains, limits and caps |
| `IngestProofs` | `TypeCorrect`, `SpecificFirst`, `Accepted`, `RowsAgreeOnceRunning`, `RequestsAsConfigured`, `SourcesAreDue` | any configurations, chunk sizes, edits, kills and cookies of the origin |
| `EntryPagesProofs` | `TypeCorrect`, `SkipsBounded` | any finite set of entries, any feeds, page sizes and number of changes |
| `FolderTabProofs` | `TypeCorrect`, `SelectionOnPage`, `ListAgrees`, `PanelShowsSelected`, `MenuShowsFolders` | any names, feeds and finite set of threads, any number of folders and faults |
| `OrchestratorProofs` | `TypeCorrect`, `NoBurst`, `OnlyFirstLengthensPauses`, `GapsAreBounded` | any number of categories, broken or not, any length of a batch |
| `SchedulingProofs` | `TypeCorrect`, `DelayIsBounded`, `StalenessIsBounded`, `SpeedsUpOnlyOnChange` (of `PollTiming`) | any width of the integers, any bases, maxima, jitter and instants; `DelayIsBounded` and `StalenessIsBounded` for the maxima that `Fits` |
| `SchedulingProofs` | `BacklogTypeCorrect`, `WaitIsBounded`, `RoomServesNew` (of `Backlog`) | any finite set of feeds, any of them failing, any limit with room beside those |
| `MarkTogglesProofs` | `TypeCorrect`, `MarksSettle`, `FavoritesSettle` | any number of requests on the way and of faults |

`FeedFetch`. `AckedIsStored` is not inductive: in `state` the row is about to
acknowledge a version, and `PayloadBeforeState` says that by then it is stored
if there was something to emit. `MarkJustified` needs that the row already shows
why when the mark is about to be written (`JustifiedBeforeMark`), which in turn
needs that the link state about to be written carries the status of the answer
(`StatusKept`). That nothing runs for an excluded feed (`ExcludedIsIdle`) keeps
its evidence and makes exclusion final. `AnswerPublished` is for the refinement. `Implementation` maps `marked` to the abstract `excluded`; each
step is an abstract step or leaves the abstract variables alone.

A second invariant of `FeedFetch` (`Working`) relates the locals to the row: while a poll waits,
its link state is still the row's, and after the answer it is the answer applied
to the row (`WorksOnCurrent`). So no update is lost (`NoUpdateLost`). `DeadFeedCountsUp` is the
safety part of `DeadFeedExcluded`: with the origin gone and no older answer on its
way, the count in the row only grows. `HeadLetsNothingGo` is that of
`UnstoredIsNoticed`, which excepts changes whose validators the row knows: for
a row that has validators (`HasValidators`) only a GET brings that about, one that
had nothing of the change to store, or an error answer that carries the validators of
the change, since errors are learned from without being compared (`link_state.rs:206-219`).
A HEAD that succeeds never does. Where the row lacks a validator, it may, which
is part of finding 1.

`TickBatch`. `PermitsConserved` is about cardinalities of sets of futures, so
the proofs first show how `At` changes when one future moves, and that feeds are
finite. It is inductive together with the type invariant and with every asked semaphore
being in the map (`KnownWhenAsked`), also when two futures make it in a race.
`GlobalNeverWaits` follows from conservation and from the number of running
futures being at most the cap (`RunningBounded`): whoever waits runs and holds
nothing yet, so a permit is free.
`Implementation` uses that a future acquires its domain's permit only when one
is free, and conservation turns that into the abstract bounds.

`Orchestrator`. `NoBurst` rests on an invariant between the interval and the
history's clock (`OnGrid`): deadlines stay on multiples of the period, and once a
period has seen its tick the next deadline is the end of that period.
`OnlyFirstLengthensPauses` needs that a category behind the first is reached
only with the count reset (`FreshAfterFirst`). `GapsAreBounded` bounds the gap
of every category by what is left until the deadline and by the batches since it
was served (`GapKept`): waiting, all were served since the last tick; running,
those behind the current one wait for a period or a late batch more.

`Ingest`. `SpecificFirst` needs no induction over steps: it is a lemma about
merging three and four layers. The others rest on `Progress` (what of the
configuration is stored by which phase: the categories from `feeds` on, the rows of
all ids that are no longer `pending`) and `JarExplained` (a stored cookie comes from
the origin, or is that of the file unless the file was edited). `Accepted` uses
that every source of a bundle that loads has a category of that bundle
(`CategoryConfigured`); so does `SourcesAreDue`, by which no configured source
has a row in a category that is never polled.

`EntryPages`. Ranks number a scope without gaps from 0 (`NoGap`,
`FewInInterval`); so of the entries still due those before the next page are no
more than have departed, and a change moves entries over that border at most
as often as it makes others leave (`RankFalls`). The property is inductive with the type
invariant alone.

`FolderTab`. `Shape` is what the code relies on about its data, strong
enough for every step. The list of the server is a sequence without repetitions
because every place is taken by one folder (`EveryPlaceTaken`, a pigeonhole
argument). `Position`, `ListKept`, `PanelKept` and `MenuKept` each add what the
property needs of answers that are under way: without doubt an answer to
a GET of the list is the list of now, an unmarked answer with feeds is right,
and a quiet menu shows the list the client has. `TypeCorrect` also counts the
requests that may still create a folder (`Bounded`).

`MarkToggles`. What is shown may differ from the server while anything is on the
way, so the invariant says what the rest will put right. For one request at a time
(`Single`): the request asks for what is shown and the server lacks, and if it
failed the server lacks it still. For two of a favourite (`Pair`): of a set and a
clear on the way together, the one that asks for what the server has is refused,
and the other one is what is shown in the end. `LoadKept` says that the load
of the login brings what the server has, or ends before the mark, unless something
happened since it read. A mark that was cut off is set at the server (`cut`), and stays so
as long as it is toggled from what is shown: a set is refused there and taken back.

`PollTiming`. Powers of two are treated as numbers of sets, since 2^n is the number of
subsets of 1..n: that they are positive and grow then needs no induction.
From it, `Clamped` grows with the backoff index (`ClampedGrows`), whichever of the
saturations and the maximum cuts in, so that an interval can shrink only with the
index, and the index falls at a GET alone, which may be a watch's check. `JitterGrows` does the same for the rounded
jitter, at more than 100 % too, where the delay is cut off at 0. That i64 arithmetic is exact
inside its range and never leaves it (`Wrapped`) gives the type of every interval at
every maximum, and its bounds at one that `Fits` (`WaitsBounded`): the bound on the
longest instant is all that is needed for each sum and product on the way. `StalenessBounded` is not inductive:
`Unseen` says where a pending change is, not seen by any HEAD or seen and waiting
for the GET that is due next, and how stale it may be there.

`Backlog`. `WaitBounded` counts ticks, so the invariant (`Patience`) says what each costs:
a tick that leaves a feed out is full of feeds due no later, all but `Poison` of which
wake behind it when they come again: however early their intervals started, they pass only
feeds that no tick has left out since (`Unmissed`, `WakeStep`). So the misses of a feed, times the places
that failing feeds leave of a batch (`Share`), plus the waiting feeds that may still be
taken before it (`Rivals`), never exceed the number of the others. It needs that `ahead` is
an order with ties in every step (`Ordered`, part of `BacklogTypeOK`; `OrderedInsert` is the
step that needs an argument). `RoomServesNew` is the
safety part of `NewFeedServed`: a tick with room takes a new feed that does not
fail, and none becomes new again. That such a batch then processes it is fairness.

`NoDeadlock` (in `TickBatchProofs`) adds that the queues list exactly the futures
that wait, each once (`Queued`): then, when nothing else can go on, every
domain's permits are free by conservation and the head of a queue can take one.
Since ENABLED is out of the prover's reach, `CanStep` writes out the guards of
`StartFeed` and `Poll`; that a batch does not stop is also what deadlock checking
shows in `tick_batch`.

Assumed are the named assumptions of the modules, no more; TLC evaluates them in
the runs. Every invariant and every action property that a passing run checks, and both
refinements, are proved. Only model-checked is liveness (`DeadFeedExcluded`,
`UnstoredIsNoticed`, `EveryDueFeedServed`, `EveryCategoryServed`,
`NewFeedServed`, `EverySourceDue`), which is beyond the prover; `DeadFeedCountsUp`,
`HeadLetsNothingGo`, `NoDeadlock`, `RoomServesNew` and `SourcesAreDue` are safety
parts of five of them, and `GapsAreBounded` that of the sixth, while no due query fails.

## Findings

1. `feed_fetch_lost`. `apply_head_result` learns the validators of a HEAD that
   found no change, also when the content they belong to was never fetched
   because its GET failed or its body broke off. From then on every HEAD
   compares equal and the content is never stored. `README.md:31-34` says that
   HEAD decides whether content changed. `UnstoredIsNoticed` states what is left:
   a change not stored keeps being noticed unless the row knows its validators.
2. `orchestrator_broken`. All categories share one loop, which breaks off at the
   first whose due query fails; `CHANGELOG.md:173` says each runs its own.
3. `poll_timing_errors`. `error_base_seconds` and `max_error_seconds` are read
   from the configuration and used nowhere; `README.md:71` documents them.

## Observations

Behaviour the models show that no doc of the repository speaks about, so that
there is nothing to find violated:

- A source removed from the configuration stays in the database and is polled
  on, without its headers and, if it was a watch, as a feed (`Due` and `Request`
  of `Ingest` do not ask whether it is configured).
- Stored cookies include those of the file (`processing.rs:218`,
  `actions.rs:382`): once an answer has set a cookie, a cookie edited in the file
  is overridden by its old value. `RequestAsConfigured` excepts it by `edited`.
- A reader who shows unread entries and marks a page as read skips as many
  on the next page; `SkipsOnlyForDeparted` bounds it by those that departed.
- A filter switched outside the entries tab, or an entries list that could not be
  loaded, leaves the next offset of what was shown before (`walking` becomes
  false).
- A folder that was selected by paging or by a refresh keeps the panel of
  the one before, until the next answer or key that asks (`panelDoubt`).
- The server lists 50 favourites unless asked for more (`favorites.rs:218`), and the
  client never asks (`api/favorites.rs:18`). An older favourite is shown as not set and
  cannot be taken back: the key sends the request to set it, which is refused with 409, and
  the refusal is rolled back (`cut` in `SettledAgrees`).
- Nothing bounds `polling.max_seconds` from above (`schemas/fetcher/config.schema.json:60`).
  If the present plus the maximum, in milliseconds and with jitter, is no i64,
  `link_state.rs:221` wraps in a release build, and the feed is due at once or not for
  ages; a debug build panics. `Fits` excepts it.
- An error page that carries the validators of new content makes them known without the
  content (`link_state.rs:206-219`), so that the next HEAD finds nothing new. This is finding 1
  with another cause; `KnowsValidators` excepts it.
- `main.rs:160` ignores that the database of development mode could not be removed;
  nothing in the model depends on its being empty (`Wipe`).
- On SQLite, `feed_entry_counts` reads a column `read_at_ms` (`handlers/entries/counts.rs:254`)
  that the schema calls `read_at`. Counts are not modelled; the background load
  of the client is one that fails there.

## What is not modelled

- Accounts, tokens, resets: they share no state with the modelled parts. Two
  hazards of theirs are listed without a property.
- The history table of states and its sampling are write-only for the modelled
  code.
- The benchmark mode of the fetcher polls generated feeds of a local server and
  exits; it uses the modelled parts and adds no state of its own.
- Reading TOML, JSON schemas, cookie and header lines, feeds and pages: whether
  they fit is a property of a bundle or of a body. Settings of time zone, logging
  and databases are passed on.
- The two dialects are modelled once where they agree, which is everywhere a
  modelled statement is concerned, but for the order of commits in `EntryPages`
  and the error after creating a folder in `FolderTab`.
- Counts, search inside text, `since`: single queries on which no state of a
  modelled client depends.
- In the terminal client: details of an entry with their copy of the read flag,
  filters and sorting of the feed list, `pending_requests` and `loading`, drawing,
  leaving the client with requests on the way.
- Metrics, logs and the command line change nothing that is modelled.

## Plan

1. Server: users, tokens, password resets and the default user (`Accounts`), one
   action per statement, several handlers at once: rotation in three statements, a
   reset confirmed twice, and what of a removed user remains.
2. `Ingest` composed with `Backlog`: how removed sources compete for places in
   a batch.

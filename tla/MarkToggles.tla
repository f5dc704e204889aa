----------------------------- MODULE MarkToggles -----------------------------
(***************************************************************************)
(* A mark a reader sets in the terminal client (crates/tui): a feed is     *)
(* subscribed to or a favourite, an entry is read.  A key changes what is  *)
(* shown at once and starts a thread of its own that sends the request;    *)
(* the answer comes back as an event, and a failure takes the change back  *)
(* (input/main.rs, background/queue/toggles.rs, background/events.rs).     *)
(*                                                                         *)
(* Nothing orders the threads: requests reach the server, and answers the  *)
(* event loop, in any order, next to the one background load after login   *)
(* (background/queue/refresh.rs) and the lists that keys load (api/).      *)
(* The server's handlers are one SQL statement each.  A key that loads a   *)
(* list blocks the event loop until it has it, which is one step here.     *)
(*                                                                         *)
(* The server lists the 50 newest favourites of a user, and the client     *)
(* asks for no more (handlers/favorites.rs, api/favorites.rs): whether     *)
(* that many are newer than this one is left open at every reading.        *)
(*                                                                         *)
(* Marks share nothing but the lists that bring them, and one is modelled, *)
(* of a kind chosen at the start.                                          *)
(***************************************************************************)
EXTENDS Naturals

CONSTANTS
  MaxInFlight,   \* bound: unanswered requests
  MaxFaults      \* bound: failures, lost answers and changes from elsewhere

ASSUME MarkTogglesAssumption == MaxInFlight \in Nat /\ MaxFaults \in Nat

Kinds == {"subscription", "favorite", "read"}

VARIABLES
  kind,      \* what the mark is, fixed
  on,        \* the server's table has it
  shown,     \* the client shows it as set
  reach,     \* its feed or entry is in a list of the client, for a key to toggle
  listed,    \* the list of its kind has been loaded: shown comes from the server
  sent,      \* how many requests to set and to clear it are on the way
  answered,  \* how many answers to them wait for the event loop
  load,      \* the background load: before it reads the mark, after, or over
  snapshot,  \* what it read of the mark, see Readings
  touched,   \* history: toggled or changed by others since that load read it
  disturbed, \* history: no promise is made until the list is loaded again
  cut,       \* history: that list ended before the mark, which the server had
  failed,    \* history: a request failed without effect since then
  burst,     \* history: requests since then, or since the last that was sent
             \*          with no other unanswered; above 2 all values act alike
  faults     \* how many faults are left

client == <<shown, reach, listed>>
requests == <<sent, answered>>
loading == <<load, snapshot>>
history == <<touched, disturbed, cut, failed, burst>>
vars == <<kind, on, client, requests, loading, history, faults>>

TypeOK ==
  /\ kind \in Kinds
  /\ {on, shown, reach, listed, touched, disturbed, cut, failed} \subseteq BOOLEAN
  /\ kind = "read" /\ shown => reach   \* an entry's flag is part of the list
  /\ sent \in [BOOLEAN -> 0..MaxInFlight]
  /\ answered \in [BOOLEAN -> [BOOLEAN -> 0..MaxInFlight]]
  /\ load \in {"reading", "event", "over"}
  /\ snapshot \in {"listed", "cut", "absent"}
  /\ burst \in 0..3
  /\ faults \in 0..MaxFaults

\* Login has just succeeded, and the background load begins.
Init ==
  /\ kind \in Kinds
  /\ on \in BOOLEAN
  /\ shown = FALSE /\ reach = FALSE /\ listed = FALSE
  /\ sent = [want \in BOOLEAN |-> 0]
  /\ answered = [want \in BOOLEAN |-> [ok \in BOOLEAN |-> 0]]
  /\ load = "reading"
  /\ snapshot = "absent"
  /\ touched = FALSE /\ disturbed = FALSE /\ cut = FALSE /\ failed = FALSE
  /\ burst = 0
  /\ faults = MaxFaults

----------------------------------------------------------------------------
Unanswered ==
  sent[TRUE] + sent[FALSE] + answered[TRUE][TRUE] + answered[TRUE][FALSE]
    + answered[FALSE][TRUE] + answered[FALSE][FALSE]

\* trigger_toggle_subscribe, _favorite, _entry_read: show the opposite at once,
\* and send a request for it.
Toggle ==
  /\ reach
  /\ Unanswered < MaxInFlight
  /\ shown' = ~shown
  /\ sent' = [sent EXCEPT ![shown'] = @ + 1]
  /\ touched' = TRUE
  /\ burst' = CASE Unanswered = 0 /\ burst < 2 -> 1
                [] Unanswered > 0 /\ burst < 2 -> burst + 1
                [] OTHER -> 3
  /\ UNCHANGED <<kind, on, reach, listed, answered, loading, disturbed, cut, failed, faults>>

----------------------------------------------------------------------------
(* The server. *)

\* A plausible change: clearing a favourite that is not there succeeds, like
\* ending a subscription that is not there.
RefusesConflictsOnly(want) == kind \in {"subscription", "favorite"} /\ want /\ on

\* INSERT of a row that is there is a conflict, except for the upsert of a read
\* mark; DELETE of no row is an error for favourites only.
Refuses(want) ==
  \/ kind \in {"subscription", "favorite"} /\ want /\ on
  \/ kind = "favorite" /\ ~want /\ ~on

Answer(want, ok) ==
  /\ sent[want] > 0
  /\ sent' = [sent EXCEPT ![want] = @ - 1]
  /\ answered' = [answered EXCEPT ![want][ok] = @ + 1]

Serve(want) ==
  /\ Answer(want, ~Refuses(want))
  /\ on' = IF Refuses(want) THEN on ELSE want
  /\ UNCHANGED <<kind, client, loading, history, faults>>

Fault == faults > 0 /\ faults' = faults - 1

\* The request does not get through, or the statement fails.
Fail(want) ==
  /\ Fault
  /\ Answer(want, FALSE)
  /\ failed' = TRUE
  /\ UNCHANGED <<kind, on, client, loading, touched, disturbed, cut, burst>>

\* The statement succeeds, and its answer does not get through.  (When it runs
\* only after the client gave up, that is Fail and then ChangeElsewhere.)
LoseAnswer(want) ==
  /\ Fault
  /\ ~Refuses(want)
  /\ Answer(want, FALSE)
  /\ on' = want
  /\ touched' = TRUE
  /\ disturbed' = TRUE
  /\ UNCHANGED <<kind, client, loading, cut, failed, burst>>

\* Another client of the same user changes the mark.
ChangeElsewhere ==
  /\ Fault
  /\ on' = ~on
  /\ touched' = TRUE
  /\ disturbed' = TRUE
  /\ UNCHANGED <<kind, client, requests, loading, cut, failed, burst>>

----------------------------------------------------------------------------
(* The event loop. *)

\* A plausible slip: an entry that has left the list gets its flag back as well.
RollbackUnlisted(want) == ~want

\* A failed request takes back what its key showed, if the entry is still there.
\* (For a favourite that is the set of ids; the row drawn in the favourites list
\* comes back only if the feed is among those loaded.)
Rollback(want) == IF kind = "read" /\ ~reach THEN shown ELSE ~want

\* apply_event: ToggleSubscribe, ToggleFavorite or ToggleEntryRead.
ApplyAnswer(want, ok) ==
  /\ answered[want][ok] > 0
  /\ answered' = [answered EXCEPT ![want][ok] = @ - 1]
  /\ shown' = IF ok THEN shown ELSE Rollback(want)
  /\ UNCHANGED <<kind, on, reach, listed, sent, loading, history, faults>>

\* What the list of its kind tells of the mark: the server lists it, or a list of
\* favourites is full before it comes to this one, or the server does not have it.
Readings ==
  IF on THEN {"listed"} \cup (IF kind = "favorite" THEN {"cut"} ELSE {}) ELSE {"absent"}

\* The mark's list is replaced by one in which it was read like this; exposed says
\* whether anything that is not in the list may still have changed the mark.
Replace(reading, exposed) ==
  /\ shown' = (reading = "listed")
  /\ cut' = (reading = "cut")
  /\ disturbed' = exposed
  /\ failed' = FALSE
  /\ burst' = 0

\* A key loads a list that has the feed, but not that of the mark.
ReloadFeeds ==
  /\ kind # "read"
  /\ ~reach
  /\ reach' = TRUE
  /\ UNCHANGED <<kind, on, shown, listed, requests, loading, history, faults>>

\* refresh_subscriptions or refresh_favorites, by a key.
ReloadMarks ==
  /\ kind # "read"
  /\ listed' = TRUE
  /\ \E reading \in Readings : Replace(reading, Unanswered > 0)
  /\ UNCHANGED <<kind, on, reach, requests, loading, touched, faults>>

\* refresh_entries: another page, feed or filter may or may not show the entry.
ReloadEntries ==
  /\ kind = "read"
  /\ reach' \in BOOLEAN
  /\ listed' = reach'
  /\ Replace(IF on /\ reach' THEN "listed" ELSE "absent", Unanswered > 0)
  /\ UNCHANGED <<kind, on, requests, loading, touched, faults>>

----------------------------------------------------------------------------
(* The background load: one GET after the other, and then one event. *)

LoadRead ==
  /\ load = "reading"
  /\ load' = "event"
  /\ snapshot' \in Readings
  /\ touched' = (Unanswered > 0)
  /\ UNCHANGED <<kind, on, client, requests, disturbed, cut, failed, burst, faults>>

\* Any of its GETs fails, before or after that of the mark's list.
LoadFails ==
  /\ load \in {"reading", "event"}
  /\ Fault
  /\ load' = "over"
  /\ UNCHANGED <<kind, on, client, requests, snapshot, history>>

\* A plausible slip: the load only adds what it found, and removes nothing.
MergeSnapshot == IF shown THEN "listed" ELSE snapshot

FromSnapshot == snapshot

\* apply_event: RefreshAll.  It brings no entries, as none were open at login.
ApplyLoad ==
  /\ load = "event"
  /\ load' = "over"
  /\ IF kind = "read"
     THEN UNCHANGED <<client, disturbed, cut, failed, burst>>
     ELSE /\ reach' = TRUE
          /\ listed' = TRUE
          /\ Replace(FromSnapshot, touched)
  /\ UNCHANGED <<kind, on, requests, snapshot, touched, faults>>

Next ==
  \/ Toggle \/ ChangeElsewhere
  \/ \E want \in BOOLEAN :
       \/ Serve(want) \/ Fail(want) \/ LoseAnswer(want)
       \/ \E ok \in BOOLEAN : ApplyAnswer(want, ok)
  \/ ReloadFeeds \/ ReloadMarks \/ ReloadEntries
  \/ LoadRead \/ LoadFails \/ ApplyLoad

Spec == Init /\ [][Next]_vars

----------------------------------------------------------------------------
(* Properties. *)

Settled == listed /\ Unanswered = 0 /\ ~disturbed

Agrees == shown = on

\* Toggled one request at a time, a mark that has settled is shown as the server
\* has it, whether its requests succeeded, were refused or failed, and whatever
\* lists were loaded before and since.  A favourite the last list had no room for
\* is the one exception, and errs on one side only: it stays set at the server,
\* and every key that tries to set it is taken back.  No promise is made after
\* what disturbed names: a lost answer, another client, and a list replaced under
\* an open request.
SettledAgrees ==
  Settled /\ burst <= 1 => IF cut THEN on /\ ~shown ELSE Agrees

\* A favourite that lists have room for may be toggled twice in a row: whichever
\* request the server sees first, it refuses to set what is set and to clear what
\* is cleared, and the refusal corrects what is shown.  The other kinds have no
\* such luck.
FavoriteStandsOvertaking ==
  kind = "favorite" /\ Settled /\ ~cut /\ ~failed /\ burst <= 2 => Agrees
==============================================================================

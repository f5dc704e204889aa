------------------------------ MODULE EntryPages ------------------------------
(***************************************************************************)
(* Paging through entries: the entries tab of the terminal client          *)
(* (crates/tui/src/app/api/entries.rs) and the queries of the server       *)
(* behind it (crates/server/src/handlers/entries, folders/entries.rs).     *)
(*                                                                         *)
(* The server sorts the entries of a scope by id, the highest first, and   *)
(* gives out those after the first `offset`, with the offset of the rest.  *)
(* Between two pages entries are stored, marked as read or unread, and     *)
(* feeds put into folders and taken out.                                   *)
(*                                                                         *)
(* A page is the set of its entries, since the ids order it.  Every        *)
(* handler is one statement, and the client waits for the answer.  A       *)
(* request without an answer ends the client (handle_key returns the       *)
(* error), which is no step here.                                          *)
(***************************************************************************)
EXTENDS Naturals, FiniteSets

CONSTANTS
  Ids,        \* of entries
  Feeds,
  FeedOf,     \* the feed of each entry
  Found,      \* the entries that a search finds
  PageSize,   \* entries_page_size of the client
  Cap,        \* the server's limit of entries per page (200)
  MaxChanges, \* bound: changes of the tables
  None        \* no next page; also the mode before the first is opened

ASSUME EntryPagesAssumption ==
  /\ Ids \subseteq Nat /\ IsFiniteSet(Ids)
  /\ FeedOf \in [Ids -> Feeds]
  /\ Found \subseteq Ids
  /\ PageSize \in Nat \ {0} /\ Cap \in Nat \ {0}
  /\ MaxChanges \in Nat
  /\ Feeds \cap {"all", "search", "folder"} = {}
  /\ None \notin Nat \cup {"all", "search", "folder"} \cup Feeds

Modes == {"all", "search", "folder"} \cup Feeds
Filters == {"all", "unread", "read"}

VARIABLES
  stored,   \* table feed_items: the entries that are committed
  read,     \* table entry_states of this reader
  folder,   \* the feeds in the folder
  changes,  \* how many changes of the tables there have been
  tab,      \* the entries tab is shown
  mode,     \* entries_mode
  filter,   \* entries_read_filter
  offset,   \* entries_offset
  next,     \* entries_next_offset
  walking,  \* history: the pages since the last at offset 0 are of one scope
  due,      \* history: entries that have been in scope all that time, not shown yet
  departed  \* history: how many have left the scope in that time

tables == <<stored, read, folder>>
screen == <<tab, mode, filter, offset, next>>
walk == <<walking, due, departed>>
vars == <<tables, changes, screen, walk>>

----------------------------------------------------------------------------
(* The server. *)

InScope(m, i) ==
  \/ m = "all"
  \/ m = "search" /\ i \in Found
  \/ m = "folder" /\ FeedOf[i] \in folder
  \/ m = FeedOf[i]

\* The filters "read" and "unread"; the client sends none for "all".
Passes(f, i) ==
  \/ f = "all"
  \/ f = "read" /\ i \in read
  \/ f = "unread" /\ i \notin read

Selected(m, f) == {i \in stored : InScope(m, i) /\ Passes(f, i)}

\* How many of S an entry has before it: ORDER BY id DESC.
Rank(i, S) == Cardinality({j \in S : j > i})

Limit == IF PageSize < Cap THEN PageSize ELSE Cap

\* LIMIT and OFFSET.
Page(S, o) == {i \in S : o <= Rank(i, S) /\ Rank(i, S) < o + Limit}

\* A plausible slip: the page that was asked for, not the one that came.
NextByRequest(page, o) == IF page = {} THEN None ELSE o + PageSize

NextOffset(page, o) == IF page = {} THEN None ELSE o + Cardinality(page)

----------------------------------------------------------------------------
TypeOK ==
  /\ stored \subseteq Ids /\ read \subseteq stored /\ folder \subseteq Feeds
  /\ changes \in 0..MaxChanges
  /\ tab \in BOOLEAN
  /\ mode \in Modes \cup {None}
  /\ filter \in Filters
  /\ offset \in Nat
  /\ next \in Nat \cup {None}
  /\ next # None => offset <= next
  /\ mode = None => offset = 0 /\ next = None
  /\ walking \in BOOLEAN
  /\ walking => mode # None
  /\ due \subseteq IF walking THEN Selected(mode, filter) ELSE {}
  /\ departed \in Nat

Init ==
  /\ stored \in SUBSET Ids /\ read \in SUBSET stored /\ folder \in SUBSET Feeds
  /\ changes = 0
  /\ tab = FALSE
  /\ mode = None /\ filter = "all"
  /\ offset = 0 /\ next = None
  /\ walking = FALSE /\ due = {} /\ departed = 0

----------------------------------------------------------------------------
(* The client.  A key sets what to show, and asks for it. *)

\* refresh_entries with an answer.
Loaded(m, f, o) ==
  LET S == Selected(m, f)
      page == Page(S, o)
  IN /\ next' = NextOffset(page, o)
     /\ walking' = (o = 0 \/ walking)
     /\ due' = IF o = 0 THEN S \ page ELSE due \ page
     /\ departed' = IF o = 0 THEN 0 ELSE departed

\* refresh_entries with an error status: the list stays, and the place that was
\* asked for as well.
NotLoaded(m, f) ==
  LET same == walking /\ m = mode /\ f = filter
  IN /\ walking' = same
     /\ due' = IF same THEN due ELSE {}
     /\ departed' = IF same THEN departed ELSE 0
     /\ UNCHANGED next

Show(m, f, o) ==
  /\ mode' = m /\ filter' = f /\ offset' = o
  /\ Loaded(m, f, o) \/ NotLoaded(m, f)
  /\ UNCHANGED <<tables, changes>>

\* open_entries, open_all_entries, open_search_entries.
Open(m) == tab' = TRUE /\ Show(m, filter, 0)

\* refresh_tab
Refresh == tab /\ mode # None /\ Show(mode, filter, offset) /\ UNCHANGED tab

NextPage == tab /\ next # None /\ Show(mode, filter, next) /\ UNCHANGED tab

\* A plausible slip: without the `max(0)`, next to a page that is shorter.
PrevPageUnclipped ==
  tab /\ offset # 0 /\ Show(mode, filter, offset - PageSize) /\ UNCHANGED tab

PrevPage ==
  /\ tab /\ offset # 0
  /\ Show(mode, filter, IF offset > PageSize THEN offset - PageSize ELSE 0)
  /\ UNCHANGED tab

NextFilter ==
  CASE filter = "all" -> "unread" [] filter = "unread" -> "read" [] filter = "read" -> "all"

\* toggle_entries_filter asks for the entries only if they are on the screen.
ToggleFilter ==
  /\ IF tab /\ mode # None
       THEN Show(mode, NextFilter, 0)
       ELSE /\ filter' = NextFilter
            /\ offset' = 0
            /\ NotLoaded(mode, NextFilter)
            /\ UNCHANGED <<tables, changes, mode>>
  /\ UNCHANGED tab

SwitchTab == tab' = ~tab /\ UNCHANGED <<tables, changes, mode, filter, offset, next, walk>>

----------------------------------------------------------------------------
(* Changes of the tables, by the fetcher, by this client and by others. *)

Change ==
  /\ changes < MaxChanges
  /\ changes' = changes + 1
  /\ UNCHANGED <<screen, walking>>
  /\ LET gone == IF walking THEN Selected(mode, filter) \ Selected(mode, filter)' ELSE {}
     IN due' = due \ gone /\ departed' = departed + Cardinality(gone)

\* Postgres may commit a lower id after a higher one.
Store(i) ==
  /\ i \notin stored
  /\ stored' = stored \cup {i}
  /\ UNCHANGED <<read, folder>>
  /\ Change

\* mark_entries_read and mark_entries_unread, of one entry or many; also the marks
\* of single entries.
Mark(S, asRead) ==
  /\ read' = IF asRead THEN read \cup S ELSE read \ S
  /\ UNCHANGED <<stored, folder>>
  /\ Change

\* add_folder_feed and delete_folder_feed.
Assign(f) ==
  /\ folder' = IF f \in folder THEN folder \ {f} ELSE folder \cup {f}
  /\ UNCHANGED <<stored, read>>
  /\ Change

Next ==
  \/ \E m \in Modes : Open(m)
  \/ Refresh \/ NextPage \/ PrevPage \/ ToggleFilter \/ SwitchTab
  \/ \E i \in Ids : Store(i)
  \/ \E S \in SUBSET stored, asRead \in BOOLEAN : S # {} /\ Mark(S, asRead)
  \/ \E f \in Feeds : Assign(f)

Spec == Init /\ [][Next]_vars

----------------------------------------------------------------------------
(* Properties. *)

\* The entries due that the next pages will not bring any more.
Skipped ==
  IF next = None THEN due ELSE {i \in due : Rank(i, Selected(mode, filter)) < next}

\* Paging by offsets is as good as its scope is stable: from the first page on,
\* the next pages together leave out at most as many entries as have left the
\* scope meanwhile (marked as read, or taken out of the folder), however many
\* were stored at the top or late, pages gone back and loaded again, or failed.
\* When there is no next page, nothing else is missing.
SkipsOnlyForDeparted == walking => Cardinality(Skipped) <= departed
==============================================================================

------------------------------ MODULE FolderTab ------------------------------
(***************************************************************************)
(* Folders: the folder tab of the terminal client and its menus            *)
(* (crates/tui/src/app), and the server's statements on folders            *)
(* (crates/server/src/handlers/folders).                                   *)
(*                                                                         *)
(* The tab has a list of folders, a selected one, and a panel with its     *)
(* feeds.  Keys start a thread per request; its answer arrives as an event *)
(* at any later time and in any order.  Another client of the same user    *)
(* changes the tables, and requests fail.                                  *)
(*                                                                         *)
(* Positions count from 0, as in the code.  Ids count up and are not used  *)
(* again; names are numbers, for the order of the list.                    *)
(***************************************************************************)
EXTENDS Integers, Sequences, FiniteSets

CONSTANTS
  Names, Feeds,
  Threads,      \* bound: requests under way
  PageSize,     \* folders_page_size
  None,         \* no folder selected, no dialog open
  MaxFolders,   \* bound: folders ever created
  MaxFaults     \* bound: failures and changes by another client

ASSUME FolderTabAssumption ==
  /\ Names \subseteq Nat
  /\ PageSize \in Nat \ {0} /\ MaxFolders \in Nat /\ MaxFaults \in Nat
  /\ None \notin Nat
  /\ IsFiniteSet(Threads)

VARIABLES
  names,      \* table folders: the name of each folder
  created,    \* how many there have been
  members,    \* table folder_feeds
  folders,    \* the client's list, [id, name]
  selected, offset,
  panel,      \* folder_feed_ids, of which the feeds the client knows are drawn
  onFolders,  \* the folder tab is shown
  dialog,     \* modal and input: None, or what is asked and the folders shown for it
  requests,   \* of each thread: its request, then its event
  listDoubt,  \* history: another client changed a folder, a list could not be read,
              \*          or a folder changed after a list was read that is under way
  panelDoubt, \* history: the feeds of the selected folder changed since they were
              \*          read, or it was selected without asking for them
  faults

tables == <<names, created, members>>
list == <<folders, selected, offset>>
doubts == <<listDoubt, panelDoubt>>
vars == <<tables, list, panel, onFolders, dialog, requests, doubts, faults>>

Request(op, folder, name, feed) ==
  [op |-> op, folder |-> folder, name |-> name, feed |-> feed,
   answered |-> FALSE, list |-> <<>>, feeds |-> {}, old |-> FALSE]

\* No request; a GET of the list, and of a folder's feeds.
Idle == Request("idle", None, None, None)
Load == Request("load", None, None, None)
LoadFeeds(f) == Request("feeds", f, None, None)

\* Those that end with a new list.
ListOps == {"load", "create", "rename", "delete"}
Changes == {"create", "rename", "delete", "assign", "unassign"}

ListUnderWay == \E t \in Threads : requests[t].op \in ListOps
ListAnswered == \E t \in Threads : requests[t].op = "load" /\ requests[t].answered

Selected == IF selected < Len(folders) THEN folders[selected + 1].id ELSE None
FeedsIn(rows, f) == {row[2] : row \in {x \in rows : x[1] = f}}

TypeOK ==
  /\ created \in 0..MaxFolders
  /\ DOMAIN names \subseteq 1..created
  /\ \A f \in DOMAIN names : names[f] \in Names
  /\ members \subseteq (DOMAIN names) \X Feeds
  /\ \A i \in DOMAIN folders : folders[i] \in [id : 1..created, name : Names]
  /\ selected \in 0..(IF folders = <<>> THEN 0 ELSE Len(folders) - 1)
  /\ offset \in Nat
  /\ panel \subseteq Feeds
  /\ onFolders \in BOOLEAN
  /\ dialog # None => dialog.op \in Changes \ {"delete"}
  /\ DOMAIN requests = Threads
  /\ \A t \in Threads :
       /\ requests[t].op \in Changes \cup {"idle", "load", "feeds"}
       /\ requests[t].answered => requests[t].op \in {"load", "feeds"}
  /\ listDoubt \in BOOLEAN /\ panelDoubt \in BOOLEAN
  /\ faults \in 0..MaxFaults

\* Login has just succeeded, and queue_refresh_all runs.
Init ==
  /\ created \in 0..(MaxFolders - 1)
  /\ names \in {n \in [1..created -> Names] : \A f, g \in 1..created : n[f] = n[g] => f = g}
  /\ members \in SUBSET ((1..created) \X Feeds)
  /\ folders = <<>> /\ selected = 0 /\ offset = 0
  /\ panel = {}
  /\ onFolders = FALSE
  /\ dialog = None
  /\ \E t \in Threads : requests = [s \in Threads |-> IF s = t THEN Load ELSE Idle]
  /\ listDoubt = FALSE /\ panelDoubt = FALSE
  /\ faults = 0

----------------------------------------------------------------------------
(* The server. *)

\* list_folders: ORDER BY name.
List ==
  LET Before(f) == {g \in DOMAIN names : names[g] < names[f]}
      At(i) == CHOOSE f \in DOMAIN names : Cardinality(Before(f)) = i - 1
  IN [i \in 1..Cardinality(DOMAIN names) |-> [id |-> At(i), name |-> names[At(i)]]]

\* No row to change, or one that is there already (errors.rs, the schema's keys).
Refused(r) ==
  \/ r.op \in {"rename", "delete", "assign"} /\ r.folder \notin DOMAIN names
  \/ r.op = "create" /\ \E f \in DOMAIN names : names[f] = r.name
  \/ r.op = "rename" /\ \E f \in DOMAIN names \ {r.folder} : names[f] = r.name
  \/ r.op = "assign" /\ r.feed \in FeedsIn(members, r.folder)
  \/ r.op = "unassign" /\ r.feed \notin FeedsIn(members, r.folder)

FeedsAfter(r) ==
  IF r.op = "assign" THEN members \cup {<<r.folder, r.feed>>}
  ELSE IF r.op = "unassign" THEN members \ {<<r.folder, r.feed>>}
  ELSE IF r.op = "delete" THEN {m \in members : m[1] # r.folder}
  ELSE members

NamesAfter(r) ==
  IF r.op = "create"
    THEN [f \in DOMAIN names \cup {created + 1} |-> IF f = created + 1 THEN r.name ELSE names[f]]
  ELSE IF r.op = "rename" THEN [names EXCEPT ![r.folder] = r.name]
  ELSE IF r.op = "delete" THEN [f \in DOMAIN names \ {r.folder} |-> names[f]]
  ELSE names

\* create_folder, update_folder, delete_folder, add_folder_feed,
\* delete_folder_feed: one statement each.  rest: the requests after it.
Change(r, rest) ==
  LET Changed(f) == FeedsIn(members', f) # FeedsIn(members, f)
  IN /\ ~Refused(r)
     /\ names' = NamesAfter(r)
     /\ created' = IF r.op = "create" THEN created + 1 ELSE created
     /\ members' = FeedsAfter(r)
     /\ panelDoubt' = (panelDoubt \/ Changed(Selected))
     /\ requests' = [t \in Threads |->
          IF rest[t].op = "feeds" /\ rest[t].answered /\ Changed(rest[t].folder)
            THEN [rest[t] EXCEPT !.old = TRUE]
            ELSE rest[t]]

\* A plausible slip: deleting does not ask for the list again.
FollowUpUnlessDeleted(r) == IF r.op \in {"create", "rename"} THEN Load ELSE Idle

\* The thread of a change of the list goes on with a GET of it.
FollowUp(r) == IF r.op \in ListOps THEN Load ELSE Idle

Done(t) == [requests EXCEPT ![t] = Idle]

\* Of an assignment only the status line shows how it ended.
Perform(t) ==
  LET r == requests[t]
  IN /\ r.op \in Changes
     /\ \/ /\ Change(r, [requests EXCEPT ![t] = FollowUp(r)])
           /\ listDoubt' = (listDoubt \/ (r.op \in ListOps /\ ListAnswered))
        \/ Refused(r) /\ requests' = Done(t) /\ UNCHANGED <<tables, doubts>>
     /\ UNCHANGED <<list, panel, onFolders, dialog, faults>>

ReadList(t) ==
  /\ requests[t].op = "load" /\ ~requests[t].answered
  /\ requests' = [requests EXCEPT ![t].answered = TRUE, ![t].list = List]
  /\ listDoubt' = (ListAnswered /\ listDoubt)
  /\ UNCHANGED <<tables, list, panel, onFolders, dialog, panelDoubt, faults>>

\* list_folder_feeds; none for a folder that is not there.
ReadFeeds(t) ==
  /\ requests[t].op = "feeds" /\ ~requests[t].answered
  /\ requests' = [requests EXCEPT ![t].answered = TRUE,
                                  ![t].feeds = FeedsIn(members, requests[t].folder)]
  /\ UNCHANGED <<tables, list, panel, onFolders, dialog, doubts, faults>>

\* An error, before the change or before the GET after it; also create_folder on
\* SQLite, when the row it inserted is not the last of the connection it asks.
Fail(t) ==
  LET r == requests[t]
  IN /\ faults < MaxFaults /\ faults' = faults + 1
     /\ r.op # "idle" /\ ~r.answered
     /\ requests' = Done(t)
     /\ listDoubt' = (listDoubt \/ r.op = "load")
     /\ panelDoubt' = (panelDoubt \/ (r.op = "feeds" /\ r.folder = Selected))
     /\ UNCHANGED <<tables, list, panel, onFolders, dialog>>

\* The bound on folders.
CanCreate == created + Cardinality({t \in Threads : requests[t].op = "create"}) < MaxFolders

\* Another client of the same user.
ChangeElsewhere(r) ==
  /\ faults < MaxFaults /\ faults' = faults + 1
  /\ r.op = "create" => CanCreate
  /\ Change(r, requests)
  /\ listDoubt' = (listDoubt \/ names' # names)
  /\ UNCHANGED <<list, panel, onFolders, dialog>>

----------------------------------------------------------------------------
(* The client: events. *)

\* A thread is started for a request.  before: the requests under way.
Send(r, before) == \E t \in Threads : before[t] = Idle /\ requests' = [before EXCEPT ![t] = r]

\* request_folder_feeds, after the list and the selection were set.
AskPanel(before) ==
  IF Selected' = None
    THEN panel' = {} /\ panelDoubt' = FALSE /\ requests' = before
    ELSE Send(LoadFeeds(Selected'), before) /\ UNCHANGED <<panel, panelDoubt>>

\* ensure_offset
EnsureOffset(s, o, len) ==
  LET next == IF o < len THEN o ELSE len - 1
  IN IF len = 0 THEN 0
     ELSE IF s < next THEN s
     ELSE IF s >= next + PageSize THEN s + 1 - PageSize
     ELSE next

\* A plausible slip: the page stays where it was.
ReplaceListButOffset(new) ==
  /\ folders' = new
  /\ selected' = IF selected >= Len(new) THEN 0 ELSE selected
  /\ UNCHANGED offset

\* A plausible slip: the selection stays where it was.
ReplaceListOnly(new) == folders' = new /\ UNCHANGED <<selected, offset>>

ReplaceList(new) ==
  /\ folders' = new
  /\ selected' = IF selected >= Len(new) THEN 0 ELSE selected
  /\ offset' = IF selected >= Len(new) THEN 0 ELSE offset

\* RefreshAll, RefreshFolders
ApplyList(t) ==
  /\ requests[t].op = "load" /\ requests[t].answered
  /\ ReplaceList(requests[t].list)
  /\ AskPanel(Done(t))
  /\ UNCHANGED <<tables, onFolders, dialog, listDoubt, faults>>

\* A plausible slip: the feeds are shown, whichever folder they are of.
ForAnyFolder(r) == TRUE

StillSelected(r) == r.folder = Selected

\* FolderFeeds
ApplyFeeds(t) ==
  LET r == requests[t]
  IN /\ r.op = "feeds" /\ r.answered
     /\ IF StillSelected(r) THEN panel' = r.feeds /\ panelDoubt' = r.old
                            ELSE UNCHANGED <<panel, panelDoubt>>
     /\ requests' = Done(t)
     /\ UNCHANGED <<tables, list, onFolders, dialog, listDoubt, faults>>

----------------------------------------------------------------------------
(* The client: keys. *)

\* A plausible slip: keys reach the tab behind a menu.
KeysAlways == TRUE

\* handle_main_key gives every key to an open input or menu.
KeysToTab == dialog = None

\* Coming to the tab asks for the feeds, and so does its own key while it is shown.
SwitchTab ==
  /\ KeysToTab
  /\ onFolders' \in BOOLEAN
  /\ UNCHANGED list
  /\ IF onFolders' THEN AskPanel(requests) ELSE UNCHANGED <<requests, panel, panelDoubt>>
  /\ UNCHANGED <<tables, dialog, listDoubt, faults>>

\* move_selection when it moves, jump_top, jump_middle, jump_bottom.
Targets ==
  ({selected - 1, selected + 1} \cap 0..(Len(folders) - 1))
    \cup {0, Len(folders) \div 2} \cup (IF folders = <<>> THEN {} ELSE {Len(folders) - 1})

Select(p) ==
  /\ KeysToTab /\ onFolders
  /\ selected' = p
  /\ offset' = EnsureOffset(p, offset, Len(folders))
  /\ UNCHANGED folders
  /\ AskPanel(requests)
  /\ UNCHANGED <<tables, onFolders, dialog, listDoubt, faults>>

\* A key that may select another folder and does not ask for its feeds.
WithoutAsking ==
  /\ UNCHANGED <<panel, requests>>
  /\ panelDoubt' = (panelDoubt \/ Selected' # Selected)

\* next_list_page and prev_list_page, with update_selected_for_offset.
ShowFrom(o) ==
  /\ KeysToTab /\ onFolders
  /\ offset' = o
  /\ selected' = IF selected < o \/ selected >= o + PageSize THEN o ELSE selected
  /\ UNCHANGED folders
  /\ WithoutAsking
  /\ UNCHANGED <<tables, onFolders, dialog, listDoubt, faults>>

NextListPage == offset + PageSize < Len(folders) /\ ShowFrom(offset + PageSize)
PrevListPage ==
  folders # <<>> /\ offset # 0 /\ ShowFrom(IF offset > PageSize THEN offset - PageSize ELSE 0)

\* refresh_folders waits for its answer.
RefreshTab ==
  LET keep == IF selected >= Len(List) THEN 0 ELSE selected
  IN /\ KeysToTab /\ onFolders
     /\ folders' = List
     /\ selected' = keep
     /\ offset' = EnsureOffset(keep, IF keep = selected THEN offset ELSE 0, Len(List))
     /\ listDoubt' = (ListAnswered /\ listDoubt)
     /\ WithoutAsking
     /\ UNCHANGED <<tables, onFolders, dialog, faults>>

DeleteFolder ==
  /\ KeysToTab /\ onFolders /\ Selected # None
  /\ Send(Request("delete", Selected, None, None), requests)
  /\ UNCHANGED <<tables, list, panel, onFolders, dialog, doubts, faults>>

\* quiet, history: no new list is to come while it is open.
Open(op, feed, shown) ==
  /\ KeysToTab
  /\ dialog' = [op |-> op, feed |-> feed, shown |-> shown, quiet |-> ~ListUnderWay]
  /\ UNCHANGED <<tables, list, panel, onFolders, requests, doubts, faults>>

OpenFolderCreateInput == onFolders /\ Open("create", None, <<>>)
OpenFolderRenameInput ==
  onFolders /\ Selected # None /\ Open("rename", None, <<folders[selected + 1]>>)
OpenFolderMenu(op, feed) == ~onFolders /\ folders # <<>> /\ Open(op, feed, folders)

Close == dialog' = None /\ UNCHANGED <<tables, list, panel, onFolders, doubts, faults>>

Escape == dialog # None /\ Close /\ UNCHANGED requests

EnterName(n) ==
  /\ dialog # None /\ dialog.op \in {"create", "rename"}
  /\ IF dialog.op = "create"
       THEN CanCreate /\ Send(Request("create", None, n, None), requests)
       ELSE Send(Request("rename", dialog.shown[1].id, n, None), requests)
  /\ Close

\* The menu keeps positions; the folder is looked up in the list there is now.
ChooseFolder(p) ==
  /\ dialog # None /\ dialog.op \in {"assign", "unassign"}
  /\ p \in DOMAIN dialog.shown
  /\ IF p \in DOMAIN folders
       THEN Send(Request(dialog.op, folders[p].id, None, dialog.feed), requests)
       ELSE UNCHANGED requests
  /\ Close

Next ==
  \/ \E t \in Threads :
       \/ Perform(t) \/ ReadList(t) \/ ReadFeeds(t) \/ Fail(t)
       \/ ApplyList(t) \/ ApplyFeeds(t)
  \/ \E op \in Changes, f \in 1..created, n \in Names, x \in Feeds :
       ChangeElsewhere(Request(op, f, n, x))
  \/ SwitchTab \/ NextListPage \/ PrevListPage \/ RefreshTab \/ DeleteFolder
  \/ \E p \in Targets : Select(p)
  \/ OpenFolderCreateInput \/ OpenFolderRenameInput
  \/ \E op \in {"assign", "unassign"}, x \in Feeds : OpenFolderMenu(op, x)
  \/ Escape
  \/ \E n \in Names : EnterName(n)
  \/ \E p \in 1..MaxFolders : ChooseFolder(p)

Spec == Init /\ [][Next]_vars

----------------------------------------------------------------------------
(* Properties. *)

\* Pages, jumps and lists that shrink never leave the selected folder off the page.
SelectionVisible == offset <= selected /\ selected < offset + PageSize

\* After a folder was created, renamed or deleted, or the tab was refreshed, the
\* list is the one on the server, whichever of them were refused or overlapped:
\* unless a list could not be read, another client made a change after it was, or
\* a list read before a change arrives after the one read after it.
FolderListAgrees == ~ListUnderWay /\ ~listDoubt => folders = List

\* The panel shows the feeds of the selected folder, in whatever order the lists
\* and the feeds of this and of other folders arrive, unless these changed since
\* they were read, they could not be read, or the folder was selected by a key
\* that does not ask for them (the pages, and refreshing the list).
PanelAgrees ==
  ~panelDoubt /\ (\A t \in Threads : ~(requests[t].op = "feeds" /\ requests[t].folder = Selected))
    => panel = FeedsIn(members, Selected)

\* A feed is put into the folder that the menu shows at the position chosen, if no
\* new list was under way when the menu was opened, however long it stays open.
MenuMeansWhatItShows ==
  [][\A p \in 1..MaxFolders :
       ChooseFolder(p) /\ dialog.quiet =>
         \E t \in Threads :
           requests'[t].op = dialog.op /\ requests'[t].folder = dialog.shown[p].id]_vars
=============================================================================

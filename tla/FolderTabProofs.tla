--------------------------- MODULE FolderTabProofs ---------------------------
(***************************************************************************)
(* Proofs about FolderTab, for every set of names, feeds and threads, page *)
(* size, and number of folders and of failures: the list, the selection,   *)
(* the panel and the menus of the folder tab.                              *)
(***************************************************************************)
EXTENDS FolderTab, FiniteSetTheorems, SequenceTheorems, TLAPS

Item == [id : Nat, name : Names]
Ops == Changes \cup {"idle", "load", "feeds"}
Requests ==
  [op : Ops, folder : Nat \cup {None}, name : Names \cup {None}, feed : Feeds \cup {None},
   answered : BOOLEAN, list : Seq(Item), feeds : SUBSET Feeds, old : BOOLEAN]
Dialogs ==
  [op : Changes \ {"delete"}, feed : Feeds \cup {None}, shown : Seq(Item), quiet : BOOLEAN]

\* The tables.
Rows ==
  /\ created \in Nat
  /\ DOMAIN names \subseteq 1..created
  /\ \A f \in DOMAIN names : names[f] \in Names
  /\ \A f, g \in DOMAIN names : names[f] = names[g] => f = g
  /\ members \subseteq (DOMAIN names) \X Feeds

\* What a request carries.
Formed(r) ==
  /\ r.answered => r.op \in {"load", "feeds"}
  /\ r.op \in {"create", "rename"} => r.name \in Names
  /\ r.op = "assign" => r.feed \in Feeds

\* The client.
Client ==
  /\ folders \in Seq(Item)
  /\ selected \in Nat /\ offset \in Nat
  /\ selected = 0 \/ selected < Len(folders)
  /\ panel \subseteq Feeds
  /\ onFolders \in BOOLEAN
  /\ dialog # None =>
       /\ dialog \in Dialogs
       /\ dialog.op = "rename" => dialog.shown[1].id \in Nat
       /\ dialog.op \in {"assign", "unassign"} => dialog.feed \in Feeds
  /\ listDoubt \in BOOLEAN /\ panelDoubt \in BOOLEAN
  /\ faults \in 0..MaxFaults

UnderWay ==
  /\ requests \in [Threads -> Requests]
  /\ \A t \in Threads : Formed(requests[t])

Shape == Rows /\ Client /\ UnderWay

----------------------------------------------------------------------------
(* The list on the server. *)

Before(f) == {g \in DOMAIN names : names[g] < names[f]}
Place(f) == Cardinality(Before(f))

LEMMA FoldersFinite ==
  ASSUME Rows
  PROVE  IsFiniteSet(DOMAIN names) /\ Cardinality(DOMAIN names) \in Nat
<1>1. IsFiniteSet(1..created)
  BY FS_Interval DEF Rows
<1>2. DOMAIN names \in SUBSET (1..created)
  BY DEF Rows
<1>3. IsFiniteSet(DOMAIN names)
  BY <1>1, <1>2, FS_Subset
<1> QED
  BY <1>3, FS_CardinalityType

\* A folder comes before another one or after it, so their places differ.
LEMMA PlaceGrows ==
  ASSUME Rows, NEW f \in DOMAIN names, NEW g \in DOMAIN names, names[f] < names[g]
  PROVE  Place(f) < Place(g)
<1>0. names[f] \in Nat /\ names[g] \in Nat /\ \A h \in DOMAIN names : names[h] \in Nat
  BY FolderTabAssumption DEF Rows
<1>1. Before(f) \in SUBSET Before(g)
  BY <1>0 DEF Before
<1>2. f \in Before(g) /\ f \notin Before(f)
  BY <1>0 DEF Before
<1>3. IsFiniteSet(Before(g))
  <2>1. Before(g) \in SUBSET (DOMAIN names)
    BY DEF Before
  <2> QED
    BY <2>1, FoldersFinite, FS_Subset
<1>4. IsFiniteSet(Before(f))
  BY <1>1, <1>3, FS_Subset
<1>5. Cardinality(Before(f)) <= Cardinality(Before(g)) /\ Cardinality(Before(f)) # Cardinality(Before(g))
  BY <1>1, <1>2, <1>3, FS_Subset
<1>6. Cardinality(Before(f)) \in Nat /\ Cardinality(Before(g)) \in Nat
  BY <1>3, <1>4, FS_CardinalityType
<1> QED
  BY <1>5, <1>6 DEF Place

LEMMA PlaceBounded ==
  ASSUME Rows, NEW f \in DOMAIN names
  PROVE  Place(f) \in 0..(Cardinality(DOMAIN names) - 1)
<1>1. Before(f) \in SUBSET (DOMAIN names)
  BY DEF Before
<1>2. f \notin Before(f)
  <2>1. names[f] \in Nat
    BY FolderTabAssumption DEF Rows
  <2> QED
    BY <2>1 DEF Before
<1>3. /\ IsFiniteSet(Before(f))
      /\ Cardinality(Before(f)) <= Cardinality(DOMAIN names)
      /\ Cardinality(Before(f)) # Cardinality(DOMAIN names)
  BY <1>1, <1>2, FoldersFinite, FS_Subset
<1>4. Cardinality(Before(f)) \in Nat
  BY <1>3, FS_CardinalityType
<1> QED
  BY <1>3, <1>4, FoldersFinite DEF Place

\* There is a folder at every place: else they would share one of those left.
LEMMA EveryPlaceTaken ==
  ASSUME Rows, NEW k \in 0..(Cardinality(DOMAIN names) - 1)
  PROVE  \E f \in DOMAIN names : Place(f) = k
<1> DEFINE n == Cardinality(DOMAIN names)
           others == (0..(n - 1)) \ {k}
           place == [f \in DOMAIN names |-> Place(f)]
<1>0. n \in Nat /\ IsFiniteSet(DOMAIN names)
  BY FoldersFinite
<1>1. SUFFICES ASSUME \A f \in DOMAIN names : Place(f) # k
               PROVE  FALSE
  OBVIOUS
<1>2. IsFiniteSet(0..(n - 1)) /\ Cardinality(0..(n - 1)) = n
  BY <1>0, FS_Interval
<1>3. IsFiniteSet(others) /\ Cardinality(others) = n - 1
  BY <1>2, FS_RemoveElement
<1>4. place \in [DOMAIN names -> others]
  BY <1>1, PlaceBounded
<1>5. PICK f, g \in DOMAIN names : f # g /\ place[f] = place[g]
  <2>1. Cardinality(others) < Cardinality(DOMAIN names)
    BY <1>0, <1>3
  <2> HIDE DEF others, place
  <2> QED
    BY <1>0, <1>3, <1>4, <2>1, FS_PigeonHole
<1>6. Place(f) = Place(g)
  BY <1>5
<1>7. names[f] # names[g] /\ names[f] \in Nat /\ names[g] \in Nat
  BY <1>5, FolderTabAssumption DEF Rows
<1>8. Place(f) \in Int /\ Place(g) \in Int
  BY PlaceBounded
<1>9. CASE names[f] < names[g]
  BY <1>6, <1>8, <1>9, PlaceGrows
<1>10. CASE names[g] < names[f]
  BY <1>6, <1>8, <1>10, PlaceGrows
<1> QED
  BY <1>7, <1>9, <1>10

LEMMA FunctionIsSequence ==
  ASSUME NEW S, NEW n \in Nat, NEW s \in [1..n -> S]
  PROVE  s \in Seq(S) /\ Len(s) = n
<1>1. s \in Seq(S)
  BY SeqDef
<1>2. Len(s) \in Nat /\ 1..Len(s) = 1..n
  BY <1>1, LenProperties
<1> QED
  BY <1>1, <1>2

LEMMA ListTyped ==
  ASSUME Rows
  PROVE  /\ List \in Seq([id : DOMAIN names, name : Names])
         /\ List \in Seq(Item)
         /\ Len(List) = Cardinality(DOMAIN names)
<1> DEFINE n == Cardinality(DOMAIN names)
           At(i) == CHOOSE f \in DOMAIN names : Place(f) = i - 1
<1>0. n \in Nat
  BY FoldersFinite
<1>1. List = [i \in 1..n |-> [id |-> At(i), name |-> names[At(i)]]]
  BY DEF List, Place, Before
<1>2. \A i \in 1..n : At(i) \in DOMAIN names
  <2>1. TAKE i \in 1..n
  <2>2. i - 1 \in 0..(n - 1)
    BY <1>0, <2>1
  <2>3. \E f \in DOMAIN names : Place(f) = i - 1
    BY <2>2, EveryPlaceTaken
  <2> QED
    BY <2>3
<1>3. \A i \in 1..n : [id |-> At(i), name |-> names[At(i)]] \in [id : DOMAIN names, name : Names]
  BY <1>2 DEF Rows
<1> HIDE DEF n, At
<1>4. List \in [1..n -> [id : DOMAIN names, name : Names]]
  BY <1>1, <1>3
<1>5. List \in Seq([id : DOMAIN names, name : Names]) /\ Len(List) = n
  BY <1>0, <1>4, FunctionIsSequence
<1>6. [id : DOMAIN names, name : Names] \subseteq Item
  BY DEF Rows, Item
<1>7. List \in Seq(Item)
  BY <1>5, <1>6, SeqMonotonic
<1> QED
  BY <1>5, <1>7 DEF n

----------------------------------------------------------------------------
(* Requests. *)

LEMMA RequestTyped ==
  ASSUME NEW op \in Ops, NEW f \in Nat \cup {None}, NEW n \in Names \cup {None},
         NEW x \in Feeds \cup {None},
         op \in {"create", "rename"} => n \in Names,
         op = "assign" => x \in Feeds
  PROVE  /\ Request(op, f, n, x) \in Requests
         /\ Formed(Request(op, f, n, x))
<1>1. <<>> \in Seq(Item)
  BY EmptySeq
<1> QED
  BY <1>1 DEF Request, Requests, Formed

LEMMA LoadsTyped ==
  /\ Idle \in Requests /\ Formed(Idle) /\ Idle.op = "idle"
  /\ Load \in Requests /\ Formed(Load) /\ Load.op = "load" /\ ~Load.answered
<1>1. "idle" \in Ops /\ "load" \in Ops
  BY DEF Ops
<1>2. Idle \in Requests /\ Formed(Idle)
  BY <1>1, RequestTyped DEF Idle
<1>3. Load \in Requests /\ Formed(Load)
  BY <1>1, RequestTyped DEF Load
<1> QED
  BY <1>2, <1>3 DEF Idle, Load, Request

LEMMA LoadFeedsTyped ==
  ASSUME NEW f \in Nat
  PROVE  LoadFeeds(f) \in Requests /\ Formed(LoadFeeds(f))
<1>1. "feeds" \in Ops
  BY DEF Ops
<1> QED
  BY <1>1, RequestTyped DEF LoadFeeds

\* A thread that had nothing to do gets the request.
LEMMA SendTyped ==
  ASSUME NEW before \in [Threads -> Requests], \A t \in Threads : Formed(before[t]),
         NEW r \in Requests, Formed(r), Send(r, before)
  PROVE  UnderWay'
<1>1. PICK s \in Threads : requests' = [before EXCEPT ![s] = r]
  BY DEF Send
<1>2. requests' \in [Threads -> Requests]
  BY <1>1
<1>3. ASSUME NEW t \in Threads PROVE Formed(requests'[t])
  BY <1>1, <1>3
<1> QED
  BY <1>2, <1>3 DEF UnderWay, Formed

LEMMA DoneTyped ==
  ASSUME UnderWay, NEW t \in Threads
  PROVE  Done(t) \in [Threads -> Requests] /\ \A s \in Threads : Formed(Done(t)[s])
  BY LoadsTyped DEF Done, UnderWay

LEMMA ItemAt ==
  ASSUME NEW s \in Seq(Item), NEW k \in Nat, k < Len(s)
  PROVE  s[k + 1] \in Item
<1>1. Len(s) \in Nat
  BY LenProperties
<1>2. k + 1 \in 1..Len(s)
  BY <1>1
<1> QED
  BY <1>2, ElementOfSeq

\* A folder is selected unless there is none.
LEMMA SelectedTyped ==
  ASSUME folders' \in Seq(Item), selected' \in Nat
  PROVE  Selected' \in Nat \cup {None}
<1>1. ASSUME selected' < Len(folders') PROVE folders'[selected' + 1].id \in Nat
  <2>3. folders'[selected' + 1] \in Item
    BY <1>1, ItemAt
  <2> QED
    BY <2>3 DEF Item
<1> QED
  BY <1>1 DEF Selected

LEMMA AskTyped ==
  ASSUME Client, folders' \in Seq(Item), selected' \in Nat,
         NEW before \in [Threads -> Requests], \A t \in Threads : Formed(before[t]),
         AskPanel(before)
  PROVE  UnderWay' /\ panel' \subseteq Feeds /\ panelDoubt' \in BOOLEAN
<1>1. CASE Selected' = None
  BY <1>1 DEF AskPanel, UnderWay, Formed
<1>2. CASE Selected' # None
  <2>1. Selected' \in Nat
    BY <1>2, SelectedTyped
  <2>2. LoadFeeds(Selected') \in Requests /\ Formed(LoadFeeds(Selected'))
    BY <2>1, LoadFeedsTyped
  <2>3. Send(LoadFeeds(Selected'), before) /\ panel' = panel /\ panelDoubt' = panelDoubt
    BY <1>2 DEF AskPanel
  <2>4. UnderWay'
    BY <2>2, <2>3, SendTyped
  <2> QED
    BY <2>3, <2>4 DEF Client
<1> QED
  BY <1>1, <1>2

----------------------------------------------------------------------------
(* The server's statements. *)

LEMMA ChangeKeepsRows ==
  ASSUME Rows, NEW r \in Requests, Formed(r), r.op \in Changes,
         NEW rest, Change(r, rest)
  PROVE  Rows' /\ (r.op \notin ListOps => names' = names)
<1>1. /\ names' = NamesAfter(r) /\ members' = FeedsAfter(r)
      /\ created' = IF r.op = "create" THEN created + 1 ELSE created
      /\ ~Refused(r)
  BY DEF Change
<1>2. CASE r.op = "create"
  <2>1. /\ created' = created + 1 /\ members' = members
        /\ names' = [f \in DOMAIN names \cup {created + 1} |->
                       IF f = created + 1 THEN r.name ELSE names[f]]
    BY <1>1, <1>2 DEF NamesAfter, FeedsAfter
  <2>2. r.name \in Names /\ \A f \in DOMAIN names : names[f] # r.name
    BY <1>1, <1>2 DEF Formed, Refused
  <2>3. created + 1 \notin DOMAIN names /\ created' \in Nat /\ created + 1 \in 1..created'
        /\ 1..created \subseteq 1..created'
    BY <2>1 DEF Rows
  <2>4. DOMAIN names' \subseteq 1..created'
    BY <2>1, <2>3 DEF Rows
  <2> QED
    BY <1>2, <2>1, <2>2, <2>3, <2>4 DEF Rows, ListOps
<1>3. CASE r.op = "rename"
  <2>1. /\ created' = created /\ members' = members
        /\ names' = [names EXCEPT ![r.folder] = r.name]
    BY <1>1, <1>3 DEF NamesAfter, FeedsAfter
  <2>2. /\ r.name \in Names /\ r.folder \in DOMAIN names
        /\ \A f \in DOMAIN names \ {r.folder} : names[f] # r.name
    BY <1>1, <1>3 DEF Formed, Refused
  <2> QED
    BY <1>3, <2>1, <2>2 DEF Rows, ListOps
<1>4. CASE r.op = "delete"
  <2>1. /\ created' = created /\ members' = {m \in members : m[1] # r.folder}
        /\ names' = [f \in DOMAIN names \ {r.folder} |-> names[f]]
    BY <1>1, <1>4 DEF NamesAfter, FeedsAfter
  <2> QED
    BY <1>4, <2>1 DEF Rows, ListOps
<1>5. CASE r.op = "assign"
  <2>1. /\ created' = created /\ names' = names
        /\ members' = members \cup {<<r.folder, r.feed>>}
    BY <1>1, <1>5 DEF NamesAfter, FeedsAfter
  <2>2. r.folder \in DOMAIN names /\ r.feed \in Feeds
    BY <1>1, <1>5 DEF Formed, Refused
  <2> QED
    BY <2>1, <2>2 DEF Rows
<1>6. CASE r.op = "unassign"
  <2>1. /\ created' = created /\ names' = names
        /\ members' = members \ {<<r.folder, r.feed>>}
    BY <1>1, <1>6 DEF NamesAfter, FeedsAfter
  <2> QED
    BY <2>1 DEF Rows
<1> QED
  BY <1>2, <1>3, <1>4, <1>5, <1>6 DEF Changes

\* Of the other requests it only marks those whose answer is of before.
LEMMA ChangeMarks ==
  ASSUME NEW r, NEW rest \in [Threads -> Requests], Change(r, rest), NEW t \in Threads
  PROVE  /\ requests'[t] \in Requests
         /\ requests'[t].op = rest[t].op /\ requests'[t].folder = rest[t].folder
         /\ requests'[t].name = rest[t].name /\ requests'[t].feed = rest[t].feed
         /\ requests'[t].answered = rest[t].answered
         /\ requests'[t].list = rest[t].list /\ requests'[t].feeds = rest[t].feeds
         /\ rest[t].op = "feeds" /\ rest[t].answered /\ ~requests'[t].old =>
              /\ ~rest[t].old
              /\ FeedsIn(members', rest[t].folder) = FeedsIn(members, rest[t].folder)
<1> DEFINE Changed(f) == FeedsIn(members', f) # FeedsIn(members, f)
<1>1. requests'[t] = IF rest[t].op = "feeds" /\ rest[t].answered /\ Changed(rest[t].folder)
                       THEN [rest[t] EXCEPT !.old = TRUE] ELSE rest[t]
  BY DEF Change
<1>2. rest[t] \in Requests
  OBVIOUS
<1> HIDE DEF Changed
<1>3. CASE rest[t].op = "feeds" /\ rest[t].answered /\ Changed(rest[t].folder)
  <2>1. requests'[t] = [rest[t] EXCEPT !.old = TRUE]
    BY <1>1, <1>3
  <2> QED
    BY <1>2, <2>1 DEF Requests
<1>4. CASE ~(rest[t].op = "feeds" /\ rest[t].answered /\ Changed(rest[t].folder))
  <2>1. requests'[t] = rest[t]
    BY <1>1, <1>4
  <2> QED
    BY <1>2, <1>4, <2>1 DEF Changed
<1> QED
  BY <1>3, <1>4

LEMMA ChangeTyped ==
  ASSUME NEW r, NEW rest \in [Threads -> Requests], \A t \in Threads : Formed(rest[t]),
         Change(r, rest), panelDoubt \in BOOLEAN
  PROVE  UnderWay' /\ panelDoubt' \in BOOLEAN
<1>1. DOMAIN requests' = Threads /\ requests' = [t \in Threads |-> requests'[t]]
  BY DEF Change
<1>2. requests' \in [Threads -> Requests]
  BY <1>1, ChangeMarks
<1>3. ASSUME NEW t \in Threads PROVE Formed(requests'[t])
  BY <1>3, ChangeMarks DEF Formed
<1> QED
  BY <1>2, <1>3 DEF UnderWay, Formed, Change

----------------------------------------------------------------------------
(* Positions in the list. *)

Position ==
  /\ folders \in Seq(Item)
  /\ selected \in Nat /\ offset \in Nat
  /\ selected = 0 \/ selected < Len(folders)
  /\ SelectionVisible

LEMMA EnsureOffsetShows ==
  ASSUME NEW s \in Nat, NEW o \in Nat, NEW len \in Nat, s = 0 \/ s < len
  PROVE  /\ EnsureOffset(s, o, len) \in Nat
         /\ EnsureOffset(s, o, len) <= s /\ s < EnsureOffset(s, o, len) + PageSize
<1>1. PageSize \in Nat \ {0}
  BY FolderTabAssumption
<1> QED
  BY <1>1 DEF EnsureOffset

LEMMA ReplaceListPosition ==
  ASSUME Position, NEW new \in Seq(Item), ReplaceList(new)
  PROVE  Position'
<1>1. Len(new) \in Nat /\ PageSize \in Nat \ {0}
  BY LenProperties, FolderTabAssumption
<1> QED
  BY <1>1 DEF Position, ReplaceList, SelectionVisible

LEMMA SelectPosition ==
  ASSUME Position, NEW p \in Targets, Select(p)
  PROVE  Position'
<1>1. Len(folders) \in Nat
  BY LenProperties DEF Position
<1>2. p \in Nat /\ (p = 0 \/ p < Len(folders))
  <2>1. CASE folders = <<>>
    BY <1>1, <2>1, EmptySeq DEF Targets, Position
  <2>2. CASE folders # <<>>
    <3>1. Len(folders) > 0
      BY <2>2, EmptySeq DEF Position
    <3> QED
      BY <1>1, <2>2, <3>1 DEF Targets, Position
  <2> QED
    BY <2>1, <2>2
<1>3. /\ EnsureOffset(p, offset, Len(folders)) \in Nat
      /\ EnsureOffset(p, offset, Len(folders)) <= p
      /\ p < EnsureOffset(p, offset, Len(folders)) + PageSize
  BY <1>1, <1>2, EnsureOffsetShows DEF Position
<1>4. /\ selected' = p /\ folders' = folders
      /\ offset' = EnsureOffset(p, offset, Len(folders))
  BY DEF Select
<1> QED
  BY <1>2, <1>3, <1>4 DEF Position, SelectionVisible

LEMMA PagePosition ==
  ASSUME Position, NextListPage \/ PrevListPage
  PROVE  Position'
<1>1. Len(folders) \in Nat /\ PageSize \in Nat \ {0}
  BY LenProperties, FolderTabAssumption DEF Position
<1>2. CASE NextListPage
  BY <1>1, <1>2 DEF NextListPage, ShowFrom, Position, SelectionVisible
<1>3. CASE PrevListPage
  BY <1>1, <1>3 DEF PrevListPage, ShowFrom, Position, SelectionVisible
<1> QED
  BY <1>2, <1>3

LEMMA RefreshPosition ==
  ASSUME Position, Rows, RefreshTab
  PROVE  Position'
<1> DEFINE keep == IF selected >= Len(List) THEN 0 ELSE selected
           from == IF keep = selected THEN offset ELSE 0
<1>1. List \in Seq(Item) /\ Len(List) \in Nat
  BY ListTyped, LenProperties
<1>2. folders' = List /\ selected' = keep /\ offset' = EnsureOffset(keep, from, Len(List))
  BY DEF RefreshTab
<1>3. keep \in Nat /\ from \in Nat /\ (keep = 0 \/ keep < Len(List))
  BY <1>1 DEF Position
<1> HIDE DEF keep, from
<1>4. /\ offset' \in Nat
      /\ offset' <= keep /\ keep < offset' + PageSize
  BY <1>1, <1>2, <1>3, EnsureOffsetShows
<1> QED
  BY <1>1, <1>2, <1>3, <1>4 DEF Position, SelectionVisible

----------------------------------------------------------------------------
(* Types, and the selection is on the page. *)

LEMMA PerformShape ==
  ASSUME Shape, Position, NEW t \in Threads, Perform(t)
  PROVE  Shape' /\ Position'
<1> DEFINE r == requests[t]
           rest == [requests EXCEPT ![t] = FollowUp(r)]
<1>1. r \in Requests /\ Formed(r) /\ r.op \in Changes
  BY DEF Shape, UnderWay, Perform
<1>2. UNCHANGED <<list, panel, onFolders, dialog, faults>>
  BY DEF Perform
<1>3. CASE /\ Change(r, rest)
           /\ listDoubt' = (listDoubt \/ (r.op \in ListOps /\ ListAnswered))
  <2>1. rest \in [Threads -> Requests] /\ \A s \in Threads : Formed(rest[s])
    BY LoadsTyped DEF Shape, UnderWay, FollowUp
  <2>2. panelDoubt \in BOOLEAN /\ Rows
    BY DEF Shape, Client
  <2> HIDE DEF r, rest
  <2>3. Rows'
    BY <1>1, <1>3, <2>2, ChangeKeepsRows
  <2>4. UnderWay' /\ panelDoubt' \in BOOLEAN
    BY <1>3, <2>1, <2>2, ChangeTyped
  <2>5. listDoubt' \in BOOLEAN
    BY <1>3, ListAnswered \in BOOLEAN DEF ListAnswered, Shape, Client
  <2> QED
    BY <1>2, <2>3, <2>4, <2>5 DEF Shape, Client, Position, SelectionVisible, list
<1>4. CASE Refused(r) /\ requests' = Done(t) /\ UNCHANGED <<tables, doubts>>
  <2>1. UnderWay'
    BY <1>4, DoneTyped DEF Shape, UnderWay, Formed
  <2> QED
    BY <1>2, <1>4, <2>1 DEF Shape, Rows, Client, Position, SelectionVisible, list, tables, doubts
<1> QED
  BY <1>3, <1>4 DEF Perform

LEMMA ReadShape ==
  ASSUME Shape, Position, NEW t \in Threads, ReadList(t) \/ ReadFeeds(t)
  PROVE  Shape' /\ Position'
<1>1. UNCHANGED <<tables, list, panel, onFolders, dialog, panelDoubt, faults>>
  BY DEF ReadList, ReadFeeds, doubts
<1>2. List \in Seq(Item)
  BY ListTyped DEF Shape
<1>3. ASSUME NEW f PROVE FeedsIn(members, f) \subseteq Feeds
  BY DEF FeedsIn, Shape, Rows
<1>4. UnderWay' /\ listDoubt' \in BOOLEAN
  <2>1. CASE ReadList(t)
    <3>1. requests' = [requests EXCEPT ![t] = [requests[t] EXCEPT !.answered = TRUE, !.list = List]]
      BY <2>1 DEF ReadList, Shape, UnderWay, Requests
    <3>2. /\ [requests[t] EXCEPT !.answered = TRUE, !.list = List] \in Requests
          /\ Formed([requests[t] EXCEPT !.answered = TRUE, !.list = List])
      BY <1>2, <2>1 DEF ReadList, Shape, UnderWay, Requests, Formed
    <3>3. listDoubt' \in BOOLEAN
      BY <2>1, ListAnswered \in BOOLEAN DEF ReadList, ListAnswered, Shape, Client
    <3> QED
      BY <3>1, <3>2, <3>3 DEF Shape, UnderWay, Formed
  <2>2. CASE ReadFeeds(t)
    <3> DEFINE x == FeedsIn(members, requests[t].folder)
               r == [requests[t] EXCEPT !.answered = TRUE, !.feeds = x]
    <3>1. requests' = [requests EXCEPT ![t] = r]
      BY <2>2 DEF ReadFeeds, Shape, UnderWay, Requests
    <3>2. x \subseteq Feeds
      BY <1>3
    <3> HIDE DEF x
    <3>3. r \in Requests /\ Formed(r)
      BY <2>2, <3>2 DEF ReadFeeds, Shape, UnderWay, Requests, Formed
    <3>4. listDoubt' \in BOOLEAN
      BY <2>2 DEF ReadFeeds, doubts, Shape, Client
    <3> QED
      BY <3>1, <3>3, <3>4 DEF Shape, UnderWay, Formed
  <2> QED
    BY <2>1, <2>2
<1> QED
  BY <1>1, <1>4 DEF Shape, Rows, Client, Position, SelectionVisible, list, tables

LEMMA FaultShape ==
  ASSUME Shape, Position, NEW t \in Threads, Fail(t)
  PROVE  Shape' /\ Position'
<1>1. /\ UNCHANGED <<tables, list, panel, onFolders, dialog>>
      /\ requests' = Done(t)
  BY DEF Fail
<1>2. UnderWay'
  BY <1>1, DoneTyped DEF Shape, UnderWay, Formed
<1>3. listDoubt' \in BOOLEAN /\ panelDoubt' \in BOOLEAN /\ faults' \in 0..MaxFaults
  BY FolderTabAssumption DEF Fail, Shape, Client
<1> QED
  BY <1>1, <1>2, <1>3 DEF Shape, Rows, Client, Position, SelectionVisible, list, tables

LEMMA ElsewhereShape ==
  ASSUME Shape, Position, NEW op \in Changes, NEW f \in 1..created, NEW n \in Names,
         NEW x \in Feeds, ChangeElsewhere(Request(op, f, n, x))
  PROVE  Shape' /\ Position'
<1> DEFINE r == Request(op, f, n, x)
<1>1. op \in Ops /\ f \in Nat
  BY DEF Ops, Shape, Rows
<1>2. r \in Requests /\ Formed(r)
  BY <1>1, RequestTyped
<1>3. r.op \in Changes
  BY DEF Request
<1> HIDE DEF r
<1>4. /\ Change(r, requests) /\ UNCHANGED <<list, panel, onFolders, dialog>>
      /\ listDoubt' = (listDoubt \/ names' # names)
      /\ faults < MaxFaults /\ faults' = faults + 1
  BY DEF ChangeElsewhere, r
<1>5. Rows'
  BY <1>2, <1>3, <1>4, ChangeKeepsRows DEF Shape
<1>6. UnderWay' /\ panelDoubt' \in BOOLEAN
  BY <1>4, ChangeTyped DEF Shape, UnderWay, Client
<1>7. listDoubt' \in BOOLEAN /\ faults' \in 0..MaxFaults
  BY <1>4, FolderTabAssumption DEF Shape, Client
<1> QED
  BY <1>4, <1>5, <1>6, <1>7 DEF Shape, Client, Position, SelectionVisible, list

LEMMA ApplyShape ==
  ASSUME Shape, Position, NEW t \in Threads, ApplyList(t) \/ ApplyFeeds(t)
  PROVE  Shape' /\ Position'
<1>1. Done(t) \in [Threads -> Requests] /\ \A s \in Threads : Formed(Done(t)[s])
  BY DoneTyped DEF Shape
<1>2. requests[t] \in Requests
  BY DEF Shape, UnderWay
<1>3. CASE ApplyList(t)
  <2>1. /\ ReplaceList(requests[t].list) /\ AskPanel(Done(t))
        /\ UNCHANGED <<tables, onFolders, dialog, listDoubt, faults>>
    BY <1>3 DEF ApplyList
  <2>2. requests[t].list \in Seq(Item)
    BY <1>2 DEF Requests
  <2>3. Position'
    BY <2>1, <2>2, ReplaceListPosition
  <2>4. UnderWay' /\ panel' \subseteq Feeds /\ panelDoubt' \in BOOLEAN
    BY <1>1, <2>1, <2>3, AskTyped DEF Position, Shape
  <2> QED
    BY <2>1, <2>3, <2>4 DEF Shape, Rows, Client, Position, tables
<1>4. CASE ApplyFeeds(t)
  <2>1. /\ requests' = Done(t)
        /\ UNCHANGED <<tables, list, onFolders, dialog, listDoubt, faults>>
    BY <1>4 DEF ApplyFeeds
  <2>2. requests[t].feeds \subseteq Feeds /\ requests[t].old \in BOOLEAN
    BY <1>2 DEF Requests
  <2>3. panel' \subseteq Feeds /\ panelDoubt' \in BOOLEAN
    BY <1>4, <2>2 DEF ApplyFeeds, Shape, Client
  <2>4. UnderWay'
    BY <1>1, <2>1 DEF UnderWay, Formed
  <2> QED
    BY <2>1, <2>3, <2>4 DEF Shape, Rows, Client, Position, SelectionVisible, tables, list
<1> QED
  BY <1>3, <1>4

\* The keys that do not send a request, or ask for the feeds.
LEMMA MoveShape ==
  ASSUME Shape, Position,
         \/ SwitchTab \/ NextListPage \/ PrevListPage \/ RefreshTab
         \/ \E p \in Targets : Select(p)
  PROVE  Shape' /\ Position'
<1>0. requests \in [Threads -> Requests] /\ \A t \in Threads : Formed(requests[t])
  BY DEF Shape, UnderWay
<1>1. CASE SwitchTab
  <2>1. UNCHANGED <<tables, list, dialog, listDoubt, faults>> /\ onFolders' \in BOOLEAN
    BY <1>1 DEF SwitchTab
  <2>2. folders' \in Seq(Item) /\ selected' \in Nat
    BY <2>1 DEF list, Position
  <2>3. CASE onFolders'
    <3>1. AskPanel(requests)
      BY <1>1, <2>3 DEF SwitchTab
    <3>2. UnderWay' /\ panel' \subseteq Feeds /\ panelDoubt' \in BOOLEAN
      BY <1>0, <2>2, <3>1, AskTyped DEF Shape
    <3> QED
      BY <2>1, <3>2 DEF Shape, Rows, Client, Position, SelectionVisible, tables, list
  <2>4. CASE ~onFolders'
    <3>1. UNCHANGED <<requests, panel, panelDoubt>>
      BY <1>1, <2>4 DEF SwitchTab
    <3> QED
      BY <2>1, <3>1 DEF Shape, Rows, Client, UnderWay, Formed, Position, SelectionVisible, tables, list
  <2> QED
    BY <2>1, <2>3, <2>4
<1>2. CASE NextListPage \/ PrevListPage
  <2>1. UNCHANGED <<tables, onFolders, dialog, listDoubt, faults, panel, requests>>
    BY <1>2 DEF NextListPage, PrevListPage, ShowFrom, WithoutAsking
  <2>2. panelDoubt' \in BOOLEAN
    BY <1>2 DEF NextListPage, PrevListPage, ShowFrom, WithoutAsking, Shape, Client
  <2>3. Position'
    BY <1>2, PagePosition
  <2> QED
    BY <2>1, <2>2, <2>3 DEF Shape, Rows, Client, UnderWay, Formed, Position, tables
<1>3. CASE RefreshTab
  <2>1. UNCHANGED <<tables, onFolders, dialog, faults, panel, requests>>
    BY <1>3 DEF RefreshTab, WithoutAsking
  <2>2. panelDoubt' \in BOOLEAN /\ listDoubt' \in BOOLEAN
    BY <1>3, ListAnswered \in BOOLEAN DEF RefreshTab, WithoutAsking, Shape, Client, ListAnswered
  <2>3. Position'
    BY <1>3, RefreshPosition DEF Shape
  <2> QED
    BY <2>1, <2>2, <2>3 DEF Shape, Rows, Client, UnderWay, Formed, Position, tables
<1>4. ASSUME NEW p \in Targets, Select(p)
      PROVE  Shape' /\ Position'
  <2>1. AskPanel(requests) /\ UNCHANGED <<tables, onFolders, dialog, listDoubt, faults>>
    BY <1>4 DEF Select
  <2>2. Position'
    BY <1>4, SelectPosition
  <2>3. UnderWay' /\ panel' \subseteq Feeds /\ panelDoubt' \in BOOLEAN
    BY <1>0, <2>1, <2>2, AskTyped DEF Shape, Position
  <2> QED
    BY <2>1, <2>2, <2>3 DEF Shape, Rows, Client, Position, tables
<1> QED
  BY <1>1, <1>2, <1>3, <1>4

LEMMA SelectedFolder ==
  ASSUME Position, Selected # None
  PROVE  folders[selected + 1] \in Item /\ Selected = folders[selected + 1].id
<1>1. selected < Len(folders)
  BY DEF Selected
<1>2. folders[selected + 1] \in Item
  BY <1>1, ItemAt DEF Position
<1> QED
  BY <1>1, <1>2 DEF Selected

LEMMA OpenShape ==
  ASSUME Shape, Position,
         \/ OpenFolderCreateInput \/ OpenFolderRenameInput
         \/ \E op \in {"assign", "unassign"}, x \in Feeds : OpenFolderMenu(op, x)
  PROVE  Shape' /\ Position'
<1> SUFFICES ASSUME NEW op \in Changes \ {"delete"}, NEW x \in Feeds \cup {None},
                    NEW shown \in Seq(Item), Open(op, x, shown),
                    op = "rename" => shown[1].id \in Nat,
                    op \in {"assign", "unassign"} => x \in Feeds
             PROVE  Shape' /\ Position'
  <2>1. CASE OpenFolderCreateInput
    <3>1. <<>> \in Seq(Item)
      BY EmptySeq
    <3> QED
      BY <2>1, <3>1 DEF OpenFolderCreateInput, Changes
  <2>2. CASE OpenFolderRenameInput
    <3>1. folders[selected + 1] \in Item
      BY <2>2, SelectedFolder DEF OpenFolderRenameInput
    <3>2. <<folders[selected + 1]>> \in Seq(Item) /\ folders[selected + 1].id \in Nat
      BY <3>1 DEF Item
    <3>3. Open("rename", None, <<folders[selected + 1]>>)
      BY <2>2 DEF OpenFolderRenameInput
    <3>4. "rename" \in Changes \ {"delete"} /\ <<folders[selected + 1]>>[1].id \in Nat
      BY <3>2 DEF Changes
    <3> QED
      BY <3>2, <3>3, <3>4
  <2>3. ASSUME NEW op \in {"assign", "unassign"}, NEW x \in Feeds, OpenFolderMenu(op, x)
        PROVE  Shape' /\ Position'
    <3>1. Open(op, x, folders) /\ folders \in Seq(Item) /\ op \in Changes \ {"delete"} /\ op # "rename"
      BY <2>3 DEF OpenFolderMenu, Position, Changes
    <3> QED
      BY <3>1
  <2> QED
    BY <2>1, <2>2, <2>3
<1>1. /\ dialog' = [op |-> op, feed |-> x, shown |-> shown, quiet |-> ~ListUnderWay]
      /\ UNCHANGED <<tables, list, panel, onFolders, requests, doubts, faults>>
  BY DEF Open
<1>2. (~ListUnderWay) \in BOOLEAN
  <2>1. CASE ListUnderWay
    BY <2>1
  <2>2. CASE ~ListUnderWay
    BY <2>2
  <2> QED
    BY <2>1, <2>2
<1>3. dialog' \in Dialogs
  BY <1>1, <1>2 DEF Dialogs
<1> QED
  BY <1>1, <1>3
  DEF Shape, Rows, Client, UnderWay, Formed, Position, SelectionVisible, tables, list, doubts

\* The keys that send a request for a change, or none.
LEMMA AskForShape ==
  ASSUME Shape, Position,
         \/ DeleteFolder \/ Escape
         \/ \E n \in Names : EnterName(n)
         \/ \E p \in 1..MaxFolders : ChooseFolder(p)
  PROVE  Shape' /\ Position'
<1> SUFFICES ASSUME /\ UNCHANGED <<tables, list, panel, onFolders, doubts, faults>>
                    /\ UNCHANGED dialog \/ dialog' = None,
                    UnderWay'
             PROVE  Shape' /\ Position'
  <2>0. requests \in [Threads -> Requests] /\ \A t \in Threads : Formed(requests[t])
    BY DEF Shape, UnderWay
  <2>1. CASE DeleteFolder
    <3>1. Send(Request("delete", Selected, None, None), requests) /\ Selected # None
      BY <2>1 DEF DeleteFolder
    <3>2. Selected \in Nat
      BY <3>1, SelectedFolder DEF Item
    <3>3. UnderWay'
      BY <2>0, <3>1, <3>2, SendTyped, RequestTyped DEF Ops, Changes
    <3> QED
      BY <2>1, <3>3 DEF DeleteFolder
  <2>2. CASE Escape
    BY <2>2 DEF Escape, Close, Shape, UnderWay, Formed
  <2>3. ASSUME NEW n \in Names, EnterName(n)
        PROVE  Shape' /\ Position'
    <3>1. UnderWay'
      <4>1. CASE dialog.op = "create"
        <5>1. Send(Request("create", None, n, None), requests)
          BY <2>3, <4>1 DEF EnterName
        <5> QED
          BY <2>0, <5>1, SendTyped, RequestTyped DEF Ops, Changes
      <4>2. CASE dialog.op # "create"
        <5>1. Send(Request("rename", dialog.shown[1].id, n, None), requests)
          BY <2>3, <4>2 DEF EnterName
        <5>2. dialog.shown[1].id \in Nat
          BY <2>3, <4>2 DEF EnterName, Shape, Client
        <5> QED
          BY <2>0, <5>1, <5>2, SendTyped, RequestTyped DEF Ops, Changes
      <4> QED
        BY <4>1, <4>2
    <3> QED
      BY <2>3, <3>1 DEF EnterName, Close
  <2>4. ASSUME NEW p \in 1..MaxFolders, ChooseFolder(p)
        PROVE  Shape' /\ Position'
    <3>1. UnderWay'
      <4>1. CASE p \in DOMAIN folders
        <5>1. Send(Request(dialog.op, folders[p].id, None, dialog.feed), requests)
          BY <2>4, <4>1 DEF ChooseFolder
        <5>2. p \in 1..Len(folders)
          BY <4>1, LenProperties DEF Position
        <5>3. folders[p] \in Item
          BY <5>2, ElementOfSeq DEF Position
        <5>4. dialog.op \in {"assign", "unassign"} /\ dialog.feed \in Feeds
          BY <2>4 DEF ChooseFolder, Shape, Client
        <5> QED
          BY <2>0, <5>1, <5>3, <5>4, SendTyped, RequestTyped DEF Ops, Changes, Item
      <4>2. CASE p \notin DOMAIN folders
        BY <2>4, <4>2 DEF ChooseFolder, Shape, UnderWay, Formed
      <4> QED
        BY <4>1, <4>2
    <3> QED
      BY <2>4, <3>1 DEF ChooseFolder, Close
  <2> QED
    BY <2>1, <2>2, <2>3, <2>4
<1> QED
  BY DEF Shape, Rows, Client, Position, SelectionVisible, tables, list, doubts

LEMMA StepShape ==
  ASSUME Shape, Position, [Next]_vars
  PROVE  Shape' /\ Position'
<1>1. CASE UNCHANGED vars
  BY <1>1 DEF vars, tables, list, doubts, Shape, Rows, Client, UnderWay, Formed, Position, SelectionVisible
<1>2. CASE Next
  BY <1>2, PerformShape, ReadShape, FaultShape, ElsewhereShape, ApplyShape, MoveShape,
     OpenShape, AskForShape DEF Next
<1> QED
  BY <1>1, <1>2

LEMMA InitShape ==
  ASSUME Init
  PROVE  Shape /\ Position
<1>1. folders = <<>> /\ <<>> \in Seq(Item)
  BY EmptySeq DEF Init
<1>2. Rows
  BY FolderTabAssumption DEF Init, Rows
<1>3. UnderWay
  <2>1. PICK t \in Threads : requests = [s \in Threads |-> IF s = t THEN Load ELSE Idle]
    BY DEF Init
  <2> QED
    BY <2>1, LoadsTyped DEF UnderWay, Formed
<1>4. Position
  BY <1>1, FolderTabAssumption DEF Init, Position, SelectionVisible
<1>5. Client
  <2>1. faults \in 0..MaxFaults
    BY FolderTabAssumption DEF Init
  <2> QED
    BY <1>1, <2>1 DEF Init, Client
<1> QED
  BY <1>2, <1>3, <1>4, <1>5 DEF Shape

\* Whatever the order of the answers, the selected folder is on the page
\* (util.rs ensure_offset, pagination.rs, events.rs RefreshFolders).
THEOREM SelectionOnPage == Spec => []SelectionVisible
<1>1. Init => Shape /\ Position
  BY InitShape
<1>2. Shape /\ Position /\ [Next]_vars => (Shape /\ Position)'
  BY StepShape
<1>3. Shape /\ Position => SelectionVisible
  BY DEF Position
<1> QED
  BY <1>1, <1>2, <1>3, PTL DEF Spec

----------------------------------------------------------------------------
(* The list agrees. *)

\* Without doubt, an answer that is under way is what the server has, and so is the
\* list, unless one is being asked for.
ListKept ==
  ~listDoubt =>
    /\ \A t \in Threads : requests[t].op = "load" /\ requests[t].answered => requests[t].list = List
    /\ (\A t \in Threads : requests[t].op # "load") => folders = List

\* A thread that asks for the list goes on as it was, and none begins to.
SameLoads(before) ==
  \A t \in Threads :
    /\ before[t].op = "load" \/ requests'[t].op = "load" => requests'[t].op = before[t].op
    /\ before[t].op = "load" =>
         requests'[t].answered = before[t].answered /\ requests'[t].list = before[t].list

LEMMA SameList ==
  ASSUME names' = names
  PROVE  List' = List
  BY DEF List

LEMMA ListKeptAlong ==
  ASSUME ListKept, names' = names, folders' = folders, listDoubt => listDoubt',
         SameLoads(requests)
  PROVE  ListKept'
  BY SameList DEF ListKept, SameLoads

LEMMA SendSameLoads ==
  ASSUME NEW before \in [Threads -> Requests], NEW r, r.op # "load", Send(r, before)
  PROVE  SameLoads(before)
<1>1. PICK s \in Threads : before[s] = Idle /\ requests' = [before EXCEPT ![s] = r]
  BY DEF Send
<1> QED
  BY <1>1, LoadsTyped DEF SameLoads

LEMMA AskSameLoads ==
  ASSUME NEW before \in [Threads -> Requests], AskPanel(before)
  PROVE  SameLoads(before)
<1>1. CASE Selected' = None
  BY <1>1 DEF AskPanel, SameLoads
<1>2. CASE Selected' # None
  <2>1. Send(LoadFeeds(Selected'), before)
    BY <1>2 DEF AskPanel
  <2>2. LoadFeeds(Selected').op # "load"
    BY DEF LoadFeeds, Request
  <2> QED
    BY <2>1, <2>2, SendSameLoads
<1> QED
  BY <1>1, <1>2

LEMMA PerformListKept ==
  ASSUME Shape, ListKept, NEW t \in Threads, Perform(t)
  PROVE  ListKept'
<1> DEFINE r == requests[t]
           rest == [requests EXCEPT ![t] = FollowUp(r)]
<1>1. folders' = folders /\ r.op \in Changes /\ r \in Requests /\ Formed(r)
  BY DEF Perform, list, Shape, UnderWay
<1>2. requests \in [Threads -> Requests] /\ listDoubt \in BOOLEAN /\ Rows
  BY DEF Shape, UnderWay, Client
<1>3. CASE /\ Change(r, rest)
           /\ listDoubt' = (listDoubt \/ (r.op \in ListOps /\ ListAnswered))
  <2>1. rest \in [Threads -> Requests] /\ rest[t] = FollowUp(r)
        /\ \A s \in Threads \ {t} : rest[s] = requests[s]
    BY <1>2, LoadsTyped DEF FollowUp
  <2>2. CASE r.op \in ListOps
    <3>1. rest[t].op = "load" /\ ~rest[t].answered
      BY <2>1, <2>2, LoadsTyped DEF FollowUp
    <3> HIDE DEF rest
    <3>2. requests'[t].op = "load" /\ ~requests'[t].answered
      BY <1>3, <2>1, <3>1, ChangeMarks
    <3>3. CASE ListAnswered
      BY <1>3, <2>2, <3>3 DEF ListKept
    <3>4. CASE ~ListAnswered
      <4>1. ASSUME NEW s \in Threads \ {t} PROVE ~(requests'[s].op = "load" /\ requests'[s].answered)
        BY <1>3, <2>1, <3>4, <4>1, ChangeMarks DEF ListAnswered
      <4> QED
        BY <3>2, <4>1 DEF ListKept
    <3> QED
      BY <3>3, <3>4
  <2>3. CASE r.op \notin ListOps
    <3>1. rest[t].op # "load" /\ r.op # "load"
      BY <1>1, <2>1, <2>3, LoadsTyped DEF FollowUp, ListOps
    <3> HIDE DEF rest, r
    <3>2. names' = names
      BY <1>1, <1>2, <1>3, <2>3, ChangeKeepsRows
    <3>3. SameLoads(requests)
      <4>1. ASSUME NEW s \in Threads
            PROVE  requests'[s].op = rest[s].op /\ requests'[s].answered = rest[s].answered
                   /\ requests'[s].list = rest[s].list
        BY <1>3, <2>1, ChangeMarks
      <4> QED
        BY <2>1, <3>1, <4>1 DEF SameLoads, r
    <3>4. listDoubt => listDoubt'
      BY <1>3
    <3> QED
      BY <1>1, <3>2, <3>3, <3>4, ListKeptAlong
  <2> QED
    BY <2>2, <2>3
<1>4. CASE Refused(r) /\ requests' = Done(t) /\ UNCHANGED <<tables, doubts>>
  <2>1. SameLoads(requests)
    BY <1>1, <1>2, <1>4, LoadsTyped DEF SameLoads, Done, Changes
  <2> QED
    BY <1>1, <1>4, <2>1, ListKeptAlong DEF tables, doubts
<1> QED
  BY <1>3, <1>4 DEF Perform

LEMMA OthersListKept ==
  ASSUME Shape, ListKept, NEW t \in Threads,
         ReadList(t) \/ ReadFeeds(t) \/ Fail(t) \/ ApplyList(t) \/ ApplyFeeds(t)
  PROVE  ListKept'
<1>0. requests \in [Threads -> Requests] /\ listDoubt \in BOOLEAN
  BY DEF Shape, UnderWay, Client
<1>1. CASE ReadList(t)
  <2>1. /\ requests' = [requests EXCEPT ![t].answered = TRUE, ![t].list = List]
        /\ names' = names /\ requests[t].op = "load"
        /\ listDoubt' = (ListAnswered /\ listDoubt)
    BY <1>1 DEF ReadList, tables
  <2>2. requests'[t].op = "load" /\ requests'[t].list = List
    BY <1>0, <2>1 DEF Requests
  <2>3. \A s \in Threads \ {t} : requests'[s] = requests[s]
    BY <1>0, <2>1
  <2>4. CASE ListAnswered
    BY <2>1, <2>2, <2>3, <2>4, SameList DEF ListKept
  <2>5. CASE ~ListAnswered
    <3>1. \A s \in Threads \ {t} : ~(requests'[s].op = "load" /\ requests'[s].answered)
      BY <2>3, <2>5 DEF ListAnswered
    <3> QED
      BY <2>1, <2>2, <3>1, SameList DEF ListKept
  <2> QED
    BY <2>4, <2>5
<1>2. CASE ReadFeeds(t)
  <2>1. /\ requests' = [requests EXCEPT ![t].answered = TRUE,
                                        ![t].feeds = FeedsIn(members, requests[t].folder)]
        /\ requests[t].op = "feeds" /\ UNCHANGED <<names, folders, listDoubt>>
    BY <1>2 DEF ReadFeeds, tables, list, doubts
  <2>2. SameLoads(requests)
    BY <1>0, <2>1 DEF SameLoads, Requests
  <2> QED
    BY <2>1, <2>2, ListKeptAlong
<1>3. CASE Fail(t)
  <2>1. /\ requests' = Done(t) /\ UNCHANGED <<names, folders>>
        /\ listDoubt' = (listDoubt \/ requests[t].op = "load")
    BY <1>3 DEF Fail, tables, list
  <2>2. CASE requests[t].op = "load"
    BY <2>1, <2>2 DEF ListKept
  <2>3. CASE requests[t].op # "load"
    <3>1. SameLoads(requests)
      BY <1>0, <2>1, <2>3, LoadsTyped DEF SameLoads, Done
    <3> QED
      BY <2>1, <3>1, ListKeptAlong
  <2> QED
    BY <2>2, <2>3
<1>4. CASE ApplyList(t)
  <2>1. /\ requests[t].op = "load" /\ requests[t].answered
        /\ folders' = requests[t].list /\ AskPanel(Done(t)) /\ UNCHANGED <<names, listDoubt>>
    BY <1>4 DEF ApplyList, ReplaceList, tables
  <2>2. Done(t) \in [Threads -> Requests]
    BY DoneTyped DEF Shape
  <2>3. SameLoads(Done(t))
    BY <2>1, <2>2, AskSameLoads
  <2>4. \A s \in Threads : Done(t)[s] = requests[s] \/ Done(t)[s].op # "load"
    BY <1>0, LoadsTyped DEF Done
  <2> QED
    BY <2>1, <2>3, <2>4, SameList DEF ListKept, SameLoads
<1>5. CASE ApplyFeeds(t)
  <2>1. /\ requests' = Done(t) /\ UNCHANGED <<names, folders, listDoubt>>
        /\ requests[t].op = "feeds"
    BY <1>5 DEF ApplyFeeds, tables, list
  <2>2. SameLoads(requests)
    BY <1>0, <2>1, LoadsTyped DEF SameLoads, Done
  <2> QED
    BY <2>1, <2>2, ListKeptAlong
<1> QED
  BY <1>1, <1>2, <1>3, <1>4, <1>5

LEMMA ElsewhereListKept ==
  ASSUME Shape, ListKept, NEW r, ChangeElsewhere(r)
  PROVE  ListKept'
<1>1. /\ Change(r, requests) /\ folders' = folders
      /\ listDoubt' = (listDoubt \/ names' # names)
  BY DEF ChangeElsewhere, list
<1>2. requests \in [Threads -> Requests]
  BY DEF Shape, UnderWay
<1>3. SameLoads(requests)
  <2>1. ASSUME NEW s \in Threads
        PROVE  requests'[s].op = requests[s].op /\ requests'[s].answered = requests[s].answered
               /\ requests'[s].list = requests[s].list
    BY <1>1, <1>2, ChangeMarks
  <2> QED
    BY <2>1 DEF SameLoads
<1>4. CASE names' # names
  BY <1>1, <1>4 DEF ListKept
<1>5. CASE names' = names
  BY <1>1, <1>3, <1>5, ListKeptAlong
<1> QED
  BY <1>4, <1>5

LEMMA KeysListKept ==
  ASSUME Shape, ListKept,
         \/ SwitchTab \/ NextListPage \/ PrevListPage \/ RefreshTab \/ DeleteFolder
         \/ \E p \in Targets : Select(p)
         \/ OpenFolderCreateInput \/ OpenFolderRenameInput
         \/ \E op \in {"assign", "unassign"}, x \in Feeds : OpenFolderMenu(op, x)
         \/ Escape
         \/ \E n \in Names : EnterName(n)
         \/ \E p \in 1..MaxFolders : ChooseFolder(p)
  PROVE  ListKept'
<1>0. requests \in [Threads -> Requests] /\ listDoubt \in BOOLEAN
  BY DEF Shape, UnderWay, Client
<1>1. CASE RefreshTab
  <2>1. /\ UNCHANGED <<names, requests>> /\ folders' = List
        /\ listDoubt' = (ListAnswered /\ listDoubt)
    BY <1>1 DEF RefreshTab, WithoutAsking, tables
  <2> QED
    BY <2>1, SameList DEF ListKept, ListAnswered
<1>2. CASE ~RefreshTab
  <2>1. UNCHANGED <<names, folders, listDoubt>>
    BY <1>2 DEF SwitchTab, NextListPage, PrevListPage, DeleteFolder, Select, ShowFrom,
       OpenFolderCreateInput, OpenFolderRenameInput, OpenFolderMenu, Open,
       Escape, EnterName, ChooseFolder, Close, tables, list, doubts
  <2>2. SameLoads(requests)
    <3>1. CASE requests' = requests
      BY <3>1 DEF SameLoads
    <3>2. CASE AskPanel(requests)
      BY <1>0, <3>2, AskSameLoads
    <3>3. ASSUME NEW op \in Changes, NEW f, NEW n, NEW x, Send(Request(op, f, n, x), requests)
          PROVE  SameLoads(requests)
      <4>1. Request(op, f, n, x).op # "load"
        BY DEF Request, Changes
      <4> QED
        BY <1>0, <3>3, <4>1, SendSameLoads
    <3>4. CASE SwitchTab \/ NextListPage \/ PrevListPage \/ (\E p \in Targets : Select(p))
      BY <3>1, <3>2, <3>4 DEF SwitchTab, NextListPage, PrevListPage, ShowFrom, WithoutAsking, Select
    <3>5. CASE \/ OpenFolderCreateInput \/ OpenFolderRenameInput \/ Escape
               \/ \E op \in {"assign", "unassign"}, x \in Feeds : OpenFolderMenu(op, x)
      BY <3>1, <3>5 DEF OpenFolderCreateInput, OpenFolderRenameInput, OpenFolderMenu, Open, Escape
    <3>6. CASE DeleteFolder
      BY <3>3, <3>6 DEF DeleteFolder, Changes
    <3>7. CASE \E n \in Names : EnterName(n)
      BY <3>3, <3>7 DEF EnterName, Changes
    <3>8. CASE \E p \in 1..MaxFolders : ChooseFolder(p)
      BY <3>1, <3>3, <3>8 DEF ChooseFolder, Changes
    <3> QED
      BY <1>2, <3>4, <3>5, <3>6, <3>7, <3>8
  <2> QED
    BY <2>1, <2>2, ListKeptAlong
<1> QED
  BY <1>1, <1>2

LEMMA StepListKept ==
  ASSUME Shape, ListKept, [Next]_vars
  PROVE  ListKept'
<1>1. CASE UNCHANGED vars
  BY <1>1, SameList DEF vars, tables, list, doubts, ListKept
<1>2. CASE Next
  BY <1>2, PerformListKept, OthersListKept, ElsewhereListKept, KeysListKept DEF Next
<1> QED
  BY <1>1, <1>2

\* Changes of the list end with the server's list on the screen, whichever were
\* refused or overlapped (queue/folders.rs, the GET after each change).
THEOREM ListAgrees == Spec => []FolderListAgrees
<1>1. Init => Shape /\ Position /\ ListKept
  <2>1. ASSUME Init PROVE ListKept
    <3>1. \E t \in Threads : requests[t] = Load
      BY <2>1 DEF Init
    <3>2. \A t \in Threads : requests[t] = Load \/ requests[t] = Idle
      BY <2>1 DEF Init
    <3> QED
      BY <3>1, <3>2, LoadsTyped DEF ListKept
  <2> QED
    BY <2>1, InitShape
<1>2. Shape /\ Position /\ ListKept /\ [Next]_vars => (Shape /\ Position /\ ListKept)'
  BY StepShape, StepListKept
<1>3. ListKept => FolderListAgrees
  BY DEF ListKept, FolderListAgrees, ListUnderWay, ListOps
<1> QED
  BY <1>1, <1>2, <1>3, PTL DEF Spec

----------------------------------------------------------------------------
(* The panel agrees. *)

\* An answer that is under way and not marked is what the server has; so is the
\* panel, without doubt, unless the feeds of the selected folder are being asked for.
PanelKept ==
  /\ \A t \in Threads :
       requests[t].op = "feeds" /\ requests[t].answered /\ ~requests[t].old =>
         requests[t].feeds = FeedsIn(members, requests[t].folder)
  /\ PanelAgrees

SameFeeds ==
  \A t \in Threads :
    requests[t].op = "feeds" \/ requests'[t].op = "feeds" => requests'[t] = requests[t]

LEMMA SameSelected ==
  ASSUME UNCHANGED list
  PROVE  Selected' = Selected
  BY DEF list, Selected

LEMMA PanelKeptAlong ==
  ASSUME PanelKept, members' = members, Selected' = Selected, panel' = panel,
         panelDoubt => panelDoubt', SameFeeds
  PROVE  PanelKept'
  BY DEF PanelKept, PanelAgrees, SameFeeds

LEMMA NoFeedsOfNone ==
  ASSUME Rows
  PROVE  FeedsIn(members, None) = {}
<1>1. \A row \in members : row[1] \in Nat
  BY DEF Rows
<1> QED
  BY <1>1, FolderTabAssumption DEF FeedsIn

\* Who asks for the feeds of the folder that is selected then need not know them.
LEMMA AskPanelKept ==
  ASSUME Rows, PanelKept, members' = members,
         NEW before \in [Threads -> Requests],
         \A t \in Threads : before[t].op = "feeds" => before[t] = requests[t],
         AskPanel(before)
  PROVE  PanelKept'
<1>1. CASE Selected' = None
  <2>1. requests' = before /\ panel' = {}
    BY <1>1 DEF AskPanel
  <2>2. FeedsIn(members', Selected') = {}
    BY <1>1, NoFeedsOfNone
  <2> QED
    BY <2>1, <2>2 DEF PanelKept, PanelAgrees
<1>2. CASE Selected' # None
  <2>1. Send(LoadFeeds(Selected'), before)
    BY <1>2 DEF AskPanel
  <2>2. PICK s \in Threads : requests' = [before EXCEPT ![s] = LoadFeeds(Selected')]
    BY <2>1 DEF Send
  <2>3. /\ requests'[s].op = "feeds" /\ requests'[s].folder = Selected'
        /\ requests'[s].answered = FALSE
    BY <2>2 DEF LoadFeeds, Request
  <2>4. \A t \in Threads \ {s} : requests'[t] = before[t]
    BY <2>2
  <2>5. ASSUME NEW t \in Threads,
               requests'[t].op = "feeds", requests'[t].answered, ~requests'[t].old
        PROVE  requests'[t].feeds = FeedsIn(members', requests'[t].folder)
    <3>1. requests'[t] = requests[t]
      BY <2>3, <2>4, <2>5
    <3> QED
      BY <2>5, <3>1 DEF PanelKept
  <2> QED
    BY <2>3, <2>5 DEF PanelKept, PanelAgrees
<1> QED
  BY <1>1, <1>2

LEMMA WithoutAskingPanelKept ==
  ASSUME PanelKept, members' = members, WithoutAsking
  PROVE  PanelKept'
  BY DEF PanelKept, PanelAgrees, WithoutAsking

LEMMA ChangePanelKept ==
  ASSUME PanelKept, NEW r, NEW rest \in [Threads -> Requests], Change(r, rest),
         \A t \in Threads :
           requests[t].op = "feeds" \/ rest[t].op = "feeds" => rest[t] = requests[t],
         UNCHANGED <<list, panel>>
  PROVE  PanelKept'
<1>1. Selected' = Selected
  BY SameSelected
<1>2. ~panelDoubt' => ~panelDoubt /\ FeedsIn(members', Selected) = FeedsIn(members, Selected)
  BY DEF Change
<1>3. ASSUME NEW t \in Threads,
             requests'[t].op = "feeds", requests'[t].answered, ~requests'[t].old
      PROVE  requests'[t].feeds = FeedsIn(members', requests'[t].folder)
  <2>1. /\ rest[t].op = "feeds" /\ rest[t].answered /\ ~rest[t].old
        /\ requests'[t].feeds = rest[t].feeds /\ requests'[t].folder = rest[t].folder
        /\ FeedsIn(members', rest[t].folder) = FeedsIn(members, rest[t].folder)
    BY <1>3, ChangeMarks
  <2> QED
    BY <2>1 DEF PanelKept
<1>4. ASSUME NEW t \in Threads, requests[t].op = "feeds"
      PROVE  requests'[t].op = "feeds" /\ requests'[t].folder = requests[t].folder
  BY <1>4, ChangeMarks
<1> QED
  BY <1>1, <1>2, <1>3, <1>4 DEF PanelKept, PanelAgrees

LEMMA ThreadsPanelKept ==
  ASSUME Shape, PanelKept, NEW t \in Threads,
         \/ Perform(t) \/ ReadList(t) \/ ReadFeeds(t) \/ Fail(t)
         \/ ApplyList(t) \/ ApplyFeeds(t)
  PROVE  PanelKept'
<1>0. requests \in [Threads -> Requests] /\ Rows /\ panelDoubt \in BOOLEAN
  BY DEF Shape, UnderWay, Client
<1>1. CASE Perform(t)
  <2> DEFINE r == requests[t]
             rest == [requests EXCEPT ![t] = FollowUp(r)]
  <2>1. r.op \in Changes /\ UNCHANGED <<list, panel>>
    BY <1>1 DEF Perform
  <2>2. r.op # "feeds" /\ FollowUp(r).op # "feeds" /\ FollowUp(r) \in Requests
    BY <2>1, LoadsTyped DEF Changes, FollowUp
  <2>3. CASE Change(r, rest)
    <3>1. rest \in [Threads -> Requests]
      BY <1>0, <2>2
    <3>2. \A s \in Threads : requests[s].op = "feeds" \/ rest[s].op = "feeds" => rest[s] = requests[s]
      BY <1>0, <2>2
    <3> HIDE DEF rest, r
    <3> QED
      BY <2>1, <2>3, <3>1, <3>2, ChangePanelKept
  <2>4. CASE requests' = Done(t) /\ UNCHANGED <<tables, doubts>>
    <3>1. SameFeeds
      BY <1>0, <2>2, <2>4, LoadsTyped DEF SameFeeds, Done
    <3> QED
      BY <2>1, <2>4, <3>1, SameSelected, PanelKeptAlong DEF tables, doubts
  <2> QED
    BY <1>1, <2>3, <2>4 DEF Perform
<1>2. CASE ReadList(t)
  <2>1. /\ requests' = [requests EXCEPT ![t].answered = TRUE, ![t].list = List]
        /\ requests[t].op = "load" /\ UNCHANGED <<members, list, panel, panelDoubt>>
    BY <1>2 DEF ReadList, tables
  <2>2. SameFeeds
    BY <1>0, <2>1 DEF SameFeeds, Requests
  <2> QED
    BY <2>1, <2>2, SameSelected, PanelKeptAlong
<1>3. CASE ReadFeeds(t)
  <2>1. /\ requests' = [requests EXCEPT ![t].answered = TRUE,
                                        ![t].feeds = FeedsIn(members, requests[t].folder)]
        /\ requests[t].op = "feeds" /\ UNCHANGED <<members, list, panel, panelDoubt>>
    BY <1>3 DEF ReadFeeds, tables, doubts
  <2>2. /\ requests'[t].op = "feeds" /\ requests'[t].folder = requests[t].folder
        /\ requests'[t].feeds = FeedsIn(members, requests[t].folder)
        /\ \A s \in Threads \ {t} : requests'[s] = requests[s]
    BY <1>0, <2>1 DEF Requests
  <2>3. Selected' = Selected
    BY <2>1, SameSelected
  <2> QED
    BY <2>1, <2>2, <2>3 DEF PanelKept, PanelAgrees
<1>4. CASE Fail(t)
  <2>1. /\ requests' = Done(t) /\ UNCHANGED <<members, list, panel>>
        /\ panelDoubt' = (panelDoubt \/ (requests[t].op = "feeds" /\ requests[t].folder = Selected))
    BY <1>4 DEF Fail, tables
  <2>2. requests'[t].op # "feeds" /\ \A s \in Threads \ {t} : requests'[s] = requests[s]
    BY <1>0, <2>1, LoadsTyped DEF Done
  <2>3. Selected' = Selected
    BY <2>1, SameSelected
  <2> QED
    BY <2>1, <2>2, <2>3 DEF PanelKept, PanelAgrees
<1>5. CASE ApplyList(t)
  <2>1. AskPanel(Done(t)) /\ members' = members
    BY <1>5 DEF ApplyList, tables
  <2>2. Done(t) \in [Threads -> Requests]
    BY DoneTyped DEF Shape
  <2>3. \A s \in Threads : Done(t)[s].op = "feeds" => Done(t)[s] = requests[s]
    BY <1>0, LoadsTyped DEF Done
  <2> QED
    BY <1>0, <2>1, <2>2, <2>3, AskPanelKept
<1>6. CASE ApplyFeeds(t)
  <2> DEFINE r == requests[t]
  <2>1. /\ r.op = "feeds" /\ r.answered
        /\ requests' = Done(t) /\ UNCHANGED <<members, list>>
    BY <1>6 DEF ApplyFeeds, tables
  <2>2. requests'[t].op # "feeds" /\ \A s \in Threads \ {t} : requests'[s] = requests[s]
    BY <1>0, <2>1, LoadsTyped DEF Done
  <2>3. Selected' = Selected
    BY <2>1, SameSelected
  <2>4. CASE r.folder = Selected
    <3>1. panel' = r.feeds /\ panelDoubt' = r.old
      BY <1>6, <2>4 DEF ApplyFeeds, StillSelected
    <3>2. ~r.old => r.feeds = FeedsIn(members, Selected)
      BY <2>1, <2>4 DEF PanelKept
    <3> QED
      BY <2>1, <2>2, <2>3, <3>1, <3>2 DEF PanelKept, PanelAgrees
  <2>5. CASE r.folder # Selected
    <3>1. panel' = panel /\ panelDoubt' = panelDoubt
      BY <1>6, <2>5 DEF ApplyFeeds, StillSelected
    <3> QED
      BY <2>1, <2>2, <2>3, <2>5, <3>1 DEF PanelKept, PanelAgrees
  <2> QED
    BY <2>4, <2>5
<1> QED
  BY <1>1, <1>2, <1>3, <1>4, <1>5, <1>6

LEMMA ElsewherePanelKept ==
  ASSUME Shape, PanelKept, NEW r, ChangeElsewhere(r)
  PROVE  PanelKept'
<1>1. Change(r, requests) /\ UNCHANGED <<list, panel>>
  BY DEF ChangeElsewhere
<1>2. requests \in [Threads -> Requests]
  BY DEF Shape, UnderWay
<1> QED
  BY <1>1, <1>2, ChangePanelKept

LEMMA SendSameFeeds ==
  ASSUME requests \in [Threads -> Requests], NEW r, r.op # "feeds", Send(r, requests)
  PROVE  SameFeeds
<1>1. PICK s \in Threads : requests[s] = Idle /\ requests' = [requests EXCEPT ![s] = r]
  BY DEF Send
<1> QED
  BY <1>1, LoadsTyped DEF SameFeeds

LEMMA KeysPanelKept ==
  ASSUME Shape, PanelKept,
         \/ SwitchTab \/ NextListPage \/ PrevListPage \/ RefreshTab \/ DeleteFolder
         \/ \E p \in Targets : Select(p)
         \/ OpenFolderCreateInput \/ OpenFolderRenameInput
         \/ \E op \in {"assign", "unassign"}, x \in Feeds : OpenFolderMenu(op, x)
         \/ Escape
         \/ \E n \in Names : EnterName(n)
         \/ \E p \in 1..MaxFolders : ChooseFolder(p)
  PROVE  PanelKept'
<1>0. requests \in [Threads -> Requests] /\ Rows
  BY DEF Shape, UnderWay
<1>1. ASSUME members' = members, AskPanel(requests) PROVE PanelKept'
  BY <1>0, <1>1, AskPanelKept
<1>2. ASSUME UNCHANGED <<members, list, panel, panelDoubt>>, SameFeeds PROVE PanelKept'
  BY <1>2, SameSelected, PanelKeptAlong
<1>3. ASSUME requests' = requests PROVE SameFeeds
  BY <1>3 DEF SameFeeds
<1>4. ASSUME NEW op \in Changes, NEW f, NEW n, NEW x, Send(Request(op, f, n, x), requests)
      PROVE  SameFeeds
  <2>1. Request(op, f, n, x).op # "feeds"
    BY DEF Request, Changes
  <2> QED
    BY <1>0, <1>4, <2>1, SendSameFeeds
<1>5. CASE SwitchTab
  <2>1. members' = members /\ UNCHANGED list
    BY <1>5 DEF SwitchTab, tables
  <2> QED
    BY <1>1, <1>2, <1>3, <1>5, <2>1 DEF SwitchTab
<1>6. CASE NextListPage \/ PrevListPage \/ RefreshTab
  BY <1>6, WithoutAskingPanelKept DEF NextListPage, PrevListPage, ShowFrom, RefreshTab, tables
<1>7. ASSUME NEW p \in Targets, Select(p) PROVE PanelKept'
  BY <1>1, <1>7 DEF Select, tables
<1>8. CASE DeleteFolder
  BY <1>2, <1>4, <1>8 DEF DeleteFolder, Changes, tables, doubts
<1>9. CASE \/ OpenFolderCreateInput \/ OpenFolderRenameInput
           \/ \E op \in {"assign", "unassign"}, x \in Feeds : OpenFolderMenu(op, x)
  BY <1>2, <1>3, <1>9
  DEF OpenFolderCreateInput, OpenFolderRenameInput, OpenFolderMenu, Open, tables, doubts
<1>10. CASE Escape
  BY <1>2, <1>3, <1>10 DEF Escape, Close, tables, doubts
<1>11. CASE \E n \in Names : EnterName(n)
  BY <1>2, <1>4, <1>11 DEF EnterName, Close, Changes, tables, doubts
<1>12. CASE \E p \in 1..MaxFolders : ChooseFolder(p)
  BY <1>2, <1>3, <1>4, <1>12 DEF ChooseFolder, Close, Changes, tables, doubts
<1> QED
  BY <1>5, <1>6, <1>7, <1>8, <1>9, <1>10, <1>11, <1>12

LEMMA StepPanelKept ==
  ASSUME Shape, PanelKept, [Next]_vars
  PROVE  PanelKept'
<1>1. CASE UNCHANGED vars
  <2>1. UNCHANGED <<members, list, panel, panelDoubt, requests>>
    BY <1>1 DEF vars, tables, doubts
  <2> QED
    BY <2>1, SameSelected, PanelKeptAlong DEF SameFeeds
<1>2. CASE Next
  BY <1>2, ThreadsPanelKept, ElsewherePanelKept, KeysPanelKept DEF Next
<1> QED
  BY <1>1, <1>2

\* The panel shows the feeds of the folder that is selected, whatever the order of
\* the answers (events.rs, FolderFeeds).
THEOREM PanelShowsSelected == Spec => []PanelAgrees
<1>1. Init => Shape /\ Position /\ PanelKept
  <2>1. ASSUME Init PROVE PanelKept
    <3>1. \A t \in Threads : requests[t] = Load \/ requests[t] = Idle
      BY <2>1 DEF Init
    <3>2. Rows /\ Selected = None /\ panel = {}
      <4>1. ~(selected < Len(folders))
        BY <2>1, EmptySeq DEF Init
      <4> QED
        BY <2>1, <4>1, InitShape DEF Init, Shape, Selected
    <3> QED
      BY <3>1, <3>2, LoadsTyped, NoFeedsOfNone DEF PanelKept, PanelAgrees
  <2> QED
    BY <2>1, InitShape
<1>2. Shape /\ Position /\ PanelKept /\ [Next]_vars => (Shape /\ Position /\ PanelKept)'
  BY StepShape, StepPanelKept
<1>3. PanelKept => PanelAgrees
  BY DEF PanelKept
<1> QED
  BY <1>1, <1>2, <1>3, PTL DEF Spec

----------------------------------------------------------------------------
(* The menus mean what they show. *)

\* A menu that was opened while no list was on its way shows the list there is.
MenuKept ==
  dialog # None /\ dialog.op \in {"assign", "unassign"} /\ dialog.quiet =>
    dialog.shown = folders /\ ~ListUnderWay

LEMMA MenuKeptAlong ==
  ASSUME MenuKept, dialog' = dialog, folders' = folders,
         \A t \in Threads : requests'[t].op \in ListOps => \E s \in Threads : requests[s].op \in ListOps
  PROVE  MenuKept'
  BY DEF MenuKept, ListUnderWay

LEMMA ThreadsMenuKept ==
  ASSUME Shape, MenuKept, NEW t \in Threads,
         \/ Perform(t) \/ ReadList(t) \/ ReadFeeds(t) \/ Fail(t)
         \/ ApplyList(t) \/ ApplyFeeds(t)
  PROVE  MenuKept'
<1>0. requests \in [Threads -> Requests]
  BY DEF Shape, UnderWay
<1>1. Idle.op \notin ListOps
  BY LoadsTyped DEF ListOps
<1>2. CASE Perform(t)
  <2> DEFINE r == requests[t]
             rest == [requests EXCEPT ![t] = FollowUp(r)]
  <2>1. dialog' = dialog /\ folders' = folders
    BY <1>2 DEF Perform, list
  <2>2. ASSUME NEW s \in Threads, requests'[s].op \in ListOps
        PROVE  \E u \in Threads : requests[u].op \in ListOps
    <3>1. CASE Change(r, rest)
      <4>1. rest \in [Threads -> Requests] /\ rest[t] = FollowUp(r)
            /\ \A u \in Threads \ {t} : rest[u] = requests[u]
        BY <1>0, LoadsTyped DEF FollowUp
      <4> HIDE DEF rest
      <4>2. requests'[s].op = rest[s].op
        BY <3>1, <4>1, ChangeMarks
      <4> QED
        BY <1>1, <2>2, <4>1, <4>2 DEF FollowUp
    <3>2. CASE requests' = Done(t)
      BY <1>0, <1>1, <2>2, <3>2 DEF Done
    <3> QED
      BY <1>2, <3>1, <3>2 DEF Perform
  <2> QED
    BY <2>1, <2>2, MenuKeptAlong
<1>3. CASE ReadList(t) \/ ReadFeeds(t)
  <2>1. dialog' = dialog /\ folders' = folders
    BY <1>3 DEF ReadList, ReadFeeds, list
  <2>2. \A s \in Threads : requests'[s].op = requests[s].op
    BY <1>0, <1>3 DEF ReadList, ReadFeeds, Requests
  <2> QED
    BY <2>1, <2>2, MenuKeptAlong
<1>4. CASE Fail(t) \/ ApplyFeeds(t)
  <2>1. dialog' = dialog /\ folders' = folders /\ requests' = Done(t)
    BY <1>4 DEF Fail, ApplyFeeds, list
  <2> QED
    BY <1>0, <1>1, <2>1, MenuKeptAlong DEF Done
<1>5. CASE ApplyList(t)
  BY <1>5 DEF ApplyList, MenuKept, ListUnderWay, ListOps
<1> QED
  BY <1>2, <1>3, <1>4, <1>5

LEMMA KeysMenuKept ==
  ASSUME MenuKept,
         \/ SwitchTab \/ NextListPage \/ PrevListPage \/ RefreshTab \/ DeleteFolder
         \/ \E p \in Targets : Select(p)
         \/ OpenFolderCreateInput \/ OpenFolderRenameInput
         \/ \E op \in {"assign", "unassign"}, x \in Feeds : OpenFolderMenu(op, x)
         \/ Escape
         \/ \E n \in Names : EnterName(n)
         \/ \E p \in 1..MaxFolders : ChooseFolder(p)
  PROVE  MenuKept'
<1>1. CASE \/ SwitchTab \/ NextListPage \/ PrevListPage \/ RefreshTab \/ DeleteFolder
           \/ \E p \in Targets : Select(p)
  <2>1. dialog = None /\ dialog' = dialog
    BY <1>1 DEF SwitchTab, NextListPage, PrevListPage, RefreshTab, DeleteFolder, Select, ShowFrom,
       KeysToTab
  <2> QED
    BY <2>1 DEF MenuKept
<1>2. CASE \/ Escape
           \/ \E n \in Names : EnterName(n)
           \/ \E p \in 1..MaxFolders : ChooseFolder(p)
  <2>1. dialog' = None
    BY <1>2 DEF Escape, EnterName, ChooseFolder, Close
  <2> QED
    BY <2>1 DEF MenuKept
<1>3. ASSUME NEW op, NEW x, NEW shown, Open(op, x, shown),
             op \in {"assign", "unassign"} => shown = folders
      PROVE  MenuKept'
  <2>1. /\ dialog' = [op |-> op, feed |-> x, shown |-> shown, quiet |-> ~ListUnderWay]
        /\ folders' = folders /\ requests' = requests
    BY <1>3 DEF Open, list
  <2>2. dialog'.op = op /\ dialog'.shown = shown /\ dialog'.quiet = ~ListUnderWay
    BY <2>1
  <2>3. ListUnderWay' = ListUnderWay
    BY <2>1 DEF ListUnderWay
  <2> QED
    BY <1>3, <2>1, <2>2, <2>3 DEF MenuKept
<1>4. CASE \/ OpenFolderCreateInput \/ OpenFolderRenameInput
           \/ \E op \in {"assign", "unassign"}, x \in Feeds : OpenFolderMenu(op, x)
  BY <1>3, <1>4 DEF OpenFolderCreateInput, OpenFolderRenameInput, OpenFolderMenu
<1> QED
  BY <1>1, <1>2, <1>4

LEMMA StepMenuKept ==
  ASSUME Shape, MenuKept, [Next]_vars
  PROVE  MenuKept'
<1>1. CASE UNCHANGED vars
  BY <1>1, MenuKeptAlong DEF vars, list
<1>2. ASSUME NEW r, ChangeElsewhere(r)
      PROVE  MenuKept'
  <2>1. dialog' = dialog /\ folders' = folders /\ Change(r, requests)
    BY <1>2 DEF ChangeElsewhere, list
  <2>2. \A t \in Threads : requests'[t].op = requests[t].op
    BY <2>1, ChangeMarks DEF Shape, UnderWay
  <2> QED
    BY <2>1, <2>2, MenuKeptAlong
<1>3. CASE Next
  BY <1>2, <1>3, ThreadsMenuKept, KeysMenuKept DEF Next
<1> QED
  BY <1>1, <1>3

\* A key in a folder menu is for the folder that the menu shows there, if no list
\* was on its way when it was opened (modal.rs open_folder_menu, handle_modal_key).
THEOREM MenuShowsFolders == Spec => MenuMeansWhatItShows
<1>1. Init => Shape /\ Position /\ MenuKept
  BY InitShape DEF Init, MenuKept
<1>2. Shape /\ Position /\ MenuKept /\ [Next]_vars => (Shape /\ Position /\ MenuKept)'
  BY StepShape, StepMenuKept
<1>3. ASSUME Shape, Position, MenuKept, NEW p \in 1..MaxFolders, ChooseFolder(p), dialog.quiet
      PROVE  \E t \in Threads :
               requests'[t].op = dialog.op /\ requests'[t].folder = dialog.shown[p].id
  <2>1. dialog.shown = folders /\ p \in DOMAIN folders
    BY <1>3 DEF ChooseFolder, MenuKept
  <2>2. Send(Request(dialog.op, folders[p].id, None, dialog.feed), requests)
    BY <1>3, <2>1 DEF ChooseFolder
  <2>3. PICK t \in Threads :
          requests' = [requests EXCEPT ![t] = Request(dialog.op, folders[p].id, None, dialog.feed)]
    BY <2>2 DEF Send
  <2>4. requests'[t] = Request(dialog.op, folders[p].id, None, dialog.feed)
    BY <1>3, <2>3 DEF Shape, UnderWay
  <2> QED
    BY <2>1, <2>4 DEF Request
<1> DEFINE Right == \A p \in 1..MaxFolders :
                      ChooseFolder(p) /\ dialog.quiet =>
                        \E t \in Threads :
                          requests'[t].op = dialog.op /\ requests'[t].folder = dialog.shown[p].id
<1>4. Shape /\ Position /\ MenuKept => [Right]_vars
  BY <1>3
<1>5. MenuMeansWhatItShows <=> [][Right]_vars
  BY DEF MenuMeansWhatItShows
<1> HIDE DEF Right
<1> QED
  BY <1>1, <1>2, <1>4, <1>5, PTL DEF Spec

----------------------------------------------------------------------------
(* The type invariant: folders that are known were created, and no more are. *)

Creating == {t \in Threads : requests[t].op = "create"}

Bounded == created + Cardinality(Creating) <= MaxFolders

Known ==
  /\ \A i \in DOMAIN folders : folders[i].id \in 1..created
  /\ \A t \in Threads : \A i \in DOMAIN requests[t].list : requests[t].list[i].id \in 1..created

\* No thread begins to create, and no list is read.
Tame(before, after) ==
  \A s \in Threads :
    /\ after[s].op = "create" => before[s].op = "create"
    /\ after[s].list = before[s].list \/ after[s].list = <<>>

LEMMA ListKnown ==
  ASSUME Rows
  PROVE  \A i \in DOMAIN List : List[i].id \in 1..created
<1>1. List \in Seq([id : DOMAIN names, name : Names])
  BY ListTyped
<1>2. ASSUME NEW i \in DOMAIN List PROVE List[i] \in [id : DOMAIN names, name : Names]
  <2>1. i \in 1..Len(List)
    BY <1>1, LenProperties
  <2> QED
    BY <1>1, <2>1, ElementOfSeq
<1> QED
  BY <1>2 DEF Rows

LEMMA CreatingFinite == IsFiniteSet(Creating) /\ Cardinality(Creating) \in Nat
<1>1. Creating \in SUBSET Threads /\ IsFiniteSet(Threads)
  BY FolderTabAssumption DEF Creating
<1>2. IsFiniteSet(Creating)
  BY <1>1, FS_Subset
<1> QED
  BY <1>2, FS_CardinalityType

LEMMA DoneTame ==
  ASSUME UnderWay, NEW t \in Threads
  PROVE  Tame(requests, Done(t))
  BY DEF UnderWay, Done, Idle, Request, Tame

LEMMA SendTame ==
  ASSUME NEW before \in [Threads -> Requests], Tame(requests, before),
         NEW r, r.op # "create", r.list = <<>>, Send(r, before)
  PROVE  Tame(requests, requests')
<1>1. PICK t \in Threads : before[t] = Idle /\ requests' = [before EXCEPT ![t] = r]
  BY DEF Send
<1> QED
  BY <1>1 DEF Tame

LEMMA AskTame ==
  ASSUME NEW before \in [Threads -> Requests], Tame(requests, before), AskPanel(before)
  PROVE  Tame(requests, requests')
<1>1. CASE Selected' = None
  BY <1>1 DEF AskPanel
<1>2. CASE Selected' # None
  <2>1. Send(LoadFeeds(Selected'), before)
    BY <1>2 DEF AskPanel
  <2>2. LoadFeeds(Selected').op # "create" /\ LoadFeeds(Selected').list = <<>>
    BY DEF LoadFeeds, Request
  <2> QED
    BY <2>1, <2>2, SendTame
<1> QED
  BY <1>1, <1>2

\* A step that creates nothing and brings at most a list that is known.
LEMMA TameStep ==
  ASSUME Rows, UnderWay, Bounded, Known, created' = created, Tame(requests, requests'),
         \/ folders' = folders \/ folders' = List
         \/ \E t \in Threads : folders' = requests[t].list
  PROVE  Bounded' /\ Known'
<1>1. Bounded'
  <2>1. Creating' \in SUBSET Creating
    BY DEF Creating, Tame
  <2>2. Cardinality(Creating') <= Cardinality(Creating) /\ Cardinality(Creating') \in Nat
    BY <2>1, CreatingFinite, FS_Subset, FS_CardinalityType
  <2> QED
    BY <2>2, CreatingFinite, FolderTabAssumption DEF Bounded, Rows
<1>2. \A t \in Threads : \A i \in DOMAIN requests'[t].list : requests'[t].list[i].id \in 1..created'
  <2> SUFFICES ASSUME NEW t \in Threads, NEW i \in DOMAIN requests'[t].list
               PROVE  requests'[t].list[i].id \in 1..created'
    OBVIOUS
  <2>1. requests'[t].list # <<>>
    OBVIOUS
  <2>2. requests'[t].list = requests[t].list
    BY <2>1 DEF Tame
  <2> QED
    BY <2>2 DEF Known
<1>3. \A i \in DOMAIN folders' : folders'[i].id \in 1..created'
  BY ListKnown DEF Known
<1> QED
  BY <1>1, <1>2, <1>3 DEF Known

\* A list that is read is known.
LEMMA ReadKnown ==
  ASSUME Rows, UnderWay, Bounded, Known, NEW t \in Threads, ReadList(t)
  PROVE  Bounded' /\ Known'
<1>1. /\ requests' = [requests EXCEPT ![t] = [requests[t] EXCEPT !.answered = TRUE, !.list = List]]
      /\ created' = created /\ folders' = folders
  BY DEF ReadList, UnderWay, Requests, tables, list
<1>2. \A s \in Threads : /\ requests'[s].op = requests[s].op
                         /\ requests'[s].list = IF s = t THEN List ELSE requests[s].list
  BY <1>1 DEF UnderWay, Requests
<1>3. Creating' = Creating
  BY <1>2 DEF Creating
<1> QED
  BY <1>1, <1>2, <1>3, ListKnown DEF Bounded, Known

\* A change: what it creates was asked for, or is within the bound.
LEMMA ChangeKnown ==
  ASSUME Rows, UnderWay, Bounded, Known, UNCHANGED folders,
         NEW r \in Requests, NEW rest \in [Threads -> Requests], Change(r, rest), Tame(requests, rest),
         r.op = "create" =>
           \/ CanCreate
           \/ \E t \in Threads : requests[t].op = "create" /\ rest[t].op # "create"
  PROVE  Bounded' /\ Known'
<1>1. Tame(requests, requests') /\ \A t \in Threads : requests'[t].op = rest[t].op
  BY ChangeMarks DEF Tame
<1>2. CASE r.op # "create"
  <2>1. created' = created
    BY <1>2 DEF Change
  <2> QED
    BY <1>1, <2>1, TameStep
<1>3. CASE r.op = "create"
  <2>1. created' = created + 1 /\ created \in Nat
    BY <1>3 DEF Change, Rows
  <2>2. Creating' \in SUBSET Creating
    BY <1>1 DEF Creating, Tame
  <2>3. IsFiniteSet(Creating) /\ Cardinality(Creating) \in Nat /\ MaxFolders \in Nat
    BY CreatingFinite, FolderTabAssumption
  <2>4. Bounded'
    <3>1. CASE CanCreate
      <4>1. Cardinality(Creating') <= Cardinality(Creating) /\ Cardinality(Creating') \in Nat
        BY <2>2, <2>3, FS_Subset, FS_CardinalityType
      <4>2. created + Cardinality(Creating) < MaxFolders
        BY <3>1 DEF CanCreate, Creating
      <4> QED
        BY <2>1, <2>3, <4>1, <4>2 DEF Bounded
    <3>2. ASSUME NEW t \in Threads, requests[t].op = "create", rest[t].op # "create"
          PROVE  Bounded'
      <4>1. t \in Creating /\ t \notin Creating'
        BY <1>1, <3>2 DEF Creating
      <4>2. Creating' \in SUBSET (Creating \ {t})
        BY <2>2, <4>1
      <4>3. /\ IsFiniteSet(Creating \ {t})
            /\ Cardinality(Creating \ {t}) = Cardinality(Creating) - 1
        BY <2>3, <4>1, FS_RemoveElement
      <4>4. Cardinality(Creating') <= Cardinality(Creating) - 1 /\ Cardinality(Creating') \in Nat
        BY <4>2, <4>3, FS_Subset, FS_CardinalityType
      <4> QED
        BY <2>1, <2>3, <4>4 DEF Bounded
    <3> QED
      BY <1>3, <3>1, <3>2
  <2>5. \A t \in Threads : \A i \in DOMAIN requests'[t].list : requests'[t].list[i].id \in 1..created'
    <3> SUFFICES ASSUME NEW t \in Threads, NEW i \in DOMAIN requests'[t].list
                 PROVE  requests'[t].list[i].id \in 1..created'
      OBVIOUS
    <3>1. requests'[t].list # <<>>
      OBVIOUS
    <3>2. requests'[t].list = requests[t].list
      BY <1>1, <3>1 DEF Tame
    <3>3. requests[t].list[i].id \in 1..created
      BY <3>2 DEF Known
    <3> QED
      BY <2>1, <3>2, <3>3
  <2>6. \A i \in DOMAIN folders' : folders'[i].id \in 1..created'
    BY <2>1 DEF Known
  <2> QED
    BY <2>4, <2>5, <2>6 DEF Known
<1> QED
  BY <1>2, <1>3

LEMMA ThreadsKnown ==
  ASSUME Shape, Bounded, Known, NEW t \in Threads,
         \/ Perform(t) \/ ReadList(t) \/ ReadFeeds(t) \/ Fail(t)
         \/ ApplyList(t) \/ ApplyFeeds(t)
  PROVE  Bounded' /\ Known'
<1>0. Rows /\ UnderWay /\ requests \in [Threads -> Requests] /\ requests[t] \in Requests
  BY DEF Shape, UnderWay
<1>a. Tame(requests, Done(t)) /\ Done(t) \in [Threads -> Requests]
  BY <1>0, DoneTame, DoneTyped
<1>1. CASE Perform(t)
  <2> DEFINE r == requests[t]
             rest == [requests EXCEPT ![t] = FollowUp(r)]
  <2>1. UNCHANGED folders
    BY <1>1 DEF Perform, list
  <2>2. CASE Change(r, rest)
    <3>1. FollowUp(r) \in Requests /\ FollowUp(r).op # "create" /\ FollowUp(r).list = <<>>
      BY LoadsTyped DEF FollowUp, Load, Idle, Request
    <3>2. rest \in [Threads -> Requests] /\ Tame(requests, rest) /\ rest[t].op # "create"
      BY <1>0, <3>1 DEF Tame
    <3> HIDE DEF rest
    <3>3. r.op = "create" =>
           \/ CanCreate
           \/ \E s \in Threads : requests[s].op = "create" /\ rest[s].op # "create"
      BY <3>2
    <3> QED
      BY <1>0, <2>1, <2>2, <3>2, <3>3, ChangeKnown
  <2>3. CASE requests' = Done(t) /\ UNCHANGED tables
    BY <1>0, <1>a, <2>1, <2>3, TameStep DEF tables
  <2> QED
    BY <1>1, <2>2, <2>3 DEF Perform
<1>2. CASE ReadList(t)
  BY <1>0, <1>2, ReadKnown
<1>3. CASE ReadFeeds(t)
  <2>1. created' = created /\ folders' = folders
    BY <1>3 DEF ReadFeeds, tables, list
  <2>2. Tame(requests, requests')
    BY <1>0, <1>3 DEF ReadFeeds, Requests, Tame
  <2> QED
    BY <1>0, <2>1, <2>2, TameStep
<1>4. CASE Fail(t)
  BY <1>0, <1>4, <1>a, TameStep DEF Fail, tables, list
<1>5. CASE ApplyList(t)
  <2>1. Tame(requests, requests')
    BY <1>5, <1>a, AskTame DEF ApplyList
  <2>2. created' = created /\ folders' = requests[t].list
    BY <1>5 DEF ApplyList, ReplaceList, tables
  <2> QED
    BY <1>0, <2>1, <2>2, TameStep
<1>6. CASE ApplyFeeds(t)
  BY <1>0, <1>6, <1>a, TameStep DEF ApplyFeeds, tables, list
<1> QED
  BY <1>1, <1>2, <1>3, <1>4, <1>5, <1>6

LEMMA KeysKnown ==
  ASSUME Shape, Bounded, Known,
         \/ SwitchTab \/ NextListPage \/ PrevListPage \/ RefreshTab \/ DeleteFolder
         \/ \E p \in Targets : Select(p)
         \/ OpenFolderCreateInput \/ OpenFolderRenameInput
         \/ \E op \in {"assign", "unassign"}, x \in Feeds : OpenFolderMenu(op, x)
         \/ Escape
         \/ \E p \in 1..MaxFolders : ChooseFolder(p)
  PROVE  Bounded' /\ Known'
<1>0. Rows /\ UnderWay /\ requests \in [Threads -> Requests] /\ Tame(requests, requests)
  BY DEF Shape, UnderWay, Tame
<1>1. created' = created
  BY DEF SwitchTab, NextListPage, PrevListPage, ShowFrom, RefreshTab, DeleteFolder, Select,
         OpenFolderCreateInput, OpenFolderRenameInput, OpenFolderMenu, Open, Escape, ChooseFolder,
         Close, tables
<1>2. folders' = folders \/ folders' = List
  BY DEF SwitchTab, NextListPage, PrevListPage, ShowFrom, RefreshTab, DeleteFolder, Select,
         OpenFolderCreateInput, OpenFolderRenameInput, OpenFolderMenu, Open, Escape, ChooseFolder,
         Close, list
<1>3. Tame(requests, requests')
  <2>1. CASE SwitchTab \/ \E p \in Targets : Select(p)
    <3>1. AskPanel(requests) \/ requests' = requests
      BY <2>1 DEF SwitchTab, Select
    <3> QED
      BY <1>0, <3>1, AskTame
  <2>2. CASE NextListPage \/ PrevListPage \/ RefreshTab
    BY <1>0, <2>2 DEF NextListPage, PrevListPage, ShowFrom, RefreshTab, WithoutAsking
  <2>3. CASE DeleteFolder
    <3>1. Send(Request("delete", Selected, None, None), requests)
      BY <2>3 DEF DeleteFolder
    <3>2. /\ Request("delete", Selected, None, None).op # "create"
          /\ Request("delete", Selected, None, None).list = <<>>
      BY DEF Request
    <3> QED
      BY <1>0, <3>1, <3>2, SendTame
  <2>4. CASE \/ OpenFolderCreateInput \/ OpenFolderRenameInput
             \/ \E op \in {"assign", "unassign"}, x \in Feeds : OpenFolderMenu(op, x)
             \/ Escape
    BY <1>0, <2>4 DEF OpenFolderCreateInput, OpenFolderRenameInput, OpenFolderMenu, Open, Escape
  <2>5. ASSUME NEW p \in 1..MaxFolders, ChooseFolder(p) PROVE Tame(requests, requests')
    <3> DEFINE r == Request(dialog.op, folders[p].id, None, dialog.feed)
    <3>1. Send(r, requests) \/ requests' = requests
      BY <2>5 DEF ChooseFolder
    <3>2. r.op # "create" /\ r.list = <<>>
      BY <2>5 DEF ChooseFolder, Request
    <3> HIDE DEF r
    <3> QED
      BY <1>0, <3>1, <3>2, SendTame
  <2> QED
    BY <2>1, <2>2, <2>3, <2>4, <2>5
<1> QED
  BY <1>0, <1>1, <1>2, <1>3, TameStep

\* A name that is entered: the bound on folders leaves room for it.
LEMMA EnterKnown ==
  ASSUME Shape, Bounded, Known, NEW n \in Names, EnterName(n)
  PROVE  Bounded' /\ Known'
<1>0. Rows /\ UnderWay /\ requests \in [Threads -> Requests] /\ Tame(requests, requests)
  BY DEF Shape, UnderWay, Tame
<1>1. created' = created /\ folders' = folders
  BY DEF EnterName, Close, tables, list
<1>2. CASE dialog.op # "create"
  <2> DEFINE r == Request("rename", dialog.shown[1].id, n, None)
  <2>1. Send(r, requests)
    BY <1>2 DEF EnterName
  <2>2. r.op # "create" /\ r.list = <<>>
    BY DEF Request
  <2> HIDE DEF r
  <2>3. Tame(requests, requests')
    BY <1>0, <2>1, <2>2, SendTame
  <2> QED
    BY <1>0, <1>1, <2>3, TameStep
<1>3. CASE dialog.op = "create"
  <2>1. PICK t \in Threads : requests' = [requests EXCEPT ![t] = Request("create", None, n, None)]
    BY <1>3 DEF EnterName, Send
  <2>2. Request("create", None, n, None).list = <<>>
    BY DEF Request
  <2>3. Creating' \in SUBSET (Creating \cup {t})
    BY <1>0, <2>1 DEF Creating
  <2>4. IsFiniteSet(Creating) /\ Cardinality(Creating) \in Nat /\ MaxFolders \in Nat
    BY CreatingFinite, FolderTabAssumption
  <2>5. /\ IsFiniteSet(Creating \cup {t})
        /\ Cardinality(Creating \cup {t}) <= Cardinality(Creating) + 1
        /\ Cardinality(Creating \cup {t}) \in Nat
    <3>1. /\ IsFiniteSet(Creating \cup {t})
          /\ \/ Cardinality(Creating \cup {t}) = Cardinality(Creating)
             \/ Cardinality(Creating \cup {t}) = Cardinality(Creating) + 1
      BY <2>4, FS_AddElement, Zenon
    <3> QED
      BY <2>4, <3>1
  <2>6. Cardinality(Creating') <= Cardinality(Creating \cup {t}) /\ Cardinality(Creating') \in Nat
    BY <2>3, <2>5, FS_Subset, FS_CardinalityType
  <2>7. created + Cardinality(Creating) < MaxFolders /\ created \in Nat
    BY <1>3 DEF EnterName, CanCreate, Creating, Shape, Rows
  <2>8. Bounded'
    BY <1>1, <2>4, <2>5, <2>6, <2>7 DEF Bounded
  <2>9. ASSUME NEW s \in Threads, NEW i \in DOMAIN requests'[s].list
        PROVE  requests'[s].list[i].id \in 1..created'
    <3>1. requests'[s].list # <<>>
      BY <2>9
    <3>2. requests'[s].list = requests[s].list
      BY <1>0, <2>1, <2>2, <3>1
    <3> QED
      BY <1>1, <2>9, <3>2 DEF Known
  <2> QED
    BY <1>1, <2>8, <2>9 DEF Known
<1> QED
  BY <1>2, <1>3

LEMMA StepKnown ==
  ASSUME Shape, Bounded, Known, [Next]_vars
  PROVE  Bounded' /\ Known'
<1>1. CASE UNCHANGED vars
  <2>1. created' = created /\ folders' = folders /\ requests' = requests
    BY <1>1 DEF vars, tables, list
  <2>2. Tame(requests, requests')
    BY <2>1 DEF Tame
  <2> QED
    BY <2>1, <2>2, TameStep DEF Shape
<1>2. ASSUME NEW op \in Changes, NEW f \in 1..created, NEW n \in Names, NEW x \in Feeds,
             ChangeElsewhere(Request(op, f, n, x))
      PROVE  Bounded' /\ Known'
  <2> DEFINE r == Request(op, f, n, x)
  <2>1. op \in Ops /\ f \in Nat
    BY DEF Ops, Shape, Rows
  <2>2. r \in Requests
    BY <2>1, RequestTyped
  <2> HIDE DEF r
  <2>3. Change(r, requests) /\ UNCHANGED folders /\ (r.op = "create" => CanCreate)
    BY <1>2 DEF ChangeElsewhere, list, r
  <2>4. Tame(requests, requests) /\ requests \in [Threads -> Requests]
    BY DEF Tame, Shape, UnderWay
  <2> QED
    BY <2>2, <2>3, <2>4, ChangeKnown DEF Shape
<1>3. CASE Next
  BY <1>2, <1>3, ThreadsKnown, KeysKnown, EnterKnown DEF Next
<1> QED
  BY <1>1, <1>3

LEMMA InitKnown ==
  ASSUME Init
  PROVE  Bounded /\ Known
<1>1. PICK t \in Threads : requests = [s \in Threads |-> IF s = t THEN Load ELSE Idle]
  BY DEF Init
<1>2. \A s \in Threads : requests[s].op # "create" /\ requests[s].list = <<>>
  BY <1>1 DEF Load, Idle, Request
<1>3. Creating = {}
  BY <1>2 DEF Creating
<1>4. Cardinality(Creating) = 0
  BY <1>3, FS_EmptySet
<1>5. created \in 0..(MaxFolders - 1) /\ folders = <<>>
  BY DEF Init
<1>6. Bounded
  BY <1>4, <1>5, FolderTabAssumption DEF Bounded
<1>7. DOMAIN folders = {} /\ \A s \in Threads : DOMAIN requests[s].list = {}
  BY <1>2, <1>5
<1> QED
  BY <1>6, <1>7 DEF Known

LEMMA TypesSuffice ==
  ASSUME Shape, Position, Bounded, Known
  PROVE  TypeOK
<1>1. created \in 0..MaxFolders
  <2>1. created \in Nat
    BY DEF Shape, Rows
  <2> QED
    BY <2>1, CreatingFinite, FolderTabAssumption DEF Bounded
<1>2. \A i \in DOMAIN folders : folders[i] \in [id : 1..created, name : Names]
  <2> SUFFICES ASSUME NEW i \in DOMAIN folders PROVE folders[i] \in [id : 1..created, name : Names]
    OBVIOUS
  <2>1. folders \in Seq(Item) /\ i \in 1..Len(folders)
    BY LenProperties DEF Shape, Client
  <2>2. folders[i] \in Item
    BY <2>1, ElementOfSeq
  <2>3. folders[i].id \in 1..created
    BY DEF Known
  <2> QED
    BY <2>2, <2>3 DEF Item
<1>3. selected \in 0..(IF folders = <<>> THEN 0 ELSE Len(folders) - 1)
  <2>1. Len(folders) \in Nat /\ (folders = <<>> <=> Len(folders) = 0)
    BY LenProperties, EmptySeq DEF Shape, Client
  <2>2. selected \in Nat /\ (selected = 0 \/ selected < Len(folders))
    BY DEF Shape, Client
  <2> QED
    BY <2>1, <2>2
<1>4. dialog # None => dialog.op \in Changes \ {"delete"}
  BY DEF Shape, Client, Dialogs
<1>5. DOMAIN requests = Threads
  BY DEF Shape, UnderWay
<1>6. \A t \in Threads :
       /\ requests[t].op \in Changes \cup {"idle", "load", "feeds"}
       /\ requests[t].answered => requests[t].op \in {"load", "feeds"}
  BY DEF Shape, UnderWay, Requests, Ops, Formed
<1> QED
  BY <1>1, <1>2, <1>3, <1>4, <1>5, <1>6 DEF TypeOK, Shape, Rows, Client

\* The type invariant, for any number of folders and of requests.
THEOREM TypeCorrect == Spec => []TypeOK
<1>1. Init => Shape /\ Position /\ Bounded /\ Known
  BY InitShape, InitKnown
<1>2. Shape /\ Position /\ Bounded /\ Known /\ [Next]_vars => (Shape /\ Position /\ Bounded /\ Known)'
  BY StepShape, StepKnown
<1>3. Shape /\ Position /\ Bounded /\ Known => TypeOK
  BY TypesSuffice
<1> QED
  BY <1>1, <1>2, <1>3, PTL DEF Spec
=============================================================================

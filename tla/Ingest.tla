------------------------------- MODULE Ingest --------------------------------
(***************************************************************************)
(* The fetcher from its start to its polls (crates/fetcher/src/main.rs):   *)
(* it loads the configuration, in development mode wipes the database,     *)
(* stores the categories, then the sources in chunks of one transaction    *)
(* each, and polls what the database holds.  Between any two of these it   *)
(* may be killed and the configuration may be edited.                      *)
(*                                                                         *)
(* The database outlives the process; what a request is made with comes    *)
(* half from the row of the source, half from the maps that the process    *)
(* filled when it loaded the configuration.  The state of a source that    *)
(* decides when it is polled is left to FeedFetch.                         *)
(***************************************************************************)
EXTENDS SourceConfig, FiniteSets, Naturals

CONSTANTS
  Configuration, \* the bundles of files there may be, each under a version
  NoVersion,     \* none was loaded yet
  ChunkSize,     \* sources per transaction
  OriginCookies, \* what an answer's Set-Cookie headers may hold
  MaxEdits,      \* bound: edits of the configuration
  MaxKills       \* bound: kills of the fetcher

ASSUME IngestAssumption ==
  /\ ChunkSize \in Nat \ {0} /\ MaxEdits \in Nat /\ MaxKills \in Nat
  /\ NoVersion \notin DOMAIN Configuration

Versions == DOMAIN Configuration

\* The sources of every version that loads.
Loadable == {v \in Versions : Loads(Configuration[v])}
Defined == [v \in Loadable |-> Sources(Configuration[v])]

Ids == UNION {DOMAIN Defined[v] : v \in Loadable}
Nothing == [id |-> <<>>]   \* no request yet

VARIABLES
  version,      \* of the configuration on disk
  current,      \* the one the process loaded, or the last one did
  phase,        \* of the fetcher; "refused": it gave up, the database refused a chunk
  pending,      \* the ids not stored yet
  categories,   \* table categories
  feeds,        \* table feeds
  jar,          \* table source_cookies
  excluded,     \* table error_feeds
  request,      \* history: the last request since the start
  edited,       \* history: sources whose cookie file changed after an answer's
                \*          cookies were stored
  edits, kills  \* how many there have been

database == <<categories, feeds, jar, excluded>>
history == <<request, edited, edits, kills>>
vars == <<version, current, phase, pending, database, history>>

\* The sources, and the categories with a scheduler round each.
loaded == IF current = NoVersion THEN <<>> ELSE Defined[current]
polled == CategoryNames(Configuration[current])

Row(s) == [url |-> s.url, category |-> s.category, poll |-> s.poll]

\* The references of the tables to each other are part of their type.
TypeOK ==
  /\ version \in Versions
  /\ current \in Loadable \cup {NoVersion}
  /\ phase \in {"down", "wiping", "categories", "feeds", "running", "refused"}
  /\ phase # "down" => current # NoVersion
  /\ pending \subseteq DOMAIN loaded
  /\ DOMAIN feeds \cup edited \subseteq Ids
  /\ {feeds[id].category : id \in DOMAIN feeds} \subseteq categories
  /\ DOMAIN jar \cup excluded \subseteq DOMAIN feeds
  /\ request # Nothing => request.id \in Ids
  /\ edits \in 0..MaxEdits /\ kills \in 0..MaxKills

Init ==
  /\ version \in Versions
  /\ current = NoVersion
  /\ phase = "down"
  /\ pending = {}
  /\ categories = {} /\ feeds = <<>> /\ jar = <<>> /\ excluded = {}
  /\ request = Nothing
  /\ edited = {}
  /\ edits = 0 /\ kills = 0

----------------------------------------------------------------------------
Edit ==
  /\ edits < MaxEdits
  /\ version' \in Versions \ {version}
  /\ edits' = edits + 1
  /\ UNCHANGED <<current, phase, pending, database, request, edited, kills>>

\* A cookie without a value is dropped wherever cookies are put together.
Filled(cookies) == [n \in {m \in DOMAIN cookies : cookies[m] # ""} |-> cookies[n]]

\* What there is to send of the cookie file of a source.
CookiesOf(sources, id) ==
  IF id \in DOMAIN sources THEN Filled(sources[id].cookies) ELSE <<>>

\* main up to the database.  A configuration that does not load ends the process,
\* which changes nothing.
Start ==
  /\ phase \in {"down", "refused"}
  /\ version \in Loadable
  /\ current' = version
  /\ pending' = DOMAIN Defined[version]
  /\ edited' = edited \cup
       {id \in DOMAIN jar : CookiesOf(Defined[version], id) # CookiesOf(loaded, id)}
  /\ phase' = IF Configuration[version].mode = "dev" THEN "wiping" ELSE "categories"
  /\ request' = Nothing
  /\ UNCHANGED <<version, database, edits, kills>>

\* A plausible slip: one table is left out.
WipeKeepsCookies ==
  /\ phase = "wiping"
  /\ phase' = "categories"
  /\ categories' = {} /\ feeds' = <<>> /\ excluded' = {}
  /\ edited' = {}
  /\ UNCHANGED <<version, current, pending, jar, request, edits, kills>>

\* remove_file of the SQLite database, after which nobody asks whether it is gone;
\* wipe_database drops the schema.
Wipe ==
  /\ phase = "wiping"
  /\ phase' = "categories"
  /\ \/ /\ categories' = {} /\ feeds' = <<>> /\ jar' = <<>> /\ excluded' = {}
        /\ edited' = {}
     \/ UNCHANGED <<database, edited>>
  /\ UNCHANGED <<version, current, pending, request, edits, kills>>

UpsertCategories ==
  /\ phase = "categories"
  /\ phase' = "feeds"
  /\ categories' = categories \cup polled
  /\ UNCHANGED <<version, current, pending, feeds, jar, excluded, history>>

\* A plausible slip: a source that is there is left as it is.
InsertNew(table, new) == Merge(new, table)

\* A plausible slip: the category is not among the columns that are updated.
UpsertButCategory(table, new) ==
  Merge(table,
        [id \in DOMAIN new |->
           IF id \in DOMAIN table THEN [new[id] EXCEPT !.category = table[id].category] ELSE new[id]])

\* INSERT ... ON CONFLICT(id) DO UPDATE of every column.
Upsert(table, new) == Merge(table, new)

\* upsert_chunk: one transaction.  The chunks follow the order of the files,
\* which is left open here.
UpsertChunk(chunk) ==
  /\ phase = "feeds"
  /\ \/ Cardinality(chunk) = ChunkSize
     \/ chunk = pending /\ Cardinality(chunk) < ChunkSize
  /\ chunk # {}
  /\ IF \A id \in chunk : loaded[id].category \in categories
       THEN /\ feeds' = Upsert(feeds, [id \in chunk |-> Row(loaded[id])])
            /\ pending' = pending \ chunk
            /\ UNCHANGED phase
       ELSE /\ phase' = "refused"
            /\ UNCHANGED <<feeds, pending>>
  /\ UNCHANGED <<version, current, categories, jar, excluded, history>>

BeginPolling ==
  /\ phase = "feeds" /\ pending = {}
  /\ phase' = "running"
  /\ UNCHANGED <<version, current, pending, database, history>>

\* The process ends at any moment; also an error of the database.
Kill ==
  /\ phase \notin {"down", "refused"} /\ kills < MaxKills
  /\ phase' = "down"
  /\ kills' = kills + 1
  /\ UNCHANGED <<version, current, pending, database, request, edited, edits>>

----------------------------------------------------------------------------
\* due_feeds, once for each category of the configuration.
Due(id) ==
  /\ phase = "running"
  /\ id \in DOMAIN feeds \ excluded
  /\ feeds[id].category \in polled

\* What merge_cookie_headers makes of the file's cookies and the stored ones.
CookiesSent(id) ==
  Merge(CookiesOf(loaded, id), IF id \in DOMAIN jar THEN jar[id] ELSE <<>>)

\* What the stored row and the maps of the process make of a due source.
Request(id) ==
  [id |-> id, url |-> feeds[id].url,
   watch |-> id \in DOMAIN loaded /\ loaded[id].kind = "watch",
   cookies |-> CookiesSent(id),
   headers |-> IF id \in DOMAIN loaded THEN loaded[id].headers ELSE <<>>]

\* The cookies of an answer, over those that were sent.
CookiesStored(id, set) == Merge(CookiesSent(id), Filled(set))

\* process_feed; an answer that sets cookies stores them, if there are any.
PollSource(id) ==
  /\ Due(id)
  /\ request' = Request(id)
  /\ \E set \in OriginCookies :
       jar' = IF set = <<>> \/ CookiesStored(id, set) = <<>>
                THEN jar
                ELSE Merge(jar, [i \in {id} |-> CookiesStored(id, set)])
  /\ UNCHANGED <<version, current, phase, pending, categories, feeds, excluded, edited, edits, kills>>

\* Too many errors (FeedFetch).
Exclude(id) ==
  /\ Due(id)
  /\ excluded' = excluded \cup {id}
  /\ UNCHANGED <<version, current, phase, pending, categories, feeds, jar, history>>

Next ==
  \/ Edit \/ Start \/ Wipe \/ UpsertCategories \/ BeginPolling \/ Kill
  \/ \E chunk \in SUBSET pending : UpsertChunk(chunk)
  \/ \E id \in DOMAIN feeds : PollSource(id) \/ Exclude(id)

Spec == Init /\ [][Next]_vars

\* Once started it goes on.  Nothing is said of the polls: which of the due sources
\* are polled, and when, is the matter of Orchestrator and Backlog.
FairSpec ==
  /\ Spec
  /\ WF_vars(Wipe) /\ WF_vars(UpsertCategories) /\ WF_vars(BeginPolling)
  /\ WF_vars(\E chunk \in SUBSET pending : UpsertChunk(chunk))

----------------------------------------------------------------------------
(* Properties. *)

\* The layers a field of an entry may come from, the most specific first.
FeedLayers(b, e) == <<e.raw.given, e.file.defaults, Global(b, e.file.dir).feed>>
WatchLayers(b, e) ==
  IF e.raw.profile = NoProfile
    THEN <<e.raw.given, e.file.watchDefaults, Global(b, e.file.dir).watch>>
    ELSE <<e.raw.given, ProfileOf(e.file, e.raw).given,
           e.file.watchDefaults, Global(b, e.file.dir).watch>>
Layers(b, e) == IF e.kind = "feed" THEN FeedLayers(b, e) ELSE WatchLayers(b, e)

\* Of a field written in several places the most specific one counts, whichever
\* of them there are: the item, its profile, the defaults of its file, those of
\* its directory (docs/pulsewire/ad-hoc-site.md).
MostSpecificWins ==
  \A b \in {Configuration[v] : v \in Loadable \cap {version}} : \A e \in Entries(b) :
    LET layers == Layers(b, e)
    IN \A i \in DOMAIN layers : \A field \in DOMAIN layers[i] :
         (\A j \in 1..(i - 1) : field \notin DOMAIN layers[j]) =>
           field \in DOMAIN e.layer /\ e.layer[field] = layers[i][field]

\* A configuration that loads is one the database takes: the checks of the loader
\* imply the foreign key of the feeds, whatever was stored by earlier starts.
IngestAccepted == phase # "refused"

\* Once it polls, the rows of all configured sources are those of the
\* configuration, also after starts that were killed halfway through another.
RowsAgree ==
  phase = "running" =>
    \A id \in DOMAIN loaded : id \in DOMAIN feeds /\ feeds[id] = Row(loaded[id])

SetByOrigin(n, value) == \E set \in OriginCookies : n \in DOMAIN set /\ set[n] = value

\* A configured source is requested from its URL, as what it is, and with every
\* cookie its file has a value for: as it is there, unless the origin has set it,
\* or the file changed after an answer's cookies were stored, which keep the old
\* value.
RequestAsConfigured ==
  [][request' \notin {request, Nothing} =>
       \A e \in Entries(Configuration[current]) :
         request'.id = EntryId(e) =>
           /\ request'.url = e.raw.url
           /\ request'.watch = (e.kind = "watch")
           /\ Has(e, "cookie") =>
                LET file == Configuration[current].cookieFiles[e.layer["cookie"]]
                IN \A n \in {m \in DOMAIN file : file[m] # ""} :
                     /\ n \in DOMAIN request'.cookies
                     /\ \/ request'.cookies[n] = file[n]
                        \/ SetByOrigin(n, request'.cookies[n])
                        \/ request'.id \in edited]_vars

\* A start comes to its end, unless it is killed, and then every source of the
\* configuration is there to be polled, or has failed too often: all chunks were
\* stored, and the category stored with each source has a scheduler round.
EverySourceDue ==
  \A id \in Ids :
    (phase # "down" /\ id \in DOMAIN loaded)
      ~> (Due(id) \/ id \in excluded \/ phase = "down")
=============================================================================

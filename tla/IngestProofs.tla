---------------------------- MODULE IngestProofs -----------------------------
(***************************************************************************)
(* Proofs about Ingest, for every set of configurations, chunk size and    *)
(* number of edits and kills: what the rows and the requests have to do    *)
(* with the configuration, and which of its layers counts.                 *)
(***************************************************************************)
EXTENDS Ingest, TLAPS

\* Merging gives the fields of the more specific one, and the others of the base.
LEMMA MergeOver ==
  ASSUME NEW base, NEW over, NEW f \in DOMAIN over
  PROVE  f \in DOMAIN Merge(base, over) /\ Merge(base, over)[f] = over[f]
  BY DEF Merge

LEMMA MergeBase ==
  ASSUME NEW base, NEW over, NEW f \in DOMAIN base, f \notin DOMAIN over
  PROVE  f \in DOMAIN Merge(base, over) /\ Merge(base, over)[f] = base[f]
  BY DEF Merge

\* What a source is made of, for an entry and for an id: ids are unique.
LEMMA SourceOfEntry ==
  ASSUME NEW b, Loads(b), NEW e \in Entries(b)
  PROVE  EntryId(e) \in DOMAIN Sources(b) /\ Sources(b)[EntryId(e)] = Source(b, e)
<1>1. EntryId(e) \in SourceIds(b)
  BY DEF SourceIds
<1>2. (CHOOSE d \in Entries(b) : EntryId(d) = EntryId(e)) = e
  BY DEF Loads
<1> QED
  BY <1>1, <1>2 DEF Sources

LEMMA EntryOfSource ==
  ASSUME NEW b, Loads(b), NEW id \in DOMAIN Sources(b)
  PROVE  \E e \in Entries(b) : EntryId(e) = id /\ Sources(b)[id] = Source(b, e)
<1>1. PICK e \in Entries(b) : EntryId(e) = id
  BY DEF Sources, SourceIds
<1> QED
  BY <1>1, SourceOfEntry

\* Every source has a category that is configured.
LEMMA CategoryConfigured ==
  ASSUME NEW b, Loads(b), NEW id \in DOMAIN Sources(b)
  PROVE  Sources(b)[id].category \in CategoryNames(b)
<1>1. PICK e \in Entries(b) : Sources(b)[id] = Source(b, e)
  BY EntryOfSource
<1>2. Resolves(b, e)
  BY DEF Loads
<1>3. Category(b, e) \in CategoryNames(b)
  <2>1. CASE "category" \in DOMAIN e.layer
    BY <1>2, <2>1 DEF Resolves, Category
  <2>2. CASE "category" \notin DOMAIN e.layer
    <3>1. (CHOOSE c \in b.categories : Host(e.raw.url) \in c.domains) \in b.categories
      BY <1>2, <2>2 DEF Resolves
    <3> QED
      BY <2>2, <3>1 DEF Category, CategoryNames
  <2> QED
    BY <2>1, <2>2
<1> QED
  BY <1>1, <1>3 DEF Source

----------------------------------------------------------------------------
(* The layers of a configuration. *)

\* The first of three layers that has a field gives its value to their merge; so
\* does the first of four.
LEMMA ThreeLayers ==
  ASSUME NEW a, NEW b, NEW c, NEW i \in {1, 2, 3}, NEW field \in DOMAIN <<a, b, c>>[i],
         \A j \in 1..(i - 1) : field \notin DOMAIN <<a, b, c>>[j]
  PROVE  /\ field \in DOMAIN Merge(Merge(c, b), a)
         /\ Merge(Merge(c, b), a)[field] = <<a, b, c>>[i][field]
<1>1. CASE i = 1
  BY <1>1, MergeOver, MergeBase
<1>2. CASE i = 2
  <2>1. field \in DOMAIN b \ DOMAIN a
    BY <1>2
  <2>2. field \in DOMAIN Merge(c, b) /\ Merge(c, b)[field] = b[field]
    BY <2>1, MergeOver, MergeBase
  <2> QED
    BY <1>2, <2>1, <2>2, MergeOver, MergeBase
<1>3. CASE i = 3
  <2>1. 1 \in 1..(i - 1) /\ 2 \in 1..(i - 1)
    BY <1>3
  <2>2. field \in DOMAIN c /\ field \notin DOMAIN a /\ field \notin DOMAIN b
    BY <1>3, <2>1
  <2>3. field \in DOMAIN Merge(c, b) /\ Merge(c, b)[field] = c[field]
    BY <2>2, MergeOver, MergeBase
  <2> QED
    BY <1>3, <2>2, <2>3, MergeOver, MergeBase
<1> QED
  BY <1>1, <1>2, <1>3

LEMMA FourLayers ==
  ASSUME NEW a, NEW b, NEW c, NEW d, NEW i \in {1, 2, 3, 4},
         NEW field \in DOMAIN <<a, b, c, d>>[i],
         \A j \in 1..(i - 1) : field \notin DOMAIN <<a, b, c, d>>[j]
  PROVE  /\ field \in DOMAIN Merge(Merge(Merge(d, c), b), a)
         /\ Merge(Merge(Merge(d, c), b), a)[field] = <<a, b, c, d>>[i][field]
<1> DEFINE rest == Merge(Merge(d, c), b)
<1>1. CASE i = 1
  BY <1>1, MergeOver, MergeBase
<1>2. CASE i # 1
  <2>1. 1 \in 1..(i - 1) /\ i - 1 \in {1, 2, 3}
    BY <1>2
  <2>2. field \notin DOMAIN a
    BY <2>1
  <2>3. <<a, b, c, d>>[i] = <<b, c, d>>[i - 1]
    BY <1>2
  <2>4. \A j \in 1..((i - 1) - 1) : field \notin DOMAIN <<b, c, d>>[j]
    <3>1. TAKE j \in 1..((i - 1) - 1)
    <3>2. j + 1 \in 1..(i - 1) /\ j \in {1, 2}
      BY <2>1, <3>1
    <3>3. <<a, b, c, d>>[j + 1] = <<b, c, d>>[j]
      BY <3>2
    <3> QED
      BY <3>2, <3>3
  <2>5. field \in DOMAIN <<b, c, d>>[i - 1]
    BY <2>3
  <2>6. field \in DOMAIN rest /\ rest[field] = <<b, c, d>>[i - 1][field]
    BY <2>1, <2>4, <2>5, ThreeLayers
  <2> HIDE DEF rest
  <2>7. field \in DOMAIN Merge(rest, a) /\ Merge(rest, a)[field] = rest[field]
    BY <2>2, <2>6, MergeOver, MergeBase
  <2> QED
    BY <2>3, <2>6, <2>7 DEF rest
<1> QED
  BY <1>1, <1>2

\* Of a field written in several places the most specific one counts: the item,
\* its profile, the defaults of its file, those of its directory.
LEMMA LayersMerge ==
  ASSUME NEW b, NEW e \in Entries(b), NEW i \in DOMAIN Layers(b, e),
         NEW field \in DOMAIN Layers(b, e)[i],
         \A j \in 1..(i - 1) : field \notin DOMAIN Layers(b, e)[j]
  PROVE  field \in DOMAIN e.layer /\ e.layer[field] = Layers(b, e)[i][field]
<1>1. CASE e \in FeedEntries(b)
  <2>1. PICK file \in EnabledFiles(b) : \E f \in file.feeds :
          e = [kind |-> "feed", raw |-> f, file |-> file,
               layer |-> Merge(FeedDefaults(b, file), f.given)]
    BY <1>1 DEF FeedEntries
  <2>2. PICK f \in file.feeds :
          e = [kind |-> "feed", raw |-> f, file |-> file,
               layer |-> Merge(FeedDefaults(b, file), f.given)]
    BY <2>1
  <2> DEFINE global == Global(b, file.dir).feed
  <2>3. Layers(b, e) = <<f.given, file.defaults, global>>
    BY <2>2 DEF Layers, FeedLayers
  <2>4. e.layer = Merge(Merge(global, file.defaults), f.given)
    BY <2>2 DEF FeedDefaults
  <2>5. i \in {1, 2, 3}
    BY <2>3
  <2> HIDE DEF global
  <2> QED
    BY <2>3, <2>4, <2>5, ThreeLayers
<1>2. CASE e \in WatchEntries(b)
  <2>1. PICK file \in EnabledFiles(b) : \E w \in file.watches :
          e = [kind |-> "watch", raw |-> w, file |-> file,
               layer |-> Merge(WatchBase(b, file, w), w.given)]
    BY <1>2 DEF WatchEntries
  <2>2. PICK w \in file.watches :
          e = [kind |-> "watch", raw |-> w, file |-> file,
               layer |-> Merge(WatchBase(b, file, w), w.given)]
    BY <2>1
  <2> DEFINE global == Global(b, file.dir).watch
             profile == ProfileOf(file, w).given
  <2>3. CASE w.profile = NoProfile
    <3>1. Layers(b, e) = <<w.given, file.watchDefaults, global>>
      BY <2>2, <2>3 DEF Layers, WatchLayers
    <3>2. e.layer = Merge(Merge(global, file.watchDefaults), w.given)
      BY <2>2, <2>3 DEF WatchDefaults, WatchBase
    <3>3. i \in {1, 2, 3}
      BY <3>1
    <3> HIDE DEF global
    <3> QED
      BY <3>1, <3>2, <3>3, ThreeLayers
  <2>4. CASE w.profile # NoProfile
    <3>1. Layers(b, e) = <<w.given, profile, file.watchDefaults, global>>
      BY <2>2, <2>4 DEF Layers, WatchLayers
    <3>2. e.layer = Merge(Merge(Merge(global, file.watchDefaults), profile), w.given)
      BY <2>2, <2>4 DEF WatchDefaults, WatchBase
    <3>3. i \in {1, 2, 3, 4}
      BY <3>1
    <3> HIDE DEF global, profile
    <3> QED
      BY <3>1, <3>2, <3>3, FourLayers
  <2> QED
    BY <2>3, <2>4
<1> QED
  BY <1>1, <1>2 DEF Entries

\* The most specific layer of a field counts, in every configuration that loads.
THEOREM SpecificFirst == Spec => []MostSpecificWins
<1>1. MostSpecificWins
  BY LayersMerge DEF MostSpecificWins
<1> QED
  BY <1>1, PTL

----------------------------------------------------------------------------
(* The invariant. *)

\* How far the start has come: which rows are those of the configuration.
Progress ==
  /\ phase # "refused"
  /\ phase \in {"wiping", "categories"} => pending = DOMAIN loaded
  /\ phase \in {"feeds", "running"} =>
       /\ polled \subseteq categories
       /\ \A id \in DOMAIN loaded \ pending : id \in DOMAIN feeds /\ feeds[id] = Row(loaded[id])
  /\ phase = "running" => pending = {}

\* A stored cookie is that of the file or one that the origin has set, unless the
\* file has changed.
JarExplained ==
  \A id \in DOMAIN jar \ edited : \A n \in DOMAIN jar[id] :
    \/ /\ n \in DOMAIN CookiesOf(loaded, id)
       /\ jar[id][n] = CookiesOf(loaded, id)[n]
    \/ SetByOrigin(n, jar[id][n])

IInv == TypeOK /\ Progress /\ JarExplained

\* What a start makes of a configuration that loads.
LEMMA LoadedIsDefined ==
  ASSUME NEW v \in Loadable
  PROVE  /\ v # NoVersion
         /\ Defined[v] = Sources(Configuration[v])
         /\ DOMAIN Defined[v] \subseteq Ids
         /\ \A id \in DOMAIN Defined[v] :
              Defined[v][id].category \in CategoryNames(Configuration[v])
<1>1. Loads(Configuration[v]) /\ v # NoVersion
  BY IngestAssumption DEF Loadable, Versions
<1>2. Defined[v] = Sources(Configuration[v])
  BY DEF Defined
<1>3. DOMAIN Defined[v] \subseteq Ids
  BY DEF Ids
<1>4. \A id \in DOMAIN Defined[v] :
        Defined[v][id].category \in CategoryNames(Configuration[v])
  BY <1>1, <1>2, CategoryConfigured
<1> QED
  BY <1>1, <1>2, <1>3, <1>4

LEMMA NothingLoaded == DOMAIN <<>> = {}
  OBVIOUS

LEMMA InitIInv == Init => IInv
  BY NothingLoaded, IngestAssumption
     DEF Init, IInv, TypeOK, Progress, JarExplained, loaded, Versions

\* The chunks that are stored are never refused.
LEMMA ChunkAccepted ==
  ASSUME IInv, phase = "feeds", NEW chunk \in SUBSET pending
  PROVE  \A id \in chunk : loaded[id].category \in categories
<1>1. current \in Loadable /\ loaded = Defined[current]
  BY LoadedIsDefined DEF IInv, TypeOK, loaded
<1>2. \A id \in DOMAIN loaded : loaded[id].category \in polled
  BY <1>1, LoadedIsDefined DEF polled
<1> QED
  BY <1>2 DEF IInv, TypeOK, Progress

LEMMA StartIInv == ASSUME IInv, Start PROVE IInv'
<1>1. /\ version \in Loadable /\ current' = version /\ loaded' = Defined[version]
      /\ phase' \in {"wiping", "categories"} /\ pending' = DOMAIN Defined[version]
  BY LoadedIsDefined DEF Start, loaded
<1>2. TypeOK'
  BY <1>1, LoadedIsDefined DEF Start, IInv, TypeOK, database
<1>3. Progress'
  BY <1>1 DEF Progress
<1>4. JarExplained'
  <2>1. SUFFICES ASSUME NEW id \in DOMAIN jar, id \notin edited', NEW n \in DOMAIN jar[id]
                 PROVE  \/ /\ n \in DOMAIN CookiesOf(Defined[version], id)
                           /\ jar[id][n] = CookiesOf(Defined[version], id)[n]
                        \/ SetByOrigin(n, jar[id][n])
    BY <1>1 DEF Start, database, JarExplained, CookiesOf, SetByOrigin
  <2>2. id \notin edited /\ CookiesOf(Defined[version], id) = CookiesOf(loaded, id)
    BY <2>1 DEF Start
  <2> QED
    BY <2>1, <2>2 DEF IInv, JarExplained
<1> QED
  BY <1>2, <1>3, <1>4 DEF IInv

\* A wipe that fails leaves every row and cookie as it is.
LEMMA WipeIInv == ASSUME IInv, Wipe PROVE IInv'
<1>1. loaded' = loaded /\ phase' = "categories" /\ pending' = pending
  BY DEF Wipe, loaded
<1>2. TypeOK'
  BY <1>1, NothingLoaded DEF Wipe, IInv, TypeOK, database
<1>3. Progress'
  BY <1>1 DEF Wipe, IInv, Progress
<1>4. JarExplained'
  BY <1>1, NothingLoaded DEF Wipe, IInv, JarExplained, database, CookiesOf, SetByOrigin
<1> QED
  BY <1>2, <1>3, <1>4 DEF IInv

LEMMA UpsertCategoriesIInv == ASSUME IInv, UpsertCategories PROVE IInv'
<1>1. loaded' = loaded /\ polled' = polled /\ history' = history
  BY DEF UpsertCategories, loaded, polled
<1>2. TypeOK'
  BY <1>1 DEF UpsertCategories, IInv, TypeOK, history
<1>3. Progress' /\ JarExplained'
  BY <1>1 DEF UpsertCategories, IInv, Progress, JarExplained, history, CookiesOf, SetByOrigin
<1> QED
  BY <1>2, <1>3 DEF IInv

LEMMA UpsertChunkIInv ==
  ASSUME IInv, NEW chunk \in SUBSET pending, UpsertChunk(chunk)
  PROVE  IInv'
<1> DEFINE rows == [id \in chunk |-> Row(loaded[id])]
<1>1. /\ phase = "feeds" /\ phase' = "feeds"
      /\ feeds' = Merge(feeds, rows) /\ pending' = pending \ chunk
      /\ \A id \in chunk : loaded[id].category \in categories
  BY ChunkAccepted DEF UpsertChunk, Upsert
<1>2. loaded' = loaded /\ polled' = polled /\ history' = history
  BY DEF UpsertChunk, loaded, polled
<1>3. chunk \subseteq DOMAIN loaded /\ DOMAIN loaded \subseteq Ids
  BY <1>1, LoadedIsDefined DEF IInv, TypeOK, loaded
<1>4. DOMAIN feeds' = DOMAIN feeds \cup chunk
  BY <1>1 DEF Merge
<1>5. \A id \in chunk : feeds'[id] = Row(loaded[id])
  BY <1>1 DEF Merge
<1>6. \A id \in DOMAIN feeds \ chunk : feeds'[id] = feeds[id]
  BY <1>1 DEF Merge
<1> HIDE DEF rows
<1>7. TypeOK'
  <2>1. \A id \in DOMAIN feeds' : feeds'[id].category \in categories
    BY <1>1, <1>4, <1>5, <1>6 DEF IInv, TypeOK, Row
  <2> QED
    BY <1>1, <1>2, <1>3, <1>4, <2>1 DEF UpsertChunk, IInv, TypeOK, history
<1>8. Progress'
  BY <1>1, <1>2, <1>4, <1>5, <1>6 DEF UpsertChunk, IInv, TypeOK, Progress
<1>9. JarExplained'
  BY <1>2 DEF UpsertChunk, IInv, JarExplained, history, CookiesOf, SetByOrigin
<1> QED
  BY <1>7, <1>8, <1>9 DEF IInv

\* What is stored after a poll was sent by the origin or as a cookie of the request.
LEMMA PollSourceIInv ==
  ASSUME IInv, NEW id \in DOMAIN feeds, PollSource(id)
  PROVE  IInv'
<1>1. loaded' = loaded /\ polled' = polled
  BY DEF PollSource, loaded, polled
<1>2. PICK set \in OriginCookies :
        jar' = jar \/ jar' = Merge(jar, [i \in {id} |-> CookiesStored(id, set)])
  BY DEF PollSource
<1>3. DOMAIN jar' \subseteq DOMAIN jar \cup {id}
  BY <1>2 DEF Merge
<1>4. TypeOK'
  <2>1. request'.id \in Ids
    BY DEF PollSource, Request, IInv, TypeOK
  <2> QED
    BY <1>1, <1>3, <2>1 DEF PollSource, IInv, TypeOK
<1>5. Progress'
  BY <1>1 DEF PollSource, IInv, Progress
<1>6. JarExplained'
  <2> SUFFICES ASSUME NEW j \in DOMAIN jar', j \notin edited, NEW n \in DOMAIN jar'[j]
               PROVE  \/ /\ n \in DOMAIN CookiesOf(loaded, j)
                         /\ jar'[j][n] = CookiesOf(loaded, j)[n]
                      \/ SetByOrigin(n, jar'[j][n])
    BY <1>1 DEF PollSource, JarExplained, CookiesOf, SetByOrigin
  <2>1. CASE jar' = jar \/ j # id
    <3>1. j \in DOMAIN jar /\ jar'[j] = jar[j]
      BY <1>2, <2>1 DEF Merge
    <3> QED
      BY <3>1 DEF IInv, JarExplained
  <2>2. CASE jar' # jar /\ j = id
    <3>1. jar'[id] = Merge(CookiesSent(id), Filled(set))
      BY <1>2, <2>2 DEF Merge, CookiesStored
    <3>2. CASE n \in DOMAIN Filled(set)
      <4>1. jar'[id][n] = Filled(set)[n]
        BY <3>1, <3>2, MergeOver
      <4> QED
        BY <2>2, <3>2, <4>1 DEF SetByOrigin, Filled
    <3>3. CASE n \notin DOMAIN Filled(set)
      <4>1. n \in DOMAIN CookiesSent(id) /\ jar'[id][n] = CookiesSent(id)[n]
        BY <2>2, <3>1, <3>3 DEF Merge
      <4>2. CASE id \in DOMAIN jar /\ n \in DOMAIN jar[id]
        <5>1. CookiesSent(id)[n] = jar[id][n]
          BY <4>2 DEF CookiesSent, Merge
        <5> QED
          BY <2>2, <4>1, <4>2, <5>1 DEF IInv, JarExplained
      <4>3. CASE ~(id \in DOMAIN jar /\ n \in DOMAIN jar[id])
        BY <2>2, <4>1, <4>3, NothingLoaded DEF CookiesSent, Merge
      <4> QED
        BY <4>2, <4>3
    <3> QED
      BY <3>2, <3>3
  <2> QED
    BY <2>1, <2>2
<1> QED
  BY <1>4, <1>5, <1>6 DEF IInv

LEMMA StepIInv == ASSUME IInv, [Next]_vars PROVE IInv'
<1>1. CASE Edit
  BY <1>1, IngestAssumption
     DEF Edit, IInv, TypeOK, Progress, JarExplained, loaded, polled, database, CookiesOf, SetByOrigin
<1>2. CASE BeginPolling
  BY <1>2 DEF BeginPolling, IInv, TypeOK, Progress, JarExplained, loaded, polled, database, history,
              CookiesOf, SetByOrigin
<1>3. CASE Kill
  BY <1>3, IngestAssumption
     DEF Kill, IInv, TypeOK, Progress, JarExplained, loaded, polled, database, CookiesOf, SetByOrigin
<1>4. ASSUME NEW id \in DOMAIN feeds, Exclude(id)
      PROVE  IInv'
  BY <1>4 DEF Exclude, IInv, TypeOK, Progress, JarExplained, loaded, polled, history, CookiesOf,
              SetByOrigin
<1>5. CASE UNCHANGED vars
  BY <1>5 DEF vars, IInv, TypeOK, Progress, JarExplained, loaded, polled, database, history, CookiesOf,
              SetByOrigin
<1> QED
  BY <1>1, <1>2, <1>3, <1>4, <1>5, StartIInv, WipeIInv, UpsertCategoriesIInv, UpsertChunkIInv,
     PollSourceIInv DEF Next

LEMMA Invariance == Spec => []IInv
  BY InitIInv, StepIInv, PTL DEF Spec

----------------------------------------------------------------------------
(* What follows from it. *)

\* The tables refer to each other as their keys ask for.
THEOREM TypeCorrect == Spec => []TypeOK
<1>1. IInv => TypeOK
  BY DEF IInv
<1> QED
  BY <1>1, Invariance, PTL

\* The database never refuses a configuration that loads.
THEOREM Accepted == Spec => []IngestAccepted
<1>1. IInv => IngestAccepted
  BY DEF IInv, Progress, IngestAccepted
<1> QED
  BY <1>1, Invariance, PTL

\* Once it polls, the rows are those of the configuration.
THEOREM RowsAgreeOnceRunning == Spec => []RowsAgree
<1>1. IInv => RowsAgree
  BY DEF IInv, Progress, RowsAgree
<1> QED
  BY <1>1, Invariance, PTL

\* Once it polls, every configured source that has not failed too often is due:
\* the category in its row is one of those with a scheduler round.
ConfiguredAreDue == phase = "running" => \A id \in DOMAIN loaded \ excluded : Due(id)

\* The safety part of EverySourceDue: the rows' categories, resolved when the
\* configuration was loaded, and the rounds, taken from the same configuration,
\* agree whatever earlier starts left (loader.rs:386-403, main.rs:200-205).
THEOREM SourcesAreDue == Spec => []ConfiguredAreDue
<1>1. ASSUME IInv, phase = "running", NEW id \in DOMAIN loaded \ excluded PROVE Due(id)
  <2>1. id \in DOMAIN feeds /\ feeds[id] = Row(loaded[id])
    BY <1>1 DEF IInv, Progress
  <2>2. current \in Loadable /\ loaded = Defined[current]
    BY <1>1 DEF IInv, TypeOK, loaded
  <2>3. loaded[id].category \in polled
    BY <2>2, LoadedIsDefined DEF polled
  <2> QED
    BY <1>1, <2>1, <2>3 DEF Due, Row
<1>2. IInv => ConfiguredAreDue
  BY <1>1 DEF ConfiguredAreDue
<1> QED
  BY <1>2, Invariance, PTL

\* The request of a configured source is made from its row and its file.
LEMMA PollSourceAsConfigured ==
  ASSUME IInv, NEW id \in DOMAIN feeds, PollSource(id),
         NEW e \in Entries(Configuration[current]), request'.id = EntryId(e)
  PROVE  /\ request'.url = e.raw.url
         /\ request'.watch = (e.kind = "watch")
         /\ Has(e, "cookie") =>
              LET file == Configuration[current].cookieFiles[e.layer["cookie"]]
              IN \A n \in {m \in DOMAIN file : file[m] # ""} :
                   /\ n \in DOMAIN request'.cookies
                   /\ \/ request'.cookies[n] = file[n]
                      \/ SetByOrigin(n, request'.cookies[n])
                      \/ request'.id \in edited
<1>1. /\ phase = "running" /\ request' = Request(id) /\ id = EntryId(e)
  BY DEF PollSource, Due, Request
<1>2. current \in Loadable /\ loaded = Sources(Configuration[current]) /\ Loads(Configuration[current])
  BY <1>1, LoadedIsDefined DEF IInv, TypeOK, loaded, Loadable
<1>3. id \in DOMAIN loaded /\ loaded[id] = Source(Configuration[current], e)
  BY <1>1, <1>2, SourceOfEntry
<1>4. request'.url = e.raw.url
  <2>1. feeds[id] = Row(loaded[id])
    BY <1>1, <1>3 DEF IInv, Progress
  <2> QED
    BY <1>1, <1>3, <2>1 DEF Request, Row, Source
<1>5. request'.watch = (e.kind = "watch")
  BY <1>1, <1>3 DEF Request, Source
<1>6. ASSUME Has(e, "cookie"),
             NEW n \in DOMAIN Configuration[current].cookieFiles[e.layer["cookie"]],
             Configuration[current].cookieFiles[e.layer["cookie"]][n] # ""
      PROVE  LET file == Configuration[current].cookieFiles[e.layer["cookie"]]
             IN /\ n \in DOMAIN request'.cookies
                /\ \/ request'.cookies[n] = file[n]
                   \/ SetByOrigin(n, request'.cookies[n])
                   \/ request'.id \in edited
  <2> DEFINE file == Configuration[current].cookieFiles[e.layer["cookie"]]
  <2>1. CookiesOf(loaded, id) = Filled(file)
    <3>1. loaded[id].cookies = Cookies(Configuration[current], e)
      BY <1>3 DEF Source
    <3>2. Cookies(Configuration[current], e) = file
      BY <1>6 DEF Cookies
    <3> QED
      BY <1>3, <3>1, <3>2, Zenon DEF CookiesOf
  <2>2. request'.cookies = CookiesSent(id) /\ request'.id = id
    BY <1>1 DEF Request
  <2> HIDE DEF file
  <2>3. n \in DOMAIN file /\ n \in DOMAIN Filled(file) /\ Filled(file)[n] = file[n]
    BY <1>6 DEF file, Filled
  <2>4. n \in DOMAIN CookiesSent(id)
    BY <2>1, <2>3 DEF CookiesSent, Merge
  <2>5. CASE id \in DOMAIN jar /\ n \in DOMAIN jar[id]
    <3>1. CookiesSent(id)[n] = jar[id][n]
      BY <2>5 DEF CookiesSent, Merge
    <3> QED
      BY <2>1, <2>2, <2>3, <2>4, <2>5, <3>1 DEF IInv, JarExplained, file
  <2>6. CASE ~(id \in DOMAIN jar /\ n \in DOMAIN jar[id])
    <3>1. CookiesSent(id)[n] = file[n]
      BY <2>1, <2>3, <2>6, NothingLoaded DEF CookiesSent, Merge
    <3> QED
      BY <2>2, <2>4, <3>1 DEF file
  <2> QED
    BY <2>5, <2>6
<1> QED
  BY <1>4, <1>5, <1>6

\* Every configured source is requested as the configuration says.
THEOREM RequestsAsConfigured == Spec => RequestAsConfigured
<1>1. ASSUME IInv, [Next]_vars, request' \notin {request, Nothing}
      PROVE  \E id \in DOMAIN feeds : PollSource(id)
  BY <1>1 DEF Next, vars, Edit, Start, Wipe, UpsertCategories, UpsertChunk, BeginPolling, Kill, Exclude,
              history
<1>2. IInv /\ [Next]_vars =>
        (request' \notin {request, Nothing} =>
           \A e \in Entries(Configuration[current]) :
             request'.id = EntryId(e) =>
               /\ request'.url = e.raw.url
               /\ request'.watch = (e.kind = "watch")
               /\ Has(e, "cookie") =>
                    LET file == Configuration[current].cookieFiles[e.layer["cookie"]]
                    IN \A n \in {m \in DOMAIN file : file[m] # ""} :
                         /\ n \in DOMAIN request'.cookies
                         /\ \/ request'.cookies[n] = file[n]
                            \/ SetByOrigin(n, request'.cookies[n])
                            \/ request'.id \in edited)
  BY <1>1, PollSourceAsConfigured
<1> QED
  BY <1>2, Invariance, PTL DEF Spec, RequestAsConfigured
=============================================================================

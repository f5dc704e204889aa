---------------------------- MODULE SourceConfig -----------------------------
(***************************************************************************)
(* How the fetcher turns its configuration files into sources to poll      *)
(* (crates/core/src/infra/config, and the cookie files of                  *)
(* crates/fetcher/src/main.rs), as operators on a bundle of files.         *)
(*                                                                         *)
(* A bundle is a record of                                                 *)
(*   mode         "dev" or "prod"                                          *)
(*   defaultPoll  polling.default_seconds                                  *)
(*   categories   a set of [name, domains]                                 *)
(*   global       for a directory with a global.toml: its [feed, watch]    *)
(*   files        a set of [dir, enabled, defaults, watchDefaults,         *)
(*                profiles, feeds, watches]                                *)
(*   cookieFiles  for a path, the cookies of the file with their values,   *)
(*                which may be empty; none if it has no cookie             *)
(*   headerFiles  for a path, the headers of the file                      *)
(* Feeds, watches and profiles are sets of records with a field "given";   *)
(* that, and every default, is a function from the names of the fields     *)
(* that were written to their values: the id prefix, category, interval,   *)
(* cookie path, headers and their path, and for watches the selector, its  *)
(* identity and attribute.  The code treats its other twenty-odd fields    *)
(* like these.                                                             *)
(*                                                                         *)
(* Ids are sequences of their dash-separated parts, since a prefix has no  *)
(* dash.  A URL is <<host, rest>>.  What the JSON schemas refuse before    *)
(* (unknown check methods, detectors, modes) is not in a bundle.           *)
(***************************************************************************)
EXTENDS Sequences

CONSTANTS
  ValidPrefixes,   \* lowercase alphanumeric strings
  NoHost,          \* the host of a URL that has none
  NoProfile        \* the profile of a watch that names none

\* A plausible slip: the defaults win.
MergeDefaultsFirst(base, over) ==
  [f \in DOMAIN base \cup DOMAIN over |-> IF f \in DOMAIN base THEN base[f] ELSE over[f]]

\* FeedDefaults::merge, WatchDefaults::merge, and the item over its defaults.
Merge(base, over) ==
  [f \in DOMAIN base \cup DOMAIN over |-> IF f \in DOMAIN over THEN over[f] ELSE base[f]]

Global(b, dir) ==
  IF dir \in DOMAIN b.global THEN b.global[dir] ELSE [feed |-> <<>>, watch |-> <<>>]

FeedDefaults(b, file) == Merge(Global(b, file.dir).feed, file.defaults)
WatchDefaults(b, file) == Merge(Global(b, file.dir).watch, file.watchDefaults)

ProfileOf(file, w) == CHOOSE p \in file.profiles : p.name = w.profile

WatchBase(b, file, w) ==
  IF w.profile = NoProfile
    THEN WatchDefaults(b, file)
    ELSE Merge(WatchDefaults(b, file), ProfileOf(file, w).given)

EnabledFiles(b) == {file \in b.files : file.enabled}

\* The entries of the enabled files, with what they inherit.
FeedEntries(b) ==
  UNION {{[kind |-> "feed", raw |-> f, file |-> file,
           layer |-> Merge(FeedDefaults(b, file), f.given)]
            : f \in file.feeds} : file \in EnabledFiles(b)}
WatchEntries(b) ==
  UNION {{[kind |-> "watch", raw |-> w, file |-> file,
           layer |-> Merge(WatchBase(b, file, w), w.given)]
            : w \in file.watches} : file \in EnabledFiles(b)}
Entries(b) == FeedEntries(b) \cup WatchEntries(b)

EntryId(e) ==
  IF "prefix" \in DOMAIN e.layer THEN <<e.layer["prefix"]>> \o e.raw.id ELSE e.raw.id

CategoryNames(b) == {c.name : c \in b.categories}
Host(url) == url[1]

----------------------------------------------------------------------------
(* What makes the load fail. *)

PrefixValid(layer) == "prefix" \in DOMAIN layer => layer["prefix"] \in ValidPrefixes

\* A global.toml is read for every file, a disabled one too.
GlobalsValid(b) ==
  \A file \in b.files : PrefixValid(Global(b, file.dir).feed) /\ PrefixValid(Global(b, file.dir).watch)

FileValid(file) ==
  /\ PrefixValid(file.defaults) /\ PrefixValid(file.watchDefaults)
  /\ \A p \in file.profiles : p.name # "" /\ PrefixValid(p.given)
  /\ \A p, q \in file.profiles : p.name = q.name => p = q
  /\ \A w \in file.watches :
       w.profile # NoProfile => \E p \in file.profiles : p.name = w.profile
  /\ \A item \in file.feeds \cup file.watches : PrefixValid(item.given)

CategoriesValid(b) ==
  /\ b.categories # {} /\ "" \notin CategoryNames(b)
  /\ \A c \in b.categories : "" \notin c.domains
  /\ \A c, d \in b.categories : c.name = d.name \/ c.domains \cap d.domains # {} => c = d

\* A plausible slip: a category that is written is taken as it is.
ResolvesUnchecked(b, e) ==
  "category" \in DOMAIN e.layer \/ \E c \in b.categories : Host(e.raw.url) \in c.domains

Resolves(b, e) ==
  IF "category" \in DOMAIN e.layer
    THEN e.layer["category"] \in CategoryNames(b)
    ELSE \E c \in b.categories : Host(e.raw.url) \in c.domains

\* The field has a value that is not blank.  A blank one is not inherited either.
Has(e, field) == field \in DOMAIN e.layer /\ e.layer[field] # ""

WatchValid(e) ==
  /\ Has(e, "selector")
  /\ Has(e, "identity") /\ e.layer["identity"] = "attr" => Has(e, "attr")

\* An unreadable file, or a cookie file without a single cookie, ends the start.
FilesValid(b, e) ==
  /\ Has(e, "cookie") =>
       /\ e.layer["cookie"] \in DOMAIN b.cookieFiles
       /\ b.cookieFiles[e.layer["cookie"]] # <<>>
  /\ Has(e, "headersPath") => e.layer["headersPath"] \in DOMAIN b.headerFiles

Loads(b) ==
  /\ b.files # {}
  /\ GlobalsValid(b) /\ CategoriesValid(b)
  /\ \A file \in EnabledFiles(b) : FileValid(file)
  /\ \A e \in Entries(b) : Host(e.raw.url) # NoHost /\ Resolves(b, e) /\ FilesValid(b, e)
  /\ \A e \in WatchEntries(b) : WatchValid(e)
  /\ \A d, e \in Entries(b) : EntryId(d) = EntryId(e) => d = e

----------------------------------------------------------------------------
(* What a bundle that loads defines. *)

Category(b, e) ==
  IF "category" \in DOMAIN e.layer
    THEN e.layer["category"]
    ELSE (CHOOSE c \in b.categories : Host(e.raw.url) \in c.domains).name

Poll(b, e) == IF "poll" \in DOMAIN e.layer THEN e.layer["poll"] ELSE b.defaultPoll

\* A plausible slip: the cookie files of watches are not read.
CookiesOfFeeds(b, e) ==
  IF Has(e, "cookie") /\ e.kind = "feed" THEN b.cookieFiles[e.layer["cookie"]] ELSE <<>>

Cookies(b, e) == IF Has(e, "cookie") THEN b.cookieFiles[e.layer["cookie"]] ELSE <<>>

\* The headers of the file over those written with the source; never a cookie,
\* which comes from the cookie file.
Headers(b, e) ==
  LET written == IF "headers" \in DOMAIN e.layer THEN e.layer["headers"] ELSE <<>>
      read == IF Has(e, "headersPath") THEN b.headerFiles[e.layer["headersPath"]] ELSE <<>>
      all == Merge(written, read)
  IN [n \in DOMAIN all \ {"cookie"} |-> all[n]]

Source(b, e) ==
  [kind |-> e.kind, url |-> e.raw.url, category |-> Category(b, e),
   poll |-> Poll(b, e), cookies |-> Cookies(b, e), headers |-> Headers(b, e)]

SourceIds(b) == {EntryId(e) : e \in Entries(b)}

\* Feeds and watches in one map; watches become feeds under their id.
Sources(b) ==
  [id \in SourceIds(b) |-> Source(b, CHOOSE e \in Entries(b) : EntryId(e) = id)]
=============================================================================

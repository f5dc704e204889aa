---------------------------- MODULE MCFeedFetch ----------------------------
(* Small instances of FeedFetch for TLC. *)
EXTENDS FeedFetch

Feed(content, validators) ==
  [watch |-> FALSE, checkGet |-> FALSE, fetchBody |-> FALSE, detectors |-> {},
   content |-> content, validators |-> validators]

Watch(checkGet, fetchBody, detectors, validators) ==
  [watch |-> TRUE, checkGet |-> checkGet, fetchBody |-> fetchBody,
   detectors |-> detectors, content |-> "page", validators |-> validators]

\* Feeds with every kind of validators, and three watches of an HTML page.
AllSources ==
  {Feed("feed", v) : v \in SUBSET {"etag", "lastModified"}} \cup
  {Watch(FALSE, TRUE, {"Etag"}, {"etag"}),
   Watch(TRUE, FALSE, {"ContentHash"}, {}),
   Watch(FALSE, FALSE, {"LastModified"}, {"lastModified"})}

\* A feed whose origin sends an etag with every content.
EtagFeed == {Feed("feed", {"etag"})}
============================================================================

---------------------------- MODULE MCEntryPages -----------------------------
(* Four entries of two feeds, two of which a search finds.                     *)
EXTENDS EntryPages

CONSTANTS f1, f2

MCFeedOf == [i \in Ids |-> IF i % 2 = 0 THEN f1 ELSE f2]
MCFound == {2, 3}
==============================================================================

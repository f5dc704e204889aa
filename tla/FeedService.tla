---------------------------- MODULE FeedService ----------------------------
(***************************************************************************)
(* What polling promises about one feed, whatever fails on the way: only   *)
(* content the origin has published (or an error page, None) is stored; a  *)
(* version is acknowledged, that is, the feed's state moves past it, only  *)
(* once its payload is stored; exclusion is final, and nothing is stored   *)
(* or acknowledged after it.  FeedFetch implements this.                   *)
(***************************************************************************)
EXTENDS Naturals

CONSTANTS None, MaxVersion

VARIABLES version, stored, acked, excluded

abstractVars == <<version, stored, acked, excluded>>

AInit ==
  /\ version = 1
  /\ stored = {}
  /\ acked = {}
  /\ excluded = FALSE

APublish ==
  /\ version < MaxVersion
  /\ version' = version + 1
  /\ UNCHANGED <<stored, acked, excluded>>

Store ==
  /\ ~excluded
  /\ \E v \in {None} \cup 1..version : stored' = stored \cup {v}
  /\ UNCHANGED <<version, acked, excluded>>

Acknowledge ==
  /\ ~excluded
  /\ \E v \in stored : acked' = acked \cup {v}
  /\ UNCHANGED <<version, stored, excluded>>

Exclude ==
  /\ excluded' = TRUE
  /\ UNCHANGED <<version, stored, acked>>

ANext == APublish \/ Store \/ Acknowledge \/ Exclude

ASpec == AInit /\ [][ANext]_abstractVars
============================================================================

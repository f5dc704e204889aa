---------------------------- MODULE BoundedFetch ----------------------------
(***************************************************************************)
(* What bounded parallelism promises: requests begin and end, and at no    *)
(* time are more of them on the way than the global cap (0 for none)       *)
(* allows, nor more to one domain than its limit.  TickBatch implements    *)
(* this with a bounded stream and two kinds of semaphores.                 *)
(***************************************************************************)
EXTENDS Naturals, FiniteSets

CONSTANTS Feeds, Domains, DomainOf, Limit(_)

VARIABLES cap, active

InDomain(S, d) == {f \in S : DomainOf[f] = d}

BInit == active = {} /\ cap \in Nat

Begin(f) ==
  /\ f \notin active
  /\ cap # 0 => Cardinality(active) < cap
  /\ Cardinality(InDomain(active, DomainOf[f])) < Limit(DomainOf[f])
  /\ active' = active \cup {f}
  /\ UNCHANGED cap

End(f) ==
  /\ f \in active
  /\ active' = active \ {f}
  /\ UNCHANGED cap

BNext == \E f \in Feeds : Begin(f) \/ End(f)

BSpec == BInit /\ [][BNext]_<<cap, active>>
============================================================================

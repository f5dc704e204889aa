---------------------------- MODULE MCTickBatch ----------------------------
(* A small instance of TickBatch for TLC: three feeds of a configured domain *)
(* with two permits, two feeds of a domain nobody configured.                *)
EXTENDS TickBatch

CONSTANTS f1, f2, f3, f4, f5, a, b

AllFeeds == {f1, f2, f3, f4, f5}
DomainOfFeed == [f \in AllFeeds |-> IF f \in {f1, f2, f3} THEN a ELSE b]
LimitOfA == [d \in {a} |-> 2]
============================================================================

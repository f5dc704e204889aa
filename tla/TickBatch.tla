----------------------------- MODULE TickBatch -----------------------------
(***************************************************************************)
(* The parallel part of one scheduler: run_tick polls the due feeds of a   *)
(* batch through buffer_unordered (crates/core/src/app/scheduler/          *)
(* processing.rs), and every request first takes a permit of the global    *)
(* semaphore and then one of its domain's (concurrency.rs).  The domain    *)
(* semaphores outlive the batch; those of unconfigured domains are made    *)
(* when first asked for.                                                   *)
(*                                                                         *)
(* The futures of a batch interleave at every await.  tokio's semaphores   *)
(* are external: a permit goes to whoever has waited longest.              *)
(***************************************************************************)
EXTENDS Integers, FiniteSets, Sequences

CONSTANTS
  Feeds, Domains,
  DomainOf,           \* the domain of each feed
  ConfiguredLimit,    \* max_concurrent_requests of the domains in domains.toml
  GlobalCaps,         \* the values of global_max_concurrent_requests to choose from
  DefaultParallelism  \* how many futures run at once without a global cap

NoCap == 0   \* global_max_concurrent_requests is absent

ASSUME TickBatchAssumption ==
  /\ IsFiniteSet(Feeds)
  /\ DomainOf \in [Feeds -> Domains]
  /\ DOMAIN ConfiguredLimit \subseteq Domains
  /\ \A d \in DOMAIN ConfiguredLimit : ConfiguredLimit[d] \in Nat \ {0}
  /\ GlobalCaps \subseteq Nat
  /\ DefaultParallelism \in Nat \ {0}

VARIABLES
  globalCap,    \* the configured cap, fixed
  pc,           \* where the future of each feed stands
  globalFree,   \* permits left in the global semaphore
  globalQueue,  \* the feeds waiting for one, in order of arrival
  domainFree,   \* permits left in each domain's semaphore, once it exists
  known,        \* the domains with a semaphore in the map
  domainQueue   \* the feeds waiting for a permit of each domain

semaphores == <<globalFree, globalQueue, domainFree, known, domainQueue>>
vars == <<globalCap, pc, semaphores>>

Steps == {"idle", "queued", "reading", "lookup", "creating", "global", "domain",
          "fetching"}

\* A plausible slip: a domain missing from domains.toml gets no permit at all.
LimitDefaultZero(d) == IF d \in DOMAIN ConfiguredLimit THEN ConfiguredLimit[d] ELSE 0

Limit(d) == IF d \in DOMAIN ConfiguredLimit THEN ConfiguredLimit[d] ELSE 1

\* A plausible slip: the stream's width ignores the global cap.
ParallelismFixed == DefaultParallelism

\* run_tick: as many futures at once as the global semaphore has permits.
Parallelism == IF globalCap # NoCap THEN globalCap ELSE DefaultParallelism

At(steps) == {f \in Feeds : pc[f] \in steps}

\* The futures buffer_unordered has begun to poll.
Running == At(Steps \ {"idle", "queued"})

\* The feeds that hold a global permit, and those of d that hold a permit of d.
HoldGlobal == IF globalCap = NoCap THEN {} ELSE At({"domain", "fetching"})
HoldDomain(d) == {f \in At({"fetching"}) : DomainOf[f] = d}

TypeOK ==
  /\ globalCap \in GlobalCaps
  /\ pc \in [Feeds -> Steps]
  /\ globalFree \in Nat
  /\ globalQueue \in Seq(Feeds)
  /\ domainFree \in [Domains -> Nat]
  /\ known \subseteq Domains
  /\ domainQueue \in [Domains -> Seq(Feeds)]

\* ConcurrencyGuards::new makes the semaphores of the configured domains.
Init ==
  /\ globalCap \in GlobalCaps
  /\ pc = [f \in Feeds |-> "idle"]
  /\ globalFree = globalCap
  /\ globalQueue = <<>>
  /\ known = DOMAIN ConfiguredLimit
  /\ domainFree = [d \in Domains |-> IF d \in known THEN Limit(d) ELSE 0]
  /\ domainQueue = [d \in Domains |-> <<>>]

----------------------------------------------------------------------------
Goto(f, step) == pc' = [pc EXCEPT ![f] = step]

\* The due query of the next tick answers, once the stream is drained.
BeginBatch(due) ==
  /\ \A f \in Feeds : pc[f] = "idle"
  /\ pc' = [f \in Feeds |-> IF f \in due THEN "queued" ELSE "idle"]
  /\ UNCHANGED <<globalCap, semaphores>>

\* buffer_unordered takes another feed from the stream.
StartFeed(f) ==
  /\ pc[f] = "queued"
  /\ Cardinality(Running) < Parallelism
  /\ Goto(f, "reading")
  /\ UNCHANGED <<globalCap, semaphores>>

\* process_feed reads the stored state and goes on to a request...
DecideRequest(f) ==
  /\ pc[f] = "reading"
  /\ Goto(f, "lookup")
  /\ UNCHANGED <<globalCap, semaphores>>

\* ... or ends: the read failed, or it is not yet time.
DecideNothing(f) ==
  /\ pc[f] = "reading"
  /\ Goto(f, "idle")
  /\ UNCHANGED <<globalCap, semaphores>>

\* PermitPair::acquire begins with the global semaphore, if there is one.
BeginAcquire(f) ==
  IF globalCap # NoCap
  THEN /\ Goto(f, "global")
       /\ globalQueue' = Append(globalQueue, f)
       /\ UNCHANGED domainQueue
  ELSE /\ Goto(f, "domain")
       /\ domainQueue' = [domainQueue EXCEPT ![DomainOf[f]] = Append(@, f)]
       /\ UNCHANGED globalQueue

\* permit: the map is read under its lock...
LookupHit(f) ==
  /\ pc[f] = "lookup"
  /\ DomainOf[f] \in known
  /\ BeginAcquire(f)
  /\ UNCHANGED <<globalCap, globalFree, domainFree, known>>

LookupMiss(f) ==
  /\ pc[f] = "lookup"
  /\ DomainOf[f] \notin known
  /\ Goto(f, "creating")
  /\ UNCHANGED <<globalCap, semaphores>>

\* A plausible slip: insert in place of entry().or_insert_with(), so that the
\* semaphore another feed has just made is replaced by a fresh one.
CreateOverwriting(f) ==
  /\ pc[f] = "creating"
  /\ known' = known \cup {DomainOf[f]}
  /\ domainFree' = [domainFree EXCEPT ![DomainOf[f]] = Limit(DomainOf[f])]
  /\ BeginAcquire(f)
  /\ UNCHANGED <<globalCap, globalFree>>

\* ... and written under another one; a semaphore made meanwhile is kept.
Create(f) ==
  /\ pc[f] = "creating"
  /\ known' = known \cup {DomainOf[f]}
  /\ domainFree' = IF DomainOf[f] \in known THEN domainFree
                   ELSE [domainFree EXCEPT ![DomainOf[f]] = Limit(DomainOf[f])]
  /\ BeginAcquire(f)
  /\ UNCHANGED <<globalCap, globalFree>>

AcquireGlobal(f) ==
  /\ pc[f] = "global"
  /\ globalQueue # <<>> /\ Head(globalQueue) = f
  /\ globalFree > 0
  /\ globalFree' = globalFree - 1
  /\ globalQueue' = Tail(globalQueue)
  /\ domainQueue' = [domainQueue EXCEPT ![DomainOf[f]] = Append(@, f)]
  /\ Goto(f, "domain")
  /\ UNCHANGED <<globalCap, domainFree, known>>

\* A plausible slip: try_acquire with its refusal ignored.
AcquireDomainAnyway(f) ==
  LET d == DomainOf[f] IN
  /\ pc[f] = "domain"
  /\ domainQueue[d] # <<>> /\ Head(domainQueue[d]) = f
  /\ domainFree' = [domainFree EXCEPT ![d] = @ - 1]
  /\ domainQueue' = [domainQueue EXCEPT ![d] = Tail(@)]
  /\ Goto(f, "fetching")
  /\ UNCHANGED <<globalCap, globalFree, globalQueue, known>>

AcquireDomain(f) ==
  LET d == DomainOf[f] IN
  /\ pc[f] = "domain"
  /\ domainQueue[d] # <<>> /\ Head(domainQueue[d]) = f
  /\ domainFree[d] > 0
  /\ domainFree' = [domainFree EXCEPT ![d] = @ - 1]
  /\ domainQueue' = [domainQueue EXCEPT ![d] = Tail(@)]
  /\ Goto(f, "fetching")
  /\ UNCHANGED <<globalCap, globalFree, globalQueue, known>>

\* do_head or do_get returns, with or without an error, and drops its permits.
Finish(f) ==
  /\ pc[f] = "fetching"
  /\ Goto(f, "idle")
  /\ globalFree' = IF globalCap # NoCap THEN globalFree + 1 ELSE globalFree
  /\ domainFree' = [domainFree EXCEPT ![DomainOf[f]] = @ + 1]
  /\ UNCHANGED <<globalCap, globalQueue, known, domainQueue>>

\* The steps of the future of feed f.
Poll(f) ==
  \/ DecideRequest(f) \/ DecideNothing(f)
  \/ LookupHit(f) \/ LookupMiss(f) \/ Create(f)
  \/ AcquireGlobal(f) \/ AcquireDomain(f) \/ Finish(f)

Next ==
  \/ \E due \in SUBSET Feeds : BeginBatch(due)
  \/ \E f \in Feeds : StartFeed(f) \/ Poll(f)

Spec == Init /\ [][Next]_vars

\* The runtime polls every future that can go on, and every request ends (the
\* HTTP client has a timeout).  Nothing says which queued feed is started first.
Fairness ==
  /\ \A f \in Feeds : WF_vars(Poll(f))
  /\ WF_vars(\E f \in Feeds : StartFeed(f))

FairSpec == Spec /\ Fairness

----------------------------------------------------------------------------
(* Properties. *)

\* No permit is lost or made up by the futures of a batch, across batches and
\* across two futures that make the semaphore of their domain at the same time
\* (concurrency.rs:61-92): what is free and what is held adds up to the limit.
PermitsConserved ==
  /\ globalCap # NoCap => globalFree + Cardinality(HoldGlobal) = globalCap
  /\ \A d \in known : domainFree[d] + Cardinality(HoldDomain(d)) = Limit(d)

\* Each request takes the global permit first and waits for its domain while it
\* holds it.  That blocks nobody at the global semaphore, because the stream is
\* exactly as wide as that semaphore (processing.rs:93-95).
GlobalNeverWaits == \A f \in Feeds : pc[f] = "global" => globalFree > 0

\* Every due feed of a batch is processed to its end: holding one permit while
\* waiting for the other never deadlocks, and no domain starves another.
EveryDueFeedServed == \A f \in Feeds : pc[f] = "queued" ~> pc[f] = "idle"

Bounded == INSTANCE BoundedFetch
  WITH cap <- globalCap, active <- At({"fetching"})

\* README: bounded parallelism, per-domain semaphores and an optional global
\* cap: never more requests on the way than the cap and the limits allow.
ImplementsBounded == Bounded!BSpec
============================================================================
